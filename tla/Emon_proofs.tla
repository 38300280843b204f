----------------------------- MODULE Emon_proofs -----------------------------
(***************************************************************************)
(* Theorems about Emon for every number of steps, counts, faults and       *)
(* meddling processes.                                                     *)
(***************************************************************************)
EXTENDS Emon, TLAPS

Config  == {"timing", "volt", "target", "adapt", "change"}
Polling == {"traffic", "tested", "errors"}

\* The lane's monitor has not begun a test since it was enabled.
Fresh == ~ running[lane] /\ tested[lane] = 0 /\ errors[lane] = 0

\* Its counts are about the point of the sweep.
Right == at[lane] = [timing |-> Steps(t), volt |-> Steps(v), adapt |-> "NO_ADAPT"]

\* A monitor stops when a count is full.
RowInv == \A l \in Lanes : target[l] = TestCount /\ (running[l] => ~ Full(l))

\* From the enabling of a monitor to its sample the counts are those of the
\* enabling until the power mode change ends, and then of the right point; a
\* tested count that was read full is still there, and the test is over.
PointInv ==
  /\ pc \notin Polling \cup {"exit"} => ~ change
  /\ pc \in Config \/ (pc \in Polling /\ change) => Fresh
  /\ pc \in Polling /\ ~ change => Fresh \/ Right
  /\ pc \in (Config \ {"timing"}) \cup Polling => timing[lane] = Steps(t)
  /\ pc \in (Config \ {"timing", "volt"}) \cup Polling => volt[lane] = Steps(v)
  /\ pc \in {"change"} \cup Polling => adapt = "NO_ADAPT"
  /\ pc = "errors" /\ seen >= TestCount =>
       ~ change /\ ~ running[lane] /\ tested[lane] >= TestCount

\* A power mode change that was sent twice spoils the points it ends at, and
\* none after it.
ScanInv == RowInv /\ (doubled \/ PointInv) /\ sound

\* A monitor that is enabled was so before and its turn has not come, or it is
\* the lane's.
LaneInv ==
  /\ \A l \in Lanes : on[l] => \/ before[l] /\ (l \notin job.lanes \/ l > lane)
                               \/ l = lane
  /\ pc = "report" \/ (pc = "exit" /\ rc = "ok") => ~ on[lane]

-----------------------------------------------------------------------------
(* Types                                                                   *)

LEMMA JobParts ==
  ASSUME job \in Jobs
  PROVE  /\ job.lanes \in Selections
         /\ job.tmax \in Nat /\ job.vmax \in Nat
         /\ job.lanes \subseteq Lanes
<1>1. PICK s \in Selections, c \in Capabilities, x \in TimingSteps, y \in VoltageSteps,
           gx \in GivenSteps, gy \in GivenSteps :
        job = [lanes |-> s, caps |-> c, tmax |-> Capped(x, gx), vmax |-> Capped(y, gy)]
  BY DEF Jobs
<1>2. x \in Nat /\ y \in Nat /\ gx \in Int /\ gy \in Int
  BY CapabilitiesAssumption DEF StepMask, NotGiven
<1>3. Capped(x, gx) \in Nat /\ Capped(y, gy) \in Nat
  BY <1>2 DEF Capped
<1>4. s \subseteq Lanes
  BY DEF Selections, Lanes
<1>5. QED
  BY <1>1, <1>3, <1>4

LEMMA LaneOrder ==
  ASSUME NEW s \in Selections
  PROVE  /\ Lowest(s) \in s /\ Highest(s) \in s
         /\ \A l \in s : Lowest(s) <= l /\ l <= Highest(s)
         /\ \A l \in s : l # Highest(s) => l + 1 \in s
<1>1. CASE s = {0, 1}
  <2>1. (\E l \in s : \A m \in s : l <= m) /\ (\E l \in s : \A m \in s : l >= m)
    BY <1>1
  <2>2. Lowest(s) \in s /\ \A m \in s : Lowest(s) <= m
    BY <2>1 DEF Lowest
  <2>3. Highest(s) \in s /\ \A m \in s : Highest(s) >= m
    BY <2>1 DEF Highest
  <2>4. Lowest(s) = 0 /\ Highest(s) = 1
    BY <1>1, <2>2, <2>3
  <2>5. QED
    BY <1>1, <2>4
<1>2. ASSUME NEW k \in Lanes, s = {k}
      PROVE  Lowest(s) = k /\ Highest(s) = k
  <2>1. k <= k /\ k >= k
    BY DEF Lanes
  <2>2. QED
    BY <1>2, <2>1 DEF Lowest, Highest
<1>3. CASE s = {0} \/ s = {1}
  <2>1. PICK k \in Lanes : s = {k}
    BY <1>3 DEF Lanes
  <2>2. QED
    BY <1>2, <2>1 DEF Lanes
<1>4. QED
  BY <1>1, <1>3 DEF Selections

LEMMA StepsTyped ==
  ASSUME NEW i \in Int
  PROVE  Steps(i) \in Nat
BY DEF Steps, StepMask

\* What the steps below use of the types.
LEMMA Numbers ==
  ASSUME TypeOK
  PROVE  /\ lane \in job.lanes /\ lane \in Lanes /\ lane \in Int
         /\ job.lanes \in Selections /\ job.lanes \subseteq Lanes
         /\ job.tmax \in Nat /\ job.vmax \in Nat
         /\ t \in Int /\ 0 - job.tmax <= t /\ t <= job.tmax
         /\ v \in Int /\ 0 - job.vmax <= v /\ v <= job.vmax
         /\ seen \in Nat /\ faults \in Nat /\ meddling \in Nat
         /\ Steps(t) \in Nat /\ Steps(v) \in Nat
<1>1. job.lanes \in Selections /\ job.lanes \subseteq Lanes
      /\ job.tmax \in Nat /\ job.vmax \in Nat
  BY JobParts DEF TypeOK
<1>2. lane \in job.lanes /\ t \in (0 - job.tmax) .. job.tmax
      /\ v \in (0 - job.vmax) .. job.vmax /\ seen \in Nat
      /\ faults \in 0 .. MaxFaults /\ meddling \in 0 .. MaxMeddling
  BY DEF TypeOK
<1>3. t \in Int /\ v \in Int /\ 0 - job.tmax <= t /\ t <= job.tmax
      /\ 0 - job.vmax <= v /\ v <= job.vmax
  BY <1>1, <1>2
<1>4. lane \in Lanes /\ lane \in Int
  BY <1>1, <1>2 DEF Lanes
<1>5. QED
  BY <1>1, <1>2, <1>3, <1>4, StepsTyped

\* No call of the tool brings the monitors out of their types.
LEMMA DevEnableTyped ==
  ASSUME DevTypeOK, NEW l \in Lanes, DevEnable(l)
  PROVE  DevTypeOK'
BY CountsAssumption DEF DevEnable, Cleared, DevTypeOK, Nothing, Adapts

LEMMA DevDisableTyped ==
  ASSUME DevTypeOK, NEW l \in Lanes, DevDisable(l)
  PROVE  DevTypeOK'
BY DEF DevDisable, DevTypeOK

LEMMA DevSetTyped ==
  ASSUME DevTypeOK, NEW l \in Lanes, NEW s \in Nat,
         \/ DevSetTiming(l, s) \/ DevSetVolt(l, s) \/ DevSetTarget(l)
         \/ DevNoAdapt \/ DevChange
  PROVE  DevTypeOK'
BY CountsAssumption
   DEF DevSetTiming, DevSetVolt, DevSetTarget, DevNoAdapt, DevChange, counts, DevTypeOK, Adapts

LEMMA DevUntouched ==
  ASSUME DevTypeOK, UNCHANGED devVars
  PROVE  DevTypeOK'
BY DEF devVars, counts, DevTypeOK

LEMMA DevChangeEndsTyped ==
  ASSUME DevTypeOK, DevChangeEnds
  PROVE  DevTypeOK'
<1>1. running' \in [Lanes -> BOOLEAN]
  BY DEF DevChangeEnds, DevTypeOK
<1>2. tested' \in [Lanes -> Nat]
  BY DEF DevChangeEnds, DevTypeOK
<1>3. errors' \in [Lanes -> 0 .. ErrorLimit]
  BY CountsAssumption DEF DevChangeEnds, DevTypeOK
<1>4. ASSUME NEW l \in Lanes
      PROVE  [timing |-> timing[l], volt |-> volt[l], adapt |-> adapt]
               \in [timing : Nat \cup {-1}, volt : Nat \cup {-1}, adapt : Adapts]
  BY DEF DevTypeOK
<1>5. at' \in [Lanes -> [timing : Nat \cup {-1}, volt : Nat \cup {-1}, adapt : Adapts]]
  BY <1>4 DEF DevChangeEnds, DevTypeOK
<1>6. change' \in BOOLEAN /\ UNCHANGED <<on, timing, volt, target, adapt>>
  BY DEF DevChangeEnds
<1>7. QED
  BY <1>1, <1>2, <1>3, <1>5, <1>6 DEF DevTypeOK

LEMMA DevTestsTyped ==
  ASSUME DevTypeOK, NEW l \in Lanes, DevTests(l)
  PROVE  DevTypeOK'
<1>1. tested' \in [Lanes -> Nat]
  BY DEF DevTests, DevTypeOK
<1>2. PICK e \in {0, 1, ErrorLimit} :
        errors' = [errors EXCEPT ![l] = IF @ + e > ErrorLimit THEN ErrorLimit ELSE @ + e]
  BY DEF DevTests
<1>3. e \in Nat /\ errors[l] \in 0 .. ErrorLimit /\ ErrorLimit \in Nat
  BY CountsAssumption DEF DevTypeOK
<1>4. (IF errors[l] + e > ErrorLimit THEN ErrorLimit ELSE errors[l] + e) \in 0 .. ErrorLimit
  BY <1>3
<1>5. errors' \in [Lanes -> 0 .. ErrorLimit]
  BY <1>2, <1>4 DEF DevTypeOK
<1>6. running' \in [Lanes -> BOOLEAN]
  BY DEF DevTests, DevTypeOK
<1>7. UNCHANGED <<on, timing, volt, target, adapt, change, at>>
  BY DEF DevTests
<1>8. QED
  BY <1>1, <1>5, <1>6, <1>7 DEF DevTypeOK

-----------------------------------------------------------------------------
(* Type correctness                                                        *)

LEMMA FaultTyped ==
  ASSUME TypeOK, Fault
  PROVE  faults' \in 0 .. MaxFaults
BY LimitsAssumption DEF Fault, TypeOK

\* A step that moves neither the sweep nor the samples.
LEMMA AccessTyped ==
  ASSUME TypeOK, DevTypeOK', pc' \in Places, rc' \in {"ok", "error"},
         faults' \in 0 .. MaxFaults,
         doubled' \in BOOLEAN, UNCHANGED <<job, scan, report, before, meddling>>
  PROVE  TypeOK'
<1>1. UNCHANGED <<job, lane, t, v, seen, er, sound, report, before, meddling>>
  BY DEF scan
<1>2. Points' = Points
  BY <1>1 DEF Points
<1>3. QED
  BY <1>1, <1>2 DEF TypeOK

\* One attribute is set; the parts of SetAttr as facts.
LEMMA SetAttrTypes ==
  ASSUME TypeOK
  PROVE  Enable \/ SetTiming \/ SetVolt \/ SetTarget \/ NoAdapt \/ PowerModeChange
           => TypeOK'
<1> SUFFICES ASSUME Enable \/ SetTiming \/ SetVolt \/ SetTarget \/ NoAdapt \/ PowerModeChange
             PROVE  TypeOK'
  OBVIOUS
<1>1. lane \in Lanes /\ Steps(t) \in Nat /\ Steps(v) \in Nat /\ DevTypeOK
  BY Numbers DEF TypeOK
<1>2. /\ \/ DevEnable(lane) \/ DevSetTiming(lane, Steps(t)) \/ DevSetVolt(lane, Steps(v))
         \/ DevSetTarget(lane) \/ DevNoAdapt \/ DevChange \/ UNCHANGED devVars
      /\ \/ pc' \in Places /\ rc' = "ok" /\ UNCHANGED faults
         \/ Fault /\ pc' = "exit" /\ rc' = "error"
         \/ Fault /\ pc' = pc /\ rc' = rc
      /\ doubled' = doubled \/ doubled' = (doubled \/ pc = "change")
      /\ UNCHANGED <<job, scan, report, before, meddling>>
  BY DEF Enable, SetTiming, SetVolt, SetTarget, NoAdapt, PowerModeChange, SetAttr,
         Exit, Places
<1>3. DevTypeOK'
  BY <1>1, <1>2, DevEnableTyped, DevSetTyped, DevUntouched
<1>4. faults' \in 0 .. MaxFaults
  BY <1>2, FaultTyped DEF TypeOK
<1>5. pc' \in Places /\ rc' \in {"ok", "error"} /\ doubled' \in BOOLEAN
  BY <1>2 DEF Places, TypeOK
<1>6. QED
  BY <1>2, <1>3, <1>4, <1>5, AccessTyped

LEMMA GetFailsTypes ==
  ASSUME TypeOK, NEW place, GetFails(place)
  PROVE  TypeOK'
<1>1. DevTypeOK'
  BY DevUntouched DEF GetFails, TypeOK
<1>2. pc' \in Places /\ rc' \in {"ok", "error"}
  BY DEF GetFails, Exit, Places
<1>3. faults' \in 0 .. MaxFaults
  BY FaultTyped DEF GetFails
<1>4. doubled' \in BOOLEAN
  BY DEF GetFails, TypeOK
<1>5. QED
  BY <1>1, <1>2, <1>3, <1>4, AccessTyped DEF GetFails

LEMMA StartTypes ==
  ASSUME TypeOK, PreparationFails \/ Prepared
  PROVE  TypeOK'
<1>1. CASE GetFails("start")
  BY <1>1, GetFailsTypes
<1>2. CASE ~ GetFails("start")
  <2>1. /\ UNCHANGED devVars /\ UNCHANGED faults
        /\ UNCHANGED <<job, scan, report, before, meddling>>
        /\ pc' \in Places /\ rc' \in {"ok", "error"} /\ doubled' \in BOOLEAN
    BY <1>2 DEF PreparationFails, Prepared, Exit, Places, TypeOK
  <2>2. DevTypeOK' /\ faults' \in 0 .. MaxFaults
    BY <2>1, DevUntouched DEF TypeOK
  <2>3. QED
    BY <2>1, <2>2, AccessTyped
<1>3. QED
  BY <1>1, <1>2

LEMMA ReadTypes ==
  ASSUME TypeOK, ReadStart \/ ReadTested
  PROVE  TypeOK'
<1>1. UNCHANGED devVars
  BY DEF ReadStart, ReadTested
<1>2. DevTypeOK'
  BY <1>1, DevUntouched DEF TypeOK
<1>3. /\ UNCHANGED <<job, rc, lane, t, v, er, sound, doubled, report, before, faults,
                    meddling>>
      /\ pc' \in Places
  BY DEF ReadStart, ReadTested, scan, Places
<1>4. seen' \in Nat
  <2>1. tested[lane] \in Nat /\ seen \in Nat
    BY Numbers DEF TypeOK, DevTypeOK
  <2>2. QED
    BY <2>1 DEF ReadStart, ReadTested, scan
<1>5. Points' = Points
  BY <1>3 DEF Points
<1>6. QED
  BY <1>2, <1>3, <1>4, <1>5 DEF TypeOK

\* The sweep stays inside its limits.
LEMMA NextPointTypes ==
  ASSUME TypeOK, NextPoint, UNCHANGED job
  PROVE  /\ t' \in (0 - job.tmax) .. job.tmax /\ v' \in (0 - job.vmax) .. job.vmax
         /\ pc' \in {"enable", "disable"}
<1>1. /\ job.tmax \in Nat /\ job.vmax \in Nat
      /\ t \in Int /\ 0 - job.tmax <= t /\ t <= job.tmax
      /\ v \in Int /\ 0 - job.vmax <= v /\ v <= job.vmax
  BY Numbers
<1>2. QED
  BY <1>1 DEF NextPoint, MoreVoltages

LEMMA ReadErrorsTypes ==
  ASSUME TypeOK, ReadErrors
  PROVE  TypeOK'
<1>1. /\ UNCHANGED <<devVars, job, lane, seen, report, before, faults, meddling>>
  BY DEF ReadErrors
<1>2. DevTypeOK'
  BY <1>1, DevUntouched DEF TypeOK
<1>3. Points' = Points
  BY <1>1 DEF Points
<1>4. er' \in Seq(Points)
  <2>1. [lane |-> lane, timing |-> t, volt |-> v] \in Points
    BY DEF Points, TypeOK
  <2>2. er \in Seq(Points)
    BY DEF TypeOK
  <2>3. er' = er \/ er' = Append(er, [lane |-> lane, timing |-> t, volt |-> v])
    BY DEF ReadErrors
  <2>4. QED
    BY <2>1, <2>2, <2>3
<1>5. sound' \in BOOLEAN /\ doubled' \in BOOLEAN
  BY DEF ReadErrors, TypeOK, DevTypeOK
<1>6. /\ t' \in (0 - job.tmax) .. job.tmax /\ v' \in (0 - job.vmax) .. job.vmax
      /\ pc' \in Places /\ rc' \in {"ok", "error"}
  <2>1. CASE NextPoint /\ UNCHANGED rc
    BY <1>1, <2>1, NextPointTypes DEF TypeOK, Places
  <2>2. CASE UNCHANGED <<rc, t, v>> /\ pc' = "traffic"
    BY <2>2 DEF TypeOK, Places
  <2>3. CASE UNCHANGED <<t, v>> /\ Exit("error")
    BY <2>3 DEF TypeOK, Places, Exit
  <2>4. QED
    BY <2>1, <2>2, <2>3 DEF ReadErrors
<1>7. QED
  BY <1>1, <1>2, <1>3, <1>4, <1>5, <1>6 DEF TypeOK

LEMMA DisableTypes ==
  ASSUME TypeOK, Disable
  PROVE  TypeOK'
<1>1. UNCHANGED <<job, seen, er, sound, doubled, report, before, meddling>>
  BY DEF Disable
<1>2. DevDisable(lane) \/ UNCHANGED devVars
  BY DEF Disable, DisableLane
<1>3. DevTypeOK'
  BY <1>2, Numbers, DevDisableTyped, DevUntouched DEF TypeOK
<1>4. Points' = Points
  BY <1>1 DEF Points
<1>5. faults' \in 0 .. MaxFaults
  BY FaultTyped DEF Disable, TypeOK
<1>6. pc' \in Places /\ rc' \in {"ok", "error"}
  BY DEF Disable, Exit, Places, TypeOK
<1>7. /\ lane' \in job.lanes
      /\ t' \in (0 - job.tmax) .. job.tmax /\ v' \in (0 - job.vmax) .. job.vmax
  <2>1. CASE UNCHANGED <<lane, t, v>>
    BY <2>1 DEF TypeOK
  <2>2. CASE lane # Highest(job.lanes) /\ lane' = lane + 1
             /\ t' = 0 - job.tmax /\ v' = 0 - job.vmax
    BY <2>2, Numbers, LaneOrder
  <2>3. QED
    BY <2>1, <2>2 DEF Disable
<1>8. QED
  BY <1>1, <1>3, <1>4, <1>5, <1>6, <1>7 DEF TypeOK

LEMMA ReportTypes ==
  ASSUME TypeOK, Report
  PROVE  TypeOK'
<1>1. UNCHANGED <<devVars, job, lane, t, v, seen, er, sound, doubled, before, faults,
                  meddling>>
  BY DEF Report, scan
<1>2. DevTypeOK'
  BY <1>1, DevUntouched DEF TypeOK
<1>3. Points' = Points
  BY <1>1 DEF Points
<1>4. pc' \in Places /\ rc' \in {"ok", "error"} /\ report' = er
  BY DEF Report, Exit, Places
<1>5. QED
  BY <1>1, <1>2, <1>3, <1>4 DEF TypeOK

LEMMA OthersTypes ==
  ASSUME TypeOK, DeviceStep \/ OtherDisables
  PROVE  TypeOK'
<1>1. UNCHANGED toolVars /\ UNCHANGED faults
  BY DEF DeviceStep, OtherDisables
<1>2. UNCHANGED <<job, pc, rc, lane, t, v, seen, er, sound, doubled, report, before>>
  BY <1>1 DEF toolVars, scan
<1>3. DevTypeOK'
  BY DevChangeEndsTyped, DevTestsTyped, DevDisableTyped DEF DeviceStep, OtherDisables, TypeOK
<1>4. meddling' \in 0 .. MaxMeddling
  BY LimitsAssumption DEF DeviceStep, OtherDisables, TypeOK
<1>5. Points' = Points
  BY <1>2 DEF Points
<1>6. QED
  BY <1>1, <1>2, <1>3, <1>4, <1>5 DEF TypeOK

LEMMA InitTypes == Init => TypeOK
<1> SUFFICES ASSUME Init PROVE TypeOK
  OBVIOUS
<1>1. job \in Jobs /\ DevInit
  BY DEF Init
<1>2. /\ job.lanes \in Selections /\ job.tmax \in Nat /\ job.vmax \in Nat
      /\ Lowest(job.lanes) \in job.lanes
  BY <1>1, JobParts, LaneOrder
<1>3. DevTypeOK
  <2>1. /\ TestCount \in Nat /\ 0 \in Nat /\ 0 \in 0 .. ErrorLimit
        /\ TRUE \in BOOLEAN /\ FALSE \in BOOLEAN
    BY CountsAssumption
  <2>2. Nothing \in [timing : Nat \cup {-1}, volt : Nat \cup {-1}, adapt : Adapts]
    BY DEF Nothing, Adapts
  <2>3. /\ on \in [Lanes -> BOOLEAN] /\ running \in [Lanes -> BOOLEAN]
        /\ tested \in [Lanes -> Nat] /\ target \in [Lanes -> Nat]
    BY <1>1, <2>1 DEF DevInit
  <2>4. /\ timing \in [Lanes -> Nat] /\ volt \in [Lanes -> Nat]
        /\ errors \in [Lanes -> 0 .. ErrorLimit]
    BY <1>1, <2>1 DEF DevInit
  <2>5. at \in [Lanes -> [timing : Nat \cup {-1}, volt : Nat \cup {-1}, adapt : Adapts]]
    BY <1>1, <2>2 DEF DevInit
  <2>6. adapt \in Adapts /\ change \in BOOLEAN
    BY <1>1 DEF DevInit, Adapts
  <2>7. QED
    BY <2>3, <2>4, <2>5, <2>6 DEF DevTypeOK
<1>4. on \in [Lanes -> BOOLEAN]
  BY <1>1 DEF DevInit
<1>5. << >> \in Seq(Points)
  OBVIOUS
<1>6. lane \in job.lanes /\ t \in (0 - job.tmax) .. job.tmax
      /\ v \in (0 - job.vmax) .. job.vmax
  BY <1>2 DEF Init
<1>7. faults \in 0 .. MaxFaults /\ meddling \in 0 .. MaxMeddling
  BY LimitsAssumption DEF Init
<1>8. QED
  BY <1>1, <1>3, <1>4, <1>5, <1>6, <1>7 DEF Init, TypeOK, Places

LEMMA StepTypes == TypeOK /\ [Next]_vars => TypeOK'
<1> SUFFICES ASSUME TypeOK, [Next]_vars PROVE TypeOK'
  OBVIOUS
<1>1. CASE UNCHANGED vars
  <2>1. UNCHANGED devVars
        /\ UNCHANGED <<job, pc, rc, scan, doubled, report, before, faults, meddling>>
    BY <1>1 DEF vars, toolVars
  <2>2. DevTypeOK'
    BY <2>1, DevUntouched DEF TypeOK
  <2>3. /\ pc' \in Places /\ rc' \in {"ok", "error"} /\ faults' \in 0 .. MaxFaults
        /\ doubled' \in BOOLEAN
    BY <2>1 DEF TypeOK
  <2>4. QED
    BY <2>1, <2>2, <2>3, AccessTyped
<1>2. CASE ScanFails \/ ReportFails
  BY <1>2, GetFailsTypes DEF ScanFails, ReportFails
<1>3. CASE ToolNext /\ ~ (ScanFails \/ ReportFails)
  BY <1>3, StartTypes, SetAttrTypes, ReadTypes, ReadErrorsTypes, DisableTypes, ReportTypes
     DEF ToolNext
<1>4. CASE DeviceStep \/ OtherDisables
  BY <1>4, OthersTypes
<1>5. QED
  BY <1>1, <1>2, <1>3, <1>4 DEF Next, Terminating

\* Every variable stays in its type and the sweep in its limits, whatever the
\* monitors, other processes and failing calls do.
THEOREM TypeCorrect == Spec => []TypeOK
<1>1. Init => TypeOK
  BY InitTypes
<1>2. TypeOK /\ [Next]_vars => TypeOK'
  BY StepTypes
<1>3. QED
  BY <1>1, <1>2, PTL DEF Spec

-----------------------------------------------------------------------------
(* The samples                                                             *)

\* The counts eom_scan takes for final are those of a finished test of the
\* point: one that has not begun has none, and one that goes on is not full.
LEMMA FinishedMeansMeasured ==
  ASSUME TypeOK, RowInv, PointInv, pc = "errors", Finished(errors[lane])
  PROVE  Measured
<1>1. /\ lane \in Lanes /\ tested[lane] \in Nat /\ errors[lane] \in 0 .. ErrorLimit
      /\ TestCount \in Nat \ {0} /\ ErrorLimit \in Nat \ {0} /\ seen \in Nat
      /\ running[lane] \in BOOLEAN /\ change \in BOOLEAN
  BY Numbers, CountsAssumption DEF TypeOK, DevTypeOK
<1>2. /\ target[lane] = TestCount /\ (running[lane] => ~ Full(lane))
      /\ change => Fresh
      /\ ~ change => Fresh \/ Right
      /\ seen >= TestCount => ~ change /\ ~ running[lane] /\ tested[lane] >= TestCount
  BY <1>1 DEF PointInv, RowInv, Polling
<1>3. CASE seen >= TestCount
  BY <1>1, <1>2, <1>3 DEF Measured, Full, Fresh, Right
<1>4. CASE errors[lane] >= ErrorLimit
  BY <1>1, <1>2, <1>4 DEF Measured, Full, Fresh, Right
<1>5. QED
  BY <1>3, <1>4 DEF Finished

\* The lane's row after a call that touches only that.
LEMMA Rows ==
  ASSUME TypeOK
  PROVE  /\ DOMAIN on = Lanes /\ DOMAIN running = Lanes /\ DOMAIN tested = Lanes
         /\ DOMAIN errors = Lanes /\ DOMAIN timing = Lanes /\ DOMAIN volt = Lanes
         /\ DOMAIN target = Lanes /\ DOMAIN at = Lanes
BY DEF TypeOK, DevTypeOK

\* A call of the tool, or of another process, keeps RowInv.
LEMMA CallRows ==
  ASSUME TypeOK, RowInv, NEW l \in Lanes, NEW steps,
         \/ DevEnable(l) \/ DevDisable(l) \/ DevSetTiming(l, steps)
         \/ DevSetVolt(l, steps) \/ DevSetTarget(l) \/ DevNoAdapt \/ DevChange
         \/ UNCHANGED devVars
  PROVE  RowInv'
<1>1. target' = target
  <2>1. target' = target \/ target' = [target EXCEPT ![l] = TestCount]
    BY DEF DevEnable, DevDisable, DevSetTiming, DevSetVolt, DevSetTarget, DevNoAdapt,
           DevChange, devVars
  <2>2. target[l] = TestCount /\ target \in [Lanes -> Nat]
    BY DEF RowInv, TypeOK, DevTypeOK
  <2>3. QED
    BY <2>1, <2>2
<1>2. CASE UNCHANGED <<running, tested, errors>>
  BY <1>1, <1>2 DEF RowInv, Full
<1>3. CASE DevEnable(l) \/ DevDisable(l)
  BY <1>1, <1>3, Rows DEF RowInv, DevEnable, DevDisable, Cleared, Full
<1>4. QED
  BY <1>2, <1>3 DEF DevSetTiming, DevSetVolt, DevSetTarget, DevNoAdapt, DevChange,
                    devVars, counts

LEMMA DevChangeEndsRows ==
  ASSUME TypeOK, RowInv, DevChangeEnds
  PROVE  RowInv'
<1>1. TestCount \in Nat \ {0} /\ ErrorLimit \in Nat \ {0} /\ target' = target
  BY CountsAssumption DEF DevChangeEnds
<1>2. ASSUME NEW l \in Lanes
      PROVE  target'[l] = TestCount /\ (running'[l] => ~ Full(l)')
  <2>1. running'[l] => on[l] /\ tested'[l] = 0 /\ errors'[l] = 0
    BY DEF DevChangeEnds
  <2>2. QED
    BY <1>1, <2>1 DEF RowInv, Full
<1>3. QED
  BY <1>2 DEF RowInv

LEMMA DevTestsRows ==
  ASSUME TypeOK, RowInv, NEW l \in Lanes, DevTests(l)
  PROVE  RowInv'
<1>1. \A m \in Lanes \ {l} : /\ tested'[m] = tested[m] /\ errors'[m] = errors[m]
                              /\ running'[m] = running[m]
  BY Rows DEF DevTests
<1>2. tested'[l] \in Nat /\ errors'[l] \in 0 .. ErrorLimit
      /\ TestCount \in Nat \ {0} /\ ErrorLimit \in Nat \ {0}
  <2>1. DevTypeOK'
    BY DevTestsTyped DEF TypeOK
  <2>2. QED
    BY <2>1, CountsAssumption DEF DevTypeOK
<1>3. target[l] = TestCount /\ target' = target
  BY DEF RowInv, DevTests
<1>4. running'[l] => ~ Full(l)'
  <2> DEFINE more == tested'[l] < target[l] /\ errors'[l] < ErrorLimit
  <2>1. running' = [running EXCEPT ![l] = more] /\ running \in [Lanes -> BOOLEAN]
    BY DEF DevTests, TypeOK, DevTypeOK
  <2> HIDE DEF more
  <2>2. running'[l] = more
    BY <2>1, Zenon
  <2>3. more => tested'[l] < target[l] /\ errors'[l] < ErrorLimit
    BY DEF more
  <2>4. ~ (tested'[l] >= target'[l] \/ errors'[l] >= ErrorLimit) \/ ~ more
    BY <1>2, <1>3, <2>3
  <2>5. QED
    BY <2>2, <2>4, Zenon DEF Full
<1>5. ASSUME NEW m \in Lanes \ {l}
      PROVE  target'[m] = TestCount /\ (running'[m] => ~ Full(m)')
  BY <1>1, <1>3 DEF Full, RowInv
<1>6. QED
  BY <1>3, <1>4, <1>5 DEF RowInv

LEMMA StepRows == TypeOK /\ RowInv /\ [Next]_vars => RowInv'
<1> SUFFICES ASSUME TypeOK, RowInv, [Next]_vars PROVE RowInv'
  OBVIOUS
<1>1. lane \in Lanes
  BY Numbers
<1>2. CASE Enable \/ SetTiming \/ SetVolt \/ SetTarget \/ NoAdapt \/ PowerModeChange
  <2>1. \/ DevEnable(lane) \/ DevSetTiming(lane, Steps(t)) \/ DevSetVolt(lane, Steps(v))
        \/ DevSetTarget(lane) \/ DevNoAdapt \/ DevChange \/ UNCHANGED devVars
    BY <1>2 DEF Enable, SetTiming, SetVolt, SetTarget, NoAdapt, PowerModeChange, SetAttr
  <2>2. QED
    BY <1>1, <2>1, CallRows
<1>3. CASE \/ PreparationFails \/ Prepared \/ ReadStart \/ ReadTested \/ ReadErrors
           \/ ScanFails \/ Report \/ ReportFails \/ Terminating \/ UNCHANGED vars
  <2>1. UNCHANGED devVars
    BY <1>3 DEF PreparationFails, Prepared, ReadStart, ReadTested, ReadErrors, ScanFails,
                Report, ReportFails, GetFails, Terminating, vars
  <2>2. QED
    BY <1>1, <2>1, CallRows
<1>4. CASE Disable \/ OtherDisables
  <2>1. (\E l \in Lanes : DevDisable(l)) \/ UNCHANGED devVars
    BY <1>1, <1>4 DEF Disable, DisableLane, OtherDisables
  <2>2. QED
    BY <1>1, <2>1, CallRows
<1>5. CASE DeviceStep
  BY <1>5, DevChangeEndsRows, DevTestsRows DEF DeviceStep
<1>6. QED
  BY <1>2, <1>3, <1>4, <1>5 DEF Next, ToolNext

LEMMA EnableScan ==
  ASSUME TypeOK, RowInv, PointInv, Enable
  PROVE  PointInv'
<1>1. pc = "enable" /\ lane \in Lanes /\ ~ change
  BY Numbers DEF Enable, SetAttr, PointInv, Polling
<1>2. UNCHANGED <<lane, t, v, seen>>
  BY DEF Enable, SetAttr, scan
<1>3. UNCHANGED devVars \/ DevEnable(lane)
  BY DEF Enable, SetAttr
<1>4. change' = change
  BY <1>3 DEF DevEnable, devVars
<1>5. CASE pc' = "timing" /\ DevEnable(lane)
  <2>1. Fresh'
    BY <1>1, <1>2, <1>5, Rows DEF DevEnable, Cleared, Fresh
  <2>2. QED
    BY <1>1, <1>2, <1>4, <1>5, <2>1 DEF PointInv, Config, Polling
<1>6. CASE pc' \in {"enable", "exit"}
  BY <1>1, <1>2, <1>4, <1>6 DEF PointInv, Config, Polling
<1>7. QED
  BY <1>1, <1>5, <1>6 DEF Enable, SetAttr, Exit

LEMMA SetTimingScan ==
  ASSUME TypeOK, RowInv, PointInv, SetTiming
  PROVE  PointInv'
<1>1. pc = "timing" /\ lane \in Lanes /\ ~ change /\ Fresh
  BY Numbers DEF SetTiming, SetAttr, PointInv, Polling, Config
<1>2. UNCHANGED <<lane, t, v, seen>>
  BY DEF SetTiming, SetAttr, scan
<1>3. UNCHANGED <<on, volt, target, adapt, change, counts>>
  BY DEF SetTiming, SetAttr, DevSetTiming, devVars
<1>4. UNCHANGED <<running, tested, errors, at>>
  BY <1>3 DEF counts
<1>5. Fresh'
  BY <1>1, <1>2, <1>4 DEF Fresh
<1>6. CASE pc' = "volt" /\ DevSetTiming(lane, Steps(t))
  <2>1. timing'[lane] = Steps(t)
    BY <1>1, <1>6, Rows DEF DevSetTiming
  <2>2. timing'[lane'] = Steps(t')
    BY <1>2, <2>1 DEF Steps
  <2>3. QED
    BY <1>1, <1>2, <1>3, <1>5, <1>6, <2>2 DEF PointInv, Config, Polling
<1>7. CASE pc' \in {"timing", "exit"}
  BY <1>1, <1>2, <1>3, <1>5, <1>7 DEF PointInv, Config, Polling
<1>8. QED
  BY <1>1, <1>6, <1>7 DEF SetTiming, SetAttr, Exit

LEMMA SetVoltScan ==
  ASSUME TypeOK, RowInv, PointInv, SetVolt
  PROVE  PointInv'
<1>1. pc = "volt" /\ lane \in Lanes /\ ~ change /\ Fresh /\ timing[lane] = Steps(t)
  BY Numbers DEF SetVolt, SetAttr, PointInv, Polling, Config
<1>2. UNCHANGED <<lane, t, v, seen>>
  BY DEF SetVolt, SetAttr, scan
<1>3. UNCHANGED <<on, timing, target, adapt, change, counts>>
  BY DEF SetVolt, SetAttr, DevSetVolt, devVars
<1>4. UNCHANGED <<running, tested, errors, at>>
  BY <1>3 DEF counts
<1>5. Fresh' /\ timing'[lane'] = Steps(t)'
  BY <1>1, <1>2, <1>3, <1>4 DEF Fresh, Steps
<1>6. CASE pc' = "target" /\ DevSetVolt(lane, Steps(v))
  <2>1. volt'[lane] = Steps(v)
    BY <1>1, <1>6, Rows DEF DevSetVolt
  <2>2. volt'[lane'] = Steps(v)'
    BY <1>2, <2>1 DEF Steps
  <2>3. QED
    BY <1>1, <1>2, <1>3, <1>5, <1>6, <2>2 DEF PointInv, Config, Polling
<1>7. CASE pc' \in {"volt", "exit"}
  BY <1>1, <1>2, <1>3, <1>5, <1>7 DEF PointInv, Config, Polling
<1>8. QED
  BY <1>1, <1>6, <1>7 DEF SetVolt, SetAttr, Exit

\* The target count, the adaptation and the power mode change, unless it is
\* sent twice.
LEMMA LastSetsScan ==
  ASSUME TypeOK, RowInv, PointInv, SetTarget \/ NoAdapt \/ PowerModeChange
  PROVE  doubled' \/ PointInv'
<1>1. /\ pc \in {"target", "adapt", "change"} /\ lane \in Lanes /\ ~ change /\ Fresh
      /\ timing[lane] = Steps(t) /\ volt[lane] = Steps(v)
      /\ pc = "change" => adapt = "NO_ADAPT"
  BY Numbers DEF SetTarget, NoAdapt, PowerModeChange, SetAttr, PointInv, Polling, Config
<1>2. UNCHANGED <<lane, t, v, seen>>
  BY DEF SetTarget, NoAdapt, PowerModeChange, SetAttr, scan
<1>3. UNCHANGED <<on, timing, volt, counts>>
  BY DEF SetTarget, NoAdapt, PowerModeChange, SetAttr, DevSetTarget, DevNoAdapt,
         DevChange, devVars
<1>4. UNCHANGED <<running, tested, errors, at>>
  BY <1>3 DEF counts
<1>5. target' = target
  <2>1. CASE SetTarget
    <3>1. target' = target \/ target' = [target EXCEPT ![lane] = TestCount]
      BY <2>1 DEF SetTarget, SetAttr, DevSetTarget, devVars
    <3>2. target[lane] = TestCount /\ target \in [Lanes -> Nat]
      BY <1>1 DEF RowInv, TypeOK, DevTypeOK
    <3>3. QED
      BY <3>1, <3>2
  <2>2. CASE NoAdapt \/ PowerModeChange
    BY <2>2 DEF NoAdapt, PowerModeChange, SetAttr, DevNoAdapt, DevChange, devVars
  <2>3. QED
    BY <2>1, <2>2
<1>6. Fresh' /\ timing'[lane'] = Steps(t)' /\ volt'[lane'] = Steps(v)'
  BY <1>1, <1>2, <1>3, <1>4 DEF Fresh, Steps
<1>7. \/ pc' = "exit"
      \/ pc' = "target" /\ ~ change'
      \/ pc' = "adapt" /\ ~ change'
      \/ pc' = "change" /\ ~ change' /\ adapt' = "NO_ADAPT"
      \/ pc' = "traffic" /\ change' /\ adapt' = "NO_ADAPT"
      \/ doubled'
  BY <1>1 DEF SetTarget, NoAdapt, PowerModeChange, SetAttr, Exit, DevSetTarget,
              DevNoAdapt, DevChange
<1>8. QED
  BY <1>2, <1>6, <1>7 DEF PointInv, Config, Polling

LEMMA ReadScan ==
  ASSUME TypeOK, RowInv, PointInv, ReadStart \/ ReadTested
  PROVE  PointInv'
<1>1. /\ UNCHANGED devVars /\ UNCHANGED <<lane, t, v>>
      /\ pc \in {"traffic", "tested"} /\ pc' \in {"tested", "errors"}
      /\ pc' = "errors" => seen' = tested[lane]
  BY DEF ReadStart, ReadTested, scan
<1>2. UNCHANGED <<on, timing, volt, target, adapt, change, running, tested, errors, at>>
  BY <1>1 DEF devVars, counts
<1>3. /\ Fresh' = Fresh /\ Right' = Right
      /\ Steps(t)' = Steps(t) /\ Steps(v)' = Steps(v)
  BY <1>1, <1>2 DEF Fresh, Right, Steps
<1>4. pc' = "errors" /\ seen' >= TestCount
        => ~ change /\ ~ running[lane] /\ tested[lane] >= TestCount
  <2> SUFFICES ASSUME pc' = "errors", seen' >= TestCount
               PROVE  ~ change /\ ~ running[lane] /\ tested[lane] >= TestCount
    OBVIOUS
  <2>1. tested[lane] >= TestCount /\ tested[lane] \in Nat /\ TestCount \in Nat \ {0}
        /\ lane \in Lanes
    BY <1>1, Numbers, CountsAssumption DEF TypeOK, DevTypeOK
  <2>2. ~ Fresh
    BY <2>1 DEF Fresh
  <2>3. ~ change
    BY <1>1, <2>2 DEF PointInv, Polling
  <2>4. ~ running[lane]
    BY <2>1 DEF PointInv, RowInv, Full
  <2>5. QED
    BY <2>1, <2>3, <2>4
<1>5. QED
  BY <1>1, <1>2, <1>3, <1>4 DEF PointInv, Config, Polling

LEMMA ReadErrorsScan ==
  ASSUME TypeOK, ScanInv, ReadErrors
  PROVE  doubled' \/ PointInv'
<1>1. /\ UNCHANGED devVars /\ UNCHANGED <<lane, seen>> /\ pc = "errors"
  BY DEF ReadErrors
<1>2. UNCHANGED <<on, timing, volt, target, adapt, change, running, tested, errors, at>>
  BY <1>1 DEF devVars, counts
<1>3. CASE ~ Finished(errors[lane])
  <2>1. pc' = "traffic" /\ UNCHANGED <<t, v, doubled>>
    BY <1>3 DEF ReadErrors
  <2>2. /\ Fresh' = Fresh /\ Right' = Right
        /\ Steps(t)' = Steps(t) /\ Steps(v)' = Steps(v)
    BY <1>1, <1>2, <2>1 DEF Fresh, Right, Steps
  <2>3. QED
    BY <1>1, <1>2, <2>1, <2>2 DEF ScanInv, PointInv, Config, Polling
<1>4. CASE Finished(errors[lane])
  <2>1. doubled' = (doubled /\ change)
    BY <1>4 DEF ReadErrors
  <2>2. pc' = "exit" \/ pc' \in {"enable", "disable"}
    BY <1>4 DEF ReadErrors, Exit, NextPoint
  <2>3. CASE doubled
    BY <1>2, <2>1, <2>2, <2>3 DEF PointInv, Config, Polling
  <2>4. CASE ~ doubled
    <3>1. Measured /\ PointInv
      BY <1>1, <1>4, <2>4, FinishedMeansMeasured DEF ScanInv
    <3>2. lane \in Lanes /\ tested[lane] \in Nat /\ TestCount \in Nat \ {0}
          /\ target[lane] = TestCount
          /\ errors[lane] \in 0 .. ErrorLimit /\ ErrorLimit \in Nat \ {0}
      BY Numbers, CountsAssumption DEF TypeOK, DevTypeOK, ScanInv, RowInv
    <3>3. ~ Fresh
      BY <3>1, <3>2 DEF Measured, Full, Fresh
    <3>4. ~ change'
      BY <1>1, <1>2, <3>1, <3>3 DEF PointInv, Polling
    <3>5. QED
      BY <2>2, <3>4 DEF PointInv, Config, Polling
  <2>5. QED
    BY <2>3, <2>4
<1>5. QED
  BY <1>3, <1>4

\* The steps that leave the monitors alone, outside of the scan.
LEMMA QuietScan ==
  ASSUME TypeOK, RowInv, PointInv,
         \/ PreparationFails \/ Prepared \/ ScanFails \/ Report \/ ReportFails
         \/ UNCHANGED vars
  PROVE  PointInv'
<1>1. UNCHANGED devVars /\ UNCHANGED <<lane, t, v, seen>>
  BY DEF PreparationFails, Prepared, ScanFails, Report, ReportFails, GetFails, vars,
         toolVars, scan
<1>2. UNCHANGED <<on, timing, volt, target, adapt, change, running, tested, errors, at>>
  BY <1>1 DEF devVars, counts
<1>3. /\ Fresh' = Fresh /\ Right' = Right
      /\ Steps(t)' = Steps(t) /\ Steps(v)' = Steps(v)
  BY <1>1, <1>2 DEF Fresh, Right, Steps
<1>4. pc' = "exit" \/ (pc = "start" /\ pc' = "enable") \/ pc' = pc
  BY DEF PreparationFails, Prepared, ScanFails, Report, ReportFails, GetFails, Exit,
         vars, toolVars
<1>5. QED
  BY <1>1, <1>2, <1>3, <1>4 DEF PointInv, Config, Polling

LEMMA DisableScan ==
  ASSUME TypeOK, RowInv, PointInv, Disable
  PROVE  PointInv'
<1>1. pc = "disable" /\ lane \in Lanes /\ ~ change
  BY Numbers DEF Disable, PointInv, Polling
<1>2. DevDisable(lane) \/ UNCHANGED devVars
  BY DEF Disable, DisableLane
<1>3. UNCHANGED <<target, change>>
  BY <1>2 DEF DevDisable, devVars
<1>4. pc' \in {"report", "enable", "disable", "exit"}
  BY DEF Disable, Exit
<1>5. QED
  BY <1>1, <1>3, <1>4 DEF PointInv, Config, Polling

LEMMA OtherDisablesScan ==
  ASSUME TypeOK, RowInv, PointInv, OtherDisables
  PROVE  PointInv'
<1>1. UNCHANGED <<pc, lane, t, v, seen>>
  BY DEF OtherDisables, toolVars, scan
<1>2. PICK l \in Lanes : DevDisable(l)
  BY DEF OtherDisables
<1>3. UNCHANGED <<timing, volt, target, adapt, change, tested, errors, at>>
  BY <1>2 DEF DevDisable
<1>4. \A m \in Lanes : running'[m] => running[m]
  BY <1>2, Rows DEF DevDisable
<1>5. lane \in Lanes
  BY Numbers
<1>6. /\ Fresh => Fresh'
      /\ Right' = Right /\ Steps(t)' = Steps(t) /\ Steps(v)' = Steps(v)
  BY <1>1, <1>3, <1>4, <1>5 DEF Fresh, Right, Steps
<1>7. QED
  BY <1>1, <1>3, <1>4, <1>5, <1>6 DEF PointInv, Config, Polling

LEMMA DevChangeEndsScan ==
  ASSUME TypeOK, RowInv, PointInv, DevChangeEnds, UNCHANGED toolVars
  PROVE  PointInv'
<1>1. UNCHANGED <<pc, lane, t, v, seen>>
  BY DEF toolVars, scan
<1>2. /\ UNCHANGED <<timing, volt, target, adapt>>
      /\ change /\ ~ change' /\ lane \in Lanes
      /\ pc \in Polling \cup {"exit"}
  BY Numbers DEF DevChangeEnds, PointInv
<1>3. pc \in Polling => Fresh /\ adapt = "NO_ADAPT"
                          /\ timing[lane] = Steps(t) /\ volt[lane] = Steps(v)
  BY <1>2 DEF PointInv, Polling
<1>4. pc \in Polling => (Fresh \/ Right)'
  <2>1. CASE on[lane]
    <3>1. at'[lane] = [timing |-> timing[lane], volt |-> volt[lane], adapt |-> adapt]
      BY <1>2, <2>1 DEF DevChangeEnds
    <3>2. Steps(t)' = Steps(t) /\ Steps(v)' = Steps(v)
      BY <1>1 DEF Steps
    <3>3. QED
      BY <1>1, <1>3, <3>1, <3>2 DEF Right
  <2>2. CASE ~ on[lane]
    <3>1. running'[lane] = on[lane] /\ tested'[lane] = tested[lane] /\ errors'[lane] = errors[lane]
      BY <1>2, <2>2 DEF DevChangeEnds
    <3>2. QED
      BY <1>1, <1>3, <2>2, <3>1 DEF Fresh
  <2>3. QED
    BY <2>1, <2>2
<1>5. Steps(t)' = Steps(t) /\ Steps(v)' = Steps(v)
  BY <1>1 DEF Steps
<1>6. ~ (pc = "errors" /\ seen >= TestCount)
  BY <1>2 DEF PointInv
<1>7. QED
  BY <1>1, <1>2, <1>3, <1>4, <1>5, <1>6 DEF PointInv, Config, Polling

LEMMA DevTestsScan ==
  ASSUME TypeOK, RowInv, PointInv, NEW l \in Lanes, DevTests(l), UNCHANGED toolVars
  PROVE  PointInv'
<1>1. UNCHANGED <<pc, lane, t, v, seen>>
  BY DEF toolVars, scan
<1>2. /\ UNCHANGED <<timing, volt, target, adapt, change, at>>
      /\ running[l] /\ lane \in Lanes
  BY Numbers DEF DevTests
<1>3. \A m \in Lanes \ {l} : /\ tested'[m] = tested[m] /\ errors'[m] = errors[m]
                              /\ running'[m] = running[m]
  BY Rows DEF DevTests
<1>4. tested'[l] \in Nat /\ errors'[l] \in 0 .. ErrorLimit
      /\ TestCount \in Nat \ {0} /\ ErrorLimit \in Nat \ {0}
  <2>1. DevTypeOK'
    BY DevTestsTyped DEF TypeOK
  <2>2. QED
    BY <2>1, CountsAssumption DEF DevTypeOK
<1>5. Steps(t)' = Steps(t) /\ Steps(v)' = Steps(v) /\ Right' = Right
  BY <1>1, <1>2 DEF Steps, Right
<1>6. CASE lane # l
  <2>1. /\ Fresh' = Fresh /\ running'[lane] = running[lane]
        /\ tested'[lane] = tested[lane]
    BY <1>1, <1>2, <1>3, <1>6 DEF Fresh
  <2>2. QED
    BY <1>1, <1>2, <1>5, <2>1 DEF PointInv, Config, Polling
<1>7. CASE lane = l
  <2>1. ~ Fresh
    BY <1>2, <1>7 DEF Fresh
  <2>2. /\ pc \notin Config
        /\ pc \in Polling => ~ change /\ Right
        /\ ~ (pc = "errors" /\ seen >= TestCount)
    BY <1>2, <1>7, <2>1 DEF PointInv
  <2>3. QED
    BY <1>1, <1>2, <1>5, <2>2 DEF PointInv, Config, Polling
<1>8. QED
  BY <1>6, <1>7

\* sound changes with a sample only.
LEMMA SoundKept ==
  ASSUME TypeOK, ScanInv, [Next]_vars
  PROVE  sound'
<1>1. CASE ReadErrors
  <2>1. ASSUME Finished(errors[lane]) PROVE Measured \/ doubled
    BY <1>1, <2>1, FinishedMeansMeasured DEF ReadErrors, ScanInv
  <2>2. QED
    BY <1>1, <2>1 DEF ReadErrors, ScanInv
<1>2. CASE ~ ReadErrors
  <2>1. sound' = sound
    BY <1>2 DEF Next, ToolNext, PreparationFails, Prepared, Enable, SetTiming, SetVolt,
                SetTarget, NoAdapt, PowerModeChange, SetAttr, ReadStart, ReadTested,
                ScanFails, GetFails, Disable, Report, ReportFails, DeviceStep,
                OtherDisables, Terminating, vars, toolVars, scan
  <2>2. QED
    BY <2>1 DEF ScanInv
<1>3. QED
  BY <1>1, <1>2

\* doubled ends with the sample of its point only.
LEMMA DoubledKept ==
  ASSUME [Next]_vars, doubled, ~ ReadErrors
  PROVE  doubled'
BY DEF Next, ToolNext, PreparationFails, Prepared, Enable, SetTiming, SetVolt, SetTarget,
       NoAdapt, PowerModeChange, SetAttr, ReadStart, ReadTested, ScanFails, GetFails,
       Disable, Report, ReportFails, DeviceStep, OtherDisables, Terminating, vars,
       toolVars

LEMMA StepScan == TypeOK /\ ScanInv /\ [Next]_vars => ScanInv'
<1> SUFFICES ASSUME TypeOK, ScanInv, [Next]_vars PROVE ScanInv'
  OBVIOUS
<1>1. RowInv /\ RowInv' /\ sound' /\ (doubled \/ PointInv)
  BY StepRows, SoundKept DEF ScanInv
<1>2. CASE ReadErrors
  BY <1>1, <1>2, ReadErrorsScan DEF ScanInv
<1>3. CASE ~ ReadErrors /\ doubled
  BY <1>1, <1>3, DoubledKept DEF ScanInv
<1>4. CASE ~ ReadErrors /\ PointInv
  <2>1. CASE ToolNext
    <3>1. doubled' \/ PointInv'
      BY <1>1, <1>4, <2>1, QuietScan, EnableScan, SetTimingScan, SetVoltScan,
         LastSetsScan, ReadScan, DisableScan DEF ToolNext
    <3>2. QED
      BY <1>1, <3>1 DEF ScanInv
  <2>2. CASE DeviceStep
    BY <1>1, <1>4, <2>2, DevChangeEndsScan, DevTestsScan DEF DeviceStep, ScanInv
  <2>3. CASE OtherDisables
    BY <1>1, <1>4, <2>3, OtherDisablesScan DEF ScanInv
  <2>4. CASE UNCHANGED vars
    BY <1>1, <1>4, <2>4, QuietScan DEF ScanInv
  <2>5. QED
    BY <2>1, <2>2, <2>3, <2>4 DEF Next, Terminating
<1>5. QED
  BY <1>1, <1>2, <1>3, <1>4

LEMMA InitScan == Init => ScanInv
<1> SUFFICES ASSUME Init PROVE ScanInv
  OBVIOUS
<1>1. DevInit /\ pc = "start" /\ sound = TRUE
  BY DEF Init
<1>2. ~ change /\ target = [l \in Lanes |-> TestCount]
  BY <1>1 DEF DevInit
<1>3. \A l \in Lanes : running[l] => tested[l] = 0 /\ errors[l] = 0
  BY <1>1 DEF DevInit
<1>4. RowInv
  BY <1>2, <1>3, CountsAssumption DEF RowInv, Full
<1>5. QED
  BY <1>1, <1>2, <1>4 DEF ScanInv, PointInv, Config, Polling

\* Every sample is the outcome of a finished test of its point, although the
\* start bit and the two counts are read one after the other, whatever fails
\* and whatever set is repeated, but for a power mode change that was repeated
\* and may still end.
THEOREM SamplesAreReal == Spec => []SamplesReal
<1>1. Init => TypeOK /\ ScanInv
  BY InitTypes, InitScan
<1>2. TypeOK /\ ScanInv /\ [Next]_vars => (TypeOK /\ ScanInv)'
  BY StepTypes, StepScan
<1>3. ScanInv => SamplesReal
  BY DEF ScanInv, SamplesReal
<1>4. QED
  BY <1>1, <1>2, <1>3, PTL DEF Spec

-----------------------------------------------------------------------------
(* The monitors                                                            *)

\* A step that enables no monitor and moves neither the lane nor the run's
\* end, but for an error.
LEMMA KeptLanes ==
  ASSUME TypeOK, LaneInv, UNCHANGED <<job, lane, before>>,
         \A l \in Lanes : on'[l] => on[l],
         pc' = "report" \/ (pc' = "exit" /\ rc' = "ok") => ~ on'[lane]
  PROVE  LaneInv'
BY DEF LaneInv

LEMMA StepLanes == TypeOK /\ LaneInv /\ [Next]_vars => LaneInv'
<1> SUFFICES ASSUME TypeOK, LaneInv, [Next]_vars PROVE LaneInv'
  OBVIOUS
<1> USE Numbers, Rows
<1>1. CASE Enable
  <2>1. on' = on \/ on' = [on EXCEPT ![lane] = TRUE]
    BY <1>1 DEF Enable, SetAttr, DevEnable, devVars
  <2>2. UNCHANGED <<job, lane, before>>
    BY <1>1 DEF Enable, SetAttr, scan
  <2>3. pc' \in {"enable", "timing"} \/ (pc' = "exit" /\ rc' = "error")
    BY <1>1 DEF Enable, SetAttr, Exit
  <2>4. QED
    BY <2>1, <2>2, <2>3 DEF LaneInv
<1>2. CASE Disable
  <2>1. UNCHANGED <<job, before>>
    BY <1>2 DEF Disable
  <2>2. CASE DevDisable(lane) /\ lane = Highest(job.lanes) /\ UNCHANGED lane
    <3>1. on' = [on EXCEPT ![lane] = FALSE]
      BY <2>2 DEF DevDisable
    <3>2. ~ on'[lane] /\ \A l \in Lanes : on'[l] => on[l]
      BY <3>1
    <3>3. QED
      BY <2>1, <2>2, <3>2, KeptLanes
  <2>3. CASE DevDisable(lane) /\ lane # Highest(job.lanes) /\ lane' = lane + 1
             /\ pc' = "enable"
    <3>1. on' = [on EXCEPT ![lane] = FALSE]
      BY <2>3 DEF DevDisable
    <3>2. \A l \in Lanes : on'[l] => l # lane /\ (before[l] /\ (l \notin job.lanes \/ l > lane))
      BY <3>1 DEF LaneInv
    <3>3. \A l \in Lanes : l > lane => l = lane + 1
      BY DEF Lanes
    <3>4. QED
      BY <2>1, <2>3, <3>2, <3>3 DEF LaneInv
  <2>4. CASE /\ DevDisable(lane) \/ UNCHANGED devVars
             /\ Exit("error") \/ UNCHANGED pc
             /\ UNCHANGED lane
    <3>1. \A l \in Lanes : on'[l] => on[l]
      BY <2>4 DEF DevDisable, devVars
    <3>2. QED
      BY <1>2, <2>1, <2>4, <3>1, KeptLanes DEF Exit, Disable
  <2>5. QED
    BY <1>2, <2>2, <2>3, <2>4 DEF Disable, DisableLane
<1>3. CASE DeviceStep \/ OtherDisables
  <2>1. UNCHANGED <<job, pc, rc, lane, before>>
    BY <1>3 DEF DeviceStep, OtherDisables, toolVars, scan
  <2>2. \A l \in Lanes : on'[l] => on[l]
    BY <1>3 DEF DeviceStep, OtherDisables, DevChangeEnds, DevTests, DevDisable
  <2>3. QED
    BY <2>1, <2>2, KeptLanes DEF LaneInv
<1>4. CASE SetTiming \/ SetVolt \/ SetTarget \/ NoAdapt \/ PowerModeChange
  <2>1. UNCHANGED <<on, job, lane, before>>
    BY <1>4 DEF SetTiming, SetVolt, SetTarget, NoAdapt, PowerModeChange, SetAttr,
                DevSetTiming, DevSetVolt, DevSetTarget, DevNoAdapt, DevChange, devVars, scan
  <2>2. \/ pc' \in {"timing", "volt", "target", "adapt", "change", "traffic"}
        \/ rc' = "error"
    BY <1>4 DEF SetTiming, SetVolt, SetTarget, NoAdapt, PowerModeChange, SetAttr, Exit
  <2>3. pc' # "report"
    BY <1>4 DEF SetTiming, SetVolt, SetTarget, NoAdapt, PowerModeChange, SetAttr, Exit
  <2>4. QED
    BY <2>1, <2>2, <2>3, KeptLanes
<1>5. CASE PreparationFails \/ Prepared \/ ScanFails \/ ReportFails \/ ReadStart
           \/ ReadTested \/ ReadErrors
  <2>1. UNCHANGED <<on, job, lane, before>>
    BY <1>5 DEF PreparationFails, Prepared, ScanFails, ReportFails, GetFails, ReadStart,
                ReadTested, ReadErrors, devVars, scan
  <2>2. pc' # "report" /\ (pc' = "exit" => rc' = "error")
    BY <1>5 DEF PreparationFails, Prepared, ScanFails, ReportFails, GetFails, ReadStart,
                ReadTested, ReadErrors, NextPoint, Exit
  <2>3. QED
    BY <2>1, <2>2, KeptLanes
<1>6. CASE Report \/ UNCHANGED vars
  <2>1. UNCHANGED <<on, job, lane, before>>
    BY <1>6 DEF Report, devVars, scan, vars, toolVars
  <2>2. pc = "report" \/ (pc' = pc /\ rc' = rc)
    BY <1>6 DEF Report, vars, toolVars
  <2>3. QED
    BY <2>1, <2>2, KeptLanes DEF LaneInv
<1>7. QED
  BY <1>1, <1>2, <1>3, <1>4, <1>5, <1>6 DEF Next, ToolNext, Terminating

LEMMA InitLanes == Init => LaneInv
<1> SUFFICES ASSUME Init PROVE LaneInv
  OBVIOUS
<1>1. /\ job \in Jobs /\ lane = Lowest(job.lanes)
      /\ pc = "start" /\ before = on
  BY DEF Init
<1>2. /\ job.lanes \in Selections /\ job.lanes \subseteq Lanes
      /\ lane \in Lanes /\ \A l \in job.lanes : lane <= l
  BY <1>1, JobParts, LaneOrder
<1>3. \A l \in Lanes : l \in job.lanes => l > lane \/ l = lane
  BY <1>2 DEF Lanes
<1>4. QED
  BY <1>1, <1>3 DEF LaneInv

\* However the run ends, it leaves at most the monitor of the lane it was in
\* enabled, and a good run leaves none of its own.
THEOREM DisablesItsMonitors == Spec => []MonitorsOff
<1>1. Init => TypeOK /\ LaneInv
  BY InitTypes, InitLanes
<1>2. TypeOK /\ LaneInv /\ [Next]_vars => (TypeOK /\ LaneInv)'
  BY StepTypes, StepLanes
<1>3. TypeOK /\ LaneInv => MonitorsOff
  <2> SUFFICES ASSUME TypeOK, LaneInv PROVE MonitorsOff
    OBVIOUS
  <2>1. rc \in {"ok", "error"}
    BY DEF TypeOK
  <2>2. QED
    BY <2>1 DEF LaneInv, MonitorsOff
<1>4. QED
  BY <1>1, <1>2, <1>3, PTL DEF Spec
-----------------------------------------------------------------------------
(* The sweep                                                               *)

\* The sweep of one lane: its voltages, its timings, and the samples of the
\* lanes before.
Wide  == 2 * job.vmax + 1
High  == 2 * job.tmax + 1
Swept == IF lane = Lowest(job.lanes) THEN 0 ELSE High * Wide

\* How many samples come before the point the tool is at, and which.
Taken == Swept + (t + job.tmax) * Wide + (v + job.vmax)

Behind(p) ==
  \/ p.lane < lane
  \/ p.lane = lane /\ p.timing < t
  \/ p.lane = lane /\ p.timing = t /\ p.volt < v

Sampled == { er[i] : i \in 1 .. Len(er) }

\* The array holds the points behind the tool, as many as there are.
SweepInv ==
  /\ Len(er) <= Room
  /\ pc \notin {"disable", "report", "exit"} =>
       Len(er) = Taken /\ Sampled = {p \in Points : Behind(p)}
  /\ pc = "disable" =>
       /\ t = job.tmax /\ v = job.vmax
       /\ Len(er) = Taken + 1 /\ Sampled = {p \in Points : p.lane <= lane}
  /\ pc = "report" => Len(er) = Room /\ Sampled = Points
  /\ pc = "exit" /\ rc = "ok" =>
       /\ Len(report) = Room
       /\ { report[i] : i \in 1 .. Len(report) } = Points

LEMMA Products ==
  ASSUME NEW a \in Nat, NEW b \in Nat, NEW w \in Nat
  PROVE  /\ a * w \in Nat
         /\ (a + 1) * w = a * w + w
         /\ a < b => a * w + w <= b * w
<1>1. a * w \in Nat /\ b * w \in Nat
  OBVIOUS
<1>2. (a + 1) * w = a * w + w
  OBVIOUS
<1>3. ASSUME a < b PROVE a * w + w <= b * w
  <2>1. b - a - 1 \in Nat
    BY <1>3
  <2>2. (b - a - 1) * w \in Nat
    BY <2>1
  <2>3. (b - a - 1) * w = b * w - a * w - w
    OBVIOUS
  <2>4. QED
    BY <1>1, <2>2, <2>3
<1>4. QED
  BY <1>1, <1>2, <1>3

\* Where a sample goes in the array.
LEMMA RoomFor ==
  ASSUME TypeOK
  PROVE  /\ Wide \in Nat /\ High \in Nat /\ Taken \in Nat /\ Room \in Nat
         /\ Swept = 0 \/ Swept = High * Wide
         /\ Taken + 1 <= Room
         /\ (t = job.tmax /\ v = job.vmax) => Taken + 1 = Swept + High * Wide
         /\ lane = Highest(job.lanes) => Swept + High * Wide = Room
         /\ lane # Highest(job.lanes) => lane = 0 /\ job.lanes = Lanes /\ Swept = 0
<1>1. /\ lane \in job.lanes /\ job.lanes \in Selections
      /\ job.tmax \in Nat /\ job.vmax \in Nat
      /\ t \in Int /\ 0 - job.tmax <= t /\ t <= job.tmax
      /\ v \in Int /\ 0 - job.vmax <= v /\ v <= job.vmax
  BY Numbers
<1>2. Wide \in Nat /\ High \in Nat
  BY <1>1 DEF Wide, High
<1> DEFINE row == t + job.tmax
           col == v + job.vmax
           area == High * Wide
<1>3. row \in Nat /\ col \in Nat /\ row < High /\ col < Wide
  BY <1>1 DEF Wide, High
<1>4. /\ row * Wide \in Nat /\ area \in Nat
      /\ row * Wide + Wide <= area
      /\ (row + 1) * Wide = row * Wide + Wide
  BY <1>2, <1>3, Products
<1>5. row * Wide + col + 1 <= area
  BY <1>2, <1>3, <1>4
<1>6. (t = job.tmax /\ v = job.vmax) => row * Wide + col + 1 = area
  <2> SUFFICES ASSUME t = job.tmax, v = job.vmax
               PROVE  row * Wide + col + 1 = area
    OBVIOUS
  <2>1. row + 1 = High /\ col + 1 = Wide
    BY <1>1 DEF Wide, High
  <2>2. QED
    BY <1>2, <1>3, <1>4, <2>1
<1>7. Taken = Swept + row * Wide + col
  BY <1>2, <1>3, <1>4 DEF Taken, Swept
<1>8. Room = IF job.lanes = Lanes THEN 2 * area ELSE area
  <2>1. Room = area * (IF job.lanes = Lanes THEN 2 ELSE 1)
    BY DEF Room, Wide, High
  <2>2. QED
    BY <1>4, <2>1
<1>9. /\ Lowest(job.lanes) \in job.lanes /\ Highest(job.lanes) \in job.lanes
      /\ \A l \in job.lanes : Lowest(job.lanes) <= l /\ l <= Highest(job.lanes)
  BY <1>1, LaneOrder
<1>10. CASE job.lanes = Lanes
  <2>1. Lowest(job.lanes) = 0 /\ Highest(job.lanes) = 1 /\ lane \in {0, 1}
    BY <1>1, <1>9, <1>10 DEF Lanes
  <2>2. Swept = IF lane = 0 THEN 0 ELSE area
    BY <2>1 DEF Swept
  <2> HIDE DEF row, col, area
  <2>3. Swept \in {0, area} /\ Room = 2 * area
    BY <1>8, <1>10, <2>2
  <2>4. QED
    BY <1>2, <1>3, <1>4, <1>5, <1>6, <1>7, <1>10, <2>1, <2>2, <2>3 DEF area
<1>11. CASE job.lanes # Lanes
  <2>1. lane = Lowest(job.lanes) /\ lane = Highest(job.lanes)
    BY <1>1, <1>9, <1>11 DEF Selections, Lanes
  <2>2. Swept = 0 /\ Room = area
    BY <1>8, <1>11, <2>1 DEF Swept
  <2> HIDE DEF row, col, area
  <2>3. QED
    BY <1>2, <1>3, <1>4, <1>5, <1>6, <1>7, <2>1, <2>2 DEF area
<1>12. QED
  BY <1>10, <1>11

LEMMA PointParts ==
  ASSUME TypeOK, NEW p \in Points
  PROVE  /\ p.lane \in job.lanes /\ p.lane \in Int
         /\ p.timing \in Int /\ 0 - job.tmax <= p.timing /\ p.timing <= job.tmax
         /\ p.volt \in Int /\ 0 - job.vmax <= p.volt /\ p.volt <= job.vmax
         /\ p = [lane |-> lane, timing |-> t, volt |-> v]
              <=> p.lane = lane /\ p.timing = t /\ p.volt = v
<1>1. job.lanes \subseteq Lanes /\ job.tmax \in Nat /\ job.vmax \in Nat
  BY Numbers
<1>2. /\ p.lane \in job.lanes /\ p.timing \in (0 - job.tmax) .. job.tmax
      /\ p.volt \in (0 - job.vmax) .. job.vmax
      /\ p = [lane |-> p.lane, timing |-> p.timing, volt |-> p.volt]
  BY DEF Points
<1>3. QED
  BY <1>1, <1>2 DEF Lanes

LEMMA SampleAdded ==
  ASSUME NEW S, NEW x \in S, er \in Seq(S), er' = Append(er, x)
  PROVE  Len(er) \in Nat /\ Len(er') = Len(er) + 1 /\ Sampled' = Sampled \cup {x}
<1>1. Len(er) \in Nat /\ Len(er') = Len(er) + 1
  OBVIOUS
<1>2. /\ \A i \in 1 .. Len(er) : er'[i] = er[i]
      /\ er'[Len(er) + 1] = x
  OBVIOUS
<1>3. 1 .. Len(er') = (1 .. Len(er)) \cup {Len(er) + 1}
  BY <1>1
<1>4. QED
  BY <1>1, <1>2, <1>3 DEF Sampled

\* A step that moves nothing of the sweep.
LEMMA SweepKept ==
  ASSUME SweepInv, UNCHANGED <<job, lane, t, v, er, report>>,
         pc' \notin {"disable", "report", "exit"} =>
           pc \notin {"disable", "report", "exit"},
         pc' \in {"disable", "report"} => pc' = pc,
         pc' = "exit" /\ rc' = "ok" => pc = "exit" /\ rc = "ok"
  PROVE  SweepInv'
<1>1. /\ Room' = Room /\ Taken' = Taken /\ Sampled' = Sampled /\ Points' = Points
      /\ \A p : Behind(p)' = Behind(p)
  BY DEF Room, Taken, Swept, High, Wide, Sampled, Points, Behind
<1>2. QED
  BY <1>1 DEF SweepInv

LEMMA ReadErrorsSweep ==
  ASSUME TypeOK, SweepInv, ReadErrors
  PROVE  SweepInv'
<1> DEFINE x == [lane |-> lane, timing |-> t, volt |-> v]
<1>1. /\ pc = "errors" /\ UNCHANGED <<job, lane, report>>
      /\ er \in Seq(Points) /\ Points' = Points /\ Room' = Room
      /\ Swept' = Swept /\ Wide' = Wide
  BY DEF ReadErrors, TypeOK, Points, Room, Swept, High, Wide
<1>2. CASE pc' = "traffic" /\ UNCHANGED <<rc, t, v, er>>
  BY <1>1, <1>2, SweepKept
<1>3. CASE /\ er' = Append(er, x)
           /\ \/ Overfull(Len(er')) /\ Exit("error") /\ UNCHANGED <<t, v>>
              \/ ~ Overfull(Len(er')) /\ NextPoint /\ UNCHANGED rc
  <2>1. x \in Points
    BY DEF Points, TypeOK
  <2>2. Len(er') = Taken + 1 /\ Sampled' = {p \in Points : Behind(p)} \cup {x}
    BY <1>1, <1>3, <2>1, SampleAdded DEF SweepInv
  <2>3. /\ Wide \in Nat /\ Taken \in Nat /\ Room \in Nat /\ Taken + 1 <= Room
        /\ Swept = 0 \/ Swept = High * Wide
    BY RoomFor
  <2>4. ~ Overfull(Len(er')) /\ NextPoint
    BY <1>3, <2>2, <2>3 DEF Overfull
  <2>5. /\ job.tmax \in Nat /\ job.vmax \in Nat
        /\ t \in Int /\ 0 - job.tmax <= t /\ t <= job.tmax
        /\ v \in Int /\ 0 - job.vmax <= v /\ v <= job.vmax
        /\ lane \in Int
    BY Numbers
  <2>6. Swept \in Nat /\ (t + job.tmax) * Wide \in Nat
        /\ ((t + job.tmax) + 1) * Wide = (t + job.tmax) * Wide + Wide
    <3>1. t + job.tmax \in Nat
      BY <2>5
    <3>2. High \in Nat
      BY RoomFor
    <3>3. High * Wide \in Nat
      BY <2>3, <3>2, Products
    <3>4. QED
      BY <2>3, <3>1, <3>3, Products
  <2>7. CASE MoreVoltages /\ v' = v + 1 /\ t' = t /\ pc' = "enable"
    <3>1. Taken' = Taken + 1
      <4>1. Taken' = Swept + (t + job.tmax) * Wide + ((v + 1) + job.vmax)
        BY <1>1, <2>7 DEF Taken
      <4>2. ASSUME NEW y \in Nat, NEW z \in Nat
            PROVE  z + y + ((v + 1) + job.vmax) = z + y + (v + job.vmax) + 1
        BY <2>5
      <4>3. QED
        BY <2>6, <4>1, <4>2 DEF Taken
    <3>2. ASSUME NEW p \in Points PROVE Behind(p)' <=> Behind(p) \/ p = x
      BY <1>1, <2>5, <2>7, PointParts DEF Behind
    <3>3. Sampled' = {p \in Points : Behind(p)'}
      BY <2>1, <2>2, <3>2
    <3>4. QED
      BY <1>1, <2>2, <2>3, <2>7, <3>1, <3>3 DEF SweepInv
  <2>8. CASE /\ ~ MoreVoltages /\ t < job.tmax
             /\ v' = 0 - job.vmax /\ t' = t + 1 /\ pc' = "enable"
    <3>1. v = job.vmax
      BY <2>5, <2>8 DEF MoreVoltages
    <3>2. Taken' = Taken + 1
      <4>1. Taken = Swept + (t + job.tmax) * Wide + (job.vmax + job.vmax)
        BY <3>1 DEF Taken
      <4>2. Taken' = Swept + ((t + job.tmax) + 1) * Wide + 0
        <5>1. t' + job.tmax = (t + job.tmax) + 1 /\ v' + job.vmax = 0
          BY <2>5, <2>8
        <5>2. Taken' = Swept + (t' + job.tmax) * Wide + (v' + job.vmax)
          BY <1>1 DEF Taken
        <5>3. QED
          BY <5>1, <5>2
      <4>3. Wide = job.vmax + job.vmax + 1
        BY <2>5 DEF Wide
      <4>4. ASSUME NEW y \in Nat, NEW w \in Nat, NEW s \in Nat
            PROVE  s + (y + w) + 0 = s + y + (w - 1) + 1
        OBVIOUS
      <4>5. QED
        BY <2>3, <2>5, <2>6, <4>1, <4>2, <4>3
    <3>3. ASSUME NEW p \in Points PROVE Behind(p)' <=> Behind(p) \/ p = x
      BY <1>1, <2>5, <2>8, <3>1, PointParts DEF Behind
    <3>4. Sampled' = {p \in Points : Behind(p)'}
      BY <2>1, <2>2, <3>3
    <3>5. QED
      BY <1>1, <2>2, <2>3, <2>8, <3>2, <3>4 DEF SweepInv
  <2>9. CASE ~ MoreVoltages /\ t >= job.tmax /\ pc' = "disable" /\ UNCHANGED <<t, v>>
    <3>1. v = job.vmax /\ t = job.tmax
      BY <2>5, <2>9 DEF MoreVoltages
    <3>2. Taken' = Taken
      BY <1>1, <2>9 DEF Taken
    <3>3. ASSUME NEW p \in Points PROVE p.lane <= lane <=> Behind(p) \/ p = x
      BY <2>5, <3>1, PointParts DEF Behind
    <3>4. Sampled' = {p \in Points : p.lane <= lane}
      BY <2>1, <2>2, <3>3
    <3>5. QED
      BY <1>1, <2>2, <2>3, <2>9, <3>1, <3>2, <3>4 DEF SweepInv
  <2>10. QED
    BY <2>4, <2>7, <2>8, <2>9 DEF NextPoint
<1>4. QED
  BY <1>2, <1>3 DEF ReadErrors

LEMMA DisableSweep ==
  ASSUME TypeOK, SweepInv, Disable
  PROVE  SweepInv'
<1>1. /\ pc = "disable" /\ UNCHANGED <<job, er, report>>
      /\ Points' = Points /\ Room' = Room /\ Sampled' = Sampled
      /\ High' = High /\ Wide' = Wide
  BY DEF Disable, Points, Room, Sampled, High, Wide
<1>2. /\ t = job.tmax /\ v = job.vmax
      /\ Len(er) = Swept + High * Wide /\ Len(er) <= Room
      /\ Sampled = {p \in Points : p.lane <= lane}
  BY <1>1, RoomFor DEF SweepInv
<1>3. CASE lane = Highest(job.lanes) /\ pc' = "report"
  <2>1. Len(er) = Room
    BY <1>2, <1>3, RoomFor
  <2>2. ASSUME NEW p \in Points PROVE p.lane <= lane
    BY <1>3, Numbers, LaneOrder, PointParts
  <2>3. Sampled = Points
    BY <1>2, <2>2
  <2>4. QED
    BY <1>1, <1>2, <1>3, <2>1, <2>3 DEF SweepInv
<1>4. CASE /\ lane # Highest(job.lanes) /\ pc' = "enable" /\ lane' = lane + 1
           /\ t' = 0 - job.tmax /\ v' = 0 - job.vmax
  <2>1. lane = 0 /\ lane' = 1 /\ job.lanes = Lanes /\ Swept = 0
    BY <1>4, RoomFor
  <2>2. /\ job.tmax \in Nat /\ job.vmax \in Nat /\ Wide \in Nat /\ High \in Nat
        /\ High * Wide \in Nat
    BY Numbers, RoomFor, Products
  <2>3. Lowest(job.lanes) = 0
    <3>1. Lowest(job.lanes) \in Lanes /\ Lowest(job.lanes) <= 0
      BY <2>1, Numbers, LaneOrder
    <3>2. QED
      BY <3>1 DEF Lanes
  <2>4. Swept' = High * Wide
    BY <1>1, <2>1, <2>3 DEF Swept
  <2>5. t' + job.tmax = 0 /\ v' + job.vmax = 0
    BY <1>4, <2>2
  <2>6. Taken' = Len(er)
    <3>1. Taken' = High * Wide + 0 * Wide + 0
      BY <1>1, <2>4, <2>5 DEF Taken
    <3>2. 0 * Wide = 0
      BY <2>2
    <3>3. QED
      BY <1>2, <2>1, <2>2, <3>1, <3>2
  <2>7. ASSUME NEW p \in Points PROVE Behind(p)' <=> p.lane <= lane
    BY <1>1, <1>4, <2>1, <2>2, PointParts DEF Behind, Lanes
  <2>8. Sampled' = {p \in Points : Behind(p)'}
    BY <1>1, <1>2, <2>7
  <2>9. QED
    BY <1>1, <1>2, <1>4, <2>6, <2>8 DEF SweepInv
<1>5. CASE (Exit("error") \/ UNCHANGED <<pc, rc>>) /\ UNCHANGED <<lane, t, v>>
  BY <1>1, <1>5, SweepKept DEF Exit
<1>6. QED
  BY <1>3, <1>4, <1>5 DEF Disable

LEMMA StepSweep == TypeOK /\ SweepInv /\ [Next]_vars => SweepInv'
<1> SUFFICES ASSUME TypeOK, SweepInv, [Next]_vars PROVE SweepInv'
  OBVIOUS
<1>1. CASE ReadErrors
  BY <1>1, ReadErrorsSweep
<1>2. CASE Disable
  BY <1>2, DisableSweep
<1>3. CASE Report
  <2>1. /\ pc = "report" /\ pc' = "exit" /\ report' = er
        /\ UNCHANGED <<job, er>>
    BY <1>3 DEF Report, Exit, scan
  <2>2. Points' = Points /\ Room' = Room
    BY <2>1 DEF Points, Room
  <2>3. QED
    BY <2>1, <2>2 DEF SweepInv, Sampled
<1>4. CASE Enable \/ SetTiming \/ SetVolt \/ SetTarget \/ NoAdapt \/ PowerModeChange
  <2>1. /\ UNCHANGED <<job, lane, t, v, er, report>>
        /\ pc \notin {"disable", "report", "exit"}
    BY <1>4 DEF Enable, SetTiming, SetVolt, SetTarget, NoAdapt, PowerModeChange,
                SetAttr, scan
  <2>2. \/ pc' \in Config \cup {"enable", "traffic"}
        \/ pc' = "exit" /\ rc' = "error"
    BY <1>4 DEF Enable, SetTiming, SetVolt, SetTarget, NoAdapt, PowerModeChange,
                SetAttr, Exit, Config
  <2>3. QED
    BY <2>1, <2>2, SweepKept DEF Config
<1>5. CASE PreparationFails \/ ScanFails \/ ReportFails
  <2>1. UNCHANGED <<job, lane, t, v, er, report>> /\ pc' = "exit" /\ rc' = "error"
    BY <1>5 DEF PreparationFails, ScanFails, ReportFails, GetFails, Exit, scan
  <2>2. QED
    BY <2>1, SweepKept
<1>6. CASE Prepared \/ ReadStart \/ ReadTested
  <2>1. /\ UNCHANGED <<job, lane, t, v, er, report>>
        /\ pc \in {"start", "traffic", "tested"}
        /\ pc' \in {"enable", "tested", "errors"}
    BY <1>6 DEF Prepared, ReadStart, ReadTested, scan
  <2>2. QED
    BY <2>1, SweepKept
<1>7. CASE DeviceStep \/ OtherDisables \/ UNCHANGED vars
  <2>1. UNCHANGED <<job, lane, t, v, er, report, pc, rc>>
    BY <1>7 DEF DeviceStep, OtherDisables, toolVars, scan, vars
  <2>2. QED
    BY <2>1, SweepKept
<1>8. QED
  BY <1>1, <1>2, <1>3, <1>4, <1>5, <1>6, <1>7 DEF Next, ToolNext, Terminating

LEMMA InitSweep == Init => SweepInv
<1> SUFFICES ASSUME Init PROVE SweepInv
  OBVIOUS
<1>1. /\ TypeOK /\ lane = Lowest(job.lanes)
      /\ t = 0 - job.tmax /\ v = 0 - job.vmax /\ er = << >> /\ pc = "start"
  BY InitTypes DEF Init
<1>2. /\ job.tmax \in Nat /\ job.vmax \in Nat /\ Wide \in Nat /\ Room \in Nat
  BY <1>1, Numbers, RoomFor
<1>3. Taken = 0
  <2>1. t + job.tmax = 0 /\ v + job.vmax = 0 /\ Swept = 0
    BY <1>1, <1>2 DEF Swept
  <2>2. Taken = 0 + 0 * Wide + 0
    BY <2>1 DEF Taken
  <2>3. QED
    BY <1>2, <2>2
<1>4. Len(er) = 0 /\ Sampled = {}
  BY <1>1 DEF Sampled
<1>5. ASSUME NEW p \in Points PROVE ~ Behind(p)
  <2>1. /\ p.lane \in job.lanes /\ job.lanes \in Selections
        /\ p.timing \in Int /\ 0 - job.tmax <= p.timing
        /\ p.volt \in Int /\ 0 - job.vmax <= p.volt
    BY <1>1, Numbers, PointParts
  <2>2. p.lane \in Int /\ lane \in Int /\ lane <= p.lane
    <3>1. p.lane \in Int /\ lane \in Int
      BY <1>1, Numbers, PointParts
    <3>2. Lowest(job.lanes) <= p.lane
      BY <2>1, LaneOrder
    <3>3. QED
      BY <1>1, <3>1, <3>2
  <2>3. QED
    BY <1>1, <1>2, <2>1, <2>2 DEF Behind
<1>6. QED
  BY <1>1, <1>2, <1>3, <1>4, <1>5 DEF SweepInv

\* For every number of steps and every choice of lanes: the array do_emon
\* allocated always has room for the next sample, and a run that reports
\* success has every point of the sweep in its file, once.
THEOREM SweepsAll == Spec => []SweepComplete
<1>1. Init => TypeOK /\ SweepInv
  BY InitTypes, InitSweep
<1>2. TypeOK /\ SweepInv /\ [Next]_vars => (TypeOK /\ SweepInv)'
  BY StepTypes, StepSweep
<1>3. SweepInv => SweepComplete
  BY DEF SweepInv, SweepComplete
<1>4. QED
  BY <1>1, <1>2, <1>3, PTL DEF Spec
=============================================================================

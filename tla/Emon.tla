-------------------------------- MODULE Emon --------------------------------
(***************************************************************************)
(* One run of "ufs-utils emon" (ufs_emon.c), with the attribute access of  *)
(* unipro.c below it: it sweeps the eye monitor of one or two lanes over   *)
(* all timing and voltage steps.  Every step of the tool is one attribute  *)
(* access with the code up to the next.                                    *)
(*                                                                         *)
(* Left out: the name and the layout of the report, and the tries of a     *)
(* failing or interrupted read of an attribute: only the last one counts,  *)
(* as reads change nothing.                                                *)
(***************************************************************************)
EXTENDS EmonDevice, Sequences

CONSTANTS
  Capabilities,   \* what RX_EYEMON_CAPABILITY may be
  TimingSteps,    \* what the timing steps capability may be
  VoltageSteps,   \* what the voltage steps capability may be
  GivenSteps,     \* what -x and -y may be, NotGiven among them
  MaxFaults,      \* bound: how many calls may fail or be interrupted in a run
  MaxMeddling     \* bound: how often another process disables a monitor

NotGiven == -1    \* INVALID, as initialized_options leaves it
StepMask == 63    \* EOM_STEP_MASK

ASSUME CapabilitiesAssumption ==
  /\ Capabilities \subseteq Nat
  /\ TimingSteps \subseteq 0 .. StepMask /\ VoltageSteps \subseteq 0 .. StepMask
  /\ GivenSteps \subseteq Nat \cup {NotGiven}
ASSUME LimitsAssumption == MaxFaults \in Nat /\ MaxMeddling \in Nat

VARIABLES
  job,        \* lanes, caps, tmax, vmax: the options and what the device says
  pc,         \* the attribute access the tool makes next
  rc,         \* the return code, "ok" for 0
  lane, t, v, \* l, t and v of the main loop
  seen,       \* eom_tested_count
  er,         \* data->er, the samples
  report,     \* the samples in the result file
  faults,     \* calls that failed or were interrupted so far
  meddling,   \* monitors another process disabled so far
  doubled,    \* history: a power mode change that was sent twice may yet end
  sound,      \* history: every sample was taken of a finished test of its point
  before      \* history: on when the run began

scan     == <<lane, t, v, seen, er, sound>>
toolVars == <<job, pc, rc, scan, doubled, report, before>>
vars     == <<devVars, toolVars, faults, meddling>>

-----------------------------------------------------------------------------
(* The command line and the device's capabilities                          *)

Capped(max, given) == IF max > given /\ given > 0 THEN given ELSE max

\* opt->selector: ALL_LANES, LANE0_SELECTOR or LANE1_SELECTOR.
Selections == {{0, 1}, {0}, {1}}

Jobs ==
  { [lanes |-> s, caps |-> c, tmax |-> Capped(x, gx), vmax |-> Capped(y, gy)] :
      s \in Selections, c \in Capabilities, x \in TimingSteps, y \in VoltageSteps,
      gx \in GivenSteps, gy \in GivenSteps }

\* eom_result_count: how many samples fit into data->er.
Room == (2 * job.tmax + 1) * (2 * job.vmax + 1) * (IF job.lanes = Lanes THEN 2 ELSE 1)

Lowest(S)  == CHOOSE l \in S : \A m \in S : l <= m
Highest(S) == CHOOSE l \in S : \A m \in S : l >= m

\* timing_steps and voltage_steps: bit 6 is the direction.
Steps(i) == IF i < 0 THEN 64 + ((0 - i) % (StepMask + 1)) ELSE i % (StepMask + 1)

-----------------------------------------------------------------------------
(* Attribute access                                                        *)

Fault == faults < MaxFaults /\ faults' = faults + 1

Exit(code) == pc' = "exit" /\ rc' = code

\* ufshcd_dme_set_attr tries once, and what fails may have had its effect.  An
\* interrupted ioctl is done again by send_bsg_scsi_trs (EINTR, EAGAIN), also
\* when the attribute was set: this step then stays where it is.
SetAttr(place, effect, next) ==
  /\ pc = place
  /\ \/ effect /\ pc' = next /\ rc' = "ok" /\ UNCHANGED <<faults, doubled>>
     \/ /\ effect \/ UNCHANGED devVars
        /\ Fault /\ Exit("error") /\ UNCHANGED doubled
     \/ /\ effect /\ Fault
        /\ doubled' = (doubled \/ place = "change")
        /\ UNCHANGED <<pc, rc>>
  /\ UNCHANGED <<job, scan, report, before, meddling>>

GetFails(place) ==
  /\ pc = place
  /\ Fault
  /\ Exit("error")
  /\ UNCHANGED <<devVars, job, scan, doubled, report, before, meddling>>

-----------------------------------------------------------------------------
(* do_emon up to the main loop                                             *)

\* A file, the fill buffer or a capability cannot be had, or there is none.
PreparationFails ==
  \/ GetFails("start")
  \/ /\ pc = "start" /\ job.caps = 0
     /\ Exit("error")
     /\ UNCHANGED <<devVars, job, scan, doubled, report, before, faults, meddling>>

Prepared ==
  /\ pc = "start" /\ job.caps # 0
  /\ pc' = "enable"
  /\ UNCHANGED <<devVars, job, rc, scan, doubled, report, before, faults, meddling>>

-----------------------------------------------------------------------------
(* config_eom                                                              *)

Enable     == SetAttr("enable", DevEnable(lane), "timing")
SetTiming  == SetAttr("timing", DevSetTiming(lane, Steps(t)), "volt")
SetVolt    == SetAttr("volt", DevSetVolt(lane, Steps(v)), "target")
SetTarget  == SetAttr("target", DevSetTarget(lane), "adapt")
NoAdapt    == SetAttr("adapt", DevNoAdapt, "change")

\* The UniPro state is read once, and whatever it is the scan goes on.
PowerModeChange == SetAttr("change", DevChange, "traffic")

-----------------------------------------------------------------------------
(* eom_scan                                                                *)

\* pwrite or pread exercises the link, then RX_EYEMON_START is read; while it
\* is 1 both are repeated.
ReadStart ==
  /\ pc = "traffic"
  /\ ~ running[lane]
  /\ pc' = "tested"
  /\ UNCHANGED <<devVars, job, rc, scan, doubled, report, before, faults, meddling>>

ReadTested ==
  /\ pc = "tested" /\ pc' = "errors"
  /\ seen' = tested[lane]
  /\ UNCHANGED <<devVars, job, rc, lane, t, v, er, sound, doubled, report, before,
                 faults, meddling>>

\* Mutants: both counts must be full; a monitor that has stopped is done.
BothFull(e) == seen >= TestCount /\ e >= ErrorLimit
StoppedIsDone(e) == TRUE

Finished(e) == seen >= TestCount \/ e >= ErrorLimit

\* Mutant: one voltage too many.
OneMore == v <= job.vmax

Overfull(n) == n > Room
MoreVoltages == v < job.vmax

\* Mutant: the voltages do not begin again with the next timing.
NoRewind ==
  \/ MoreVoltages /\ v' = v + 1 /\ t' = t /\ pc' = "enable"
  \/ ~ MoreVoltages /\ t < job.tmax /\ v' = v /\ t' = t + 1 /\ pc' = "enable"
  \/ ~ MoreVoltages /\ t >= job.tmax /\ pc' = "disable" /\ UNCHANGED <<t, v>>

\* The next step of the sweep, or the end of the lane's.
NextPoint ==
  \/ /\ MoreVoltages
     /\ v' = v + 1 /\ t' = t /\ pc' = "enable"
  \/ /\ ~ MoreVoltages /\ t < job.tmax
     /\ v' = 0 - job.vmax /\ t' = t + 1 /\ pc' = "enable"
  \/ /\ ~ MoreVoltages /\ t >= job.tmax
     /\ pc' = "disable" /\ UNCHANGED <<t, v>>

\* The monitor has stopped, at the point the sample will name.
Measured ==
  /\ ~ running[lane] /\ Full(lane)
  /\ at[lane] = [timing |-> Steps(t), volt |-> Steps(v), adapt |-> "NO_ADAPT"]

ReadErrors ==
  /\ pc = "errors"
  /\ \/ /\ ~ Finished(errors[lane])
        /\ pc' = "traffic"
        /\ UNCHANGED <<rc, t, v, er, sound, doubled>>
     \/ /\ Finished(errors[lane])
        /\ er' = Append(er, [lane |-> lane, timing |-> t, volt |-> v])
        /\ sound' = (sound /\ (Measured \/ doubled))
        /\ doubled' = (doubled /\ change)
        /\ \/ Overfull(Len(er')) /\ Exit("error") /\ UNCHANGED <<t, v>>
           \/ ~ Overfull(Len(er')) /\ NextPoint /\ UNCHANGED rc
  /\ UNCHANGED <<devVars, job, lane, seen, report, before, faults, meddling>>

ScanFails == \E place \in {"traffic", "tested", "errors"} : GetFails(place)

-----------------------------------------------------------------------------
(* The rest of do_emon                                                     *)

\* Mutant: only the last lane's monitor is disabled.
DisableLast == IF lane = Highest(job.lanes) THEN DevDisable(lane) ELSE UNCHANGED devVars

DisableLane == DevDisable(lane)

Disable ==
  /\ pc = "disable"
  /\ \/ /\ DisableLane
        /\ rc' = "ok" /\ UNCHANGED faults
        /\ \/ /\ lane = Highest(job.lanes)
              /\ pc' = "report" /\ UNCHANGED <<lane, t, v>>
           \/ /\ lane # Highest(job.lanes)
              /\ pc' = "enable" /\ lane' = lane + 1
              /\ t' = 0 - job.tmax /\ v' = 0 - job.vmax
     \/ /\ DisableLane \/ UNCHANGED devVars
        /\ Fault /\ Exit("error") /\ UNCHANGED <<lane, t, v>>
     \/ DisableLane /\ Fault /\ UNCHANGED <<pc, rc, lane, t, v>>
  /\ UNCHANGED <<job, seen, er, sound, doubled, report, before, meddling>>

\* generate_eom_report: four descriptors are read and the file is written.
Report ==
  /\ pc = "report"
  /\ report' = er
  /\ Exit("ok")
  /\ UNCHANGED <<devVars, job, scan, doubled, before, faults, meddling>>

ReportFails == GetFails("report")

-----------------------------------------------------------------------------
(* The other parties                                                       *)

\* Another process disables a monitor, with "uic" for instance.
OtherDisables ==
  /\ pc # "exit" /\ meddling < MaxMeddling
  /\ meddling' = meddling + 1
  /\ \E l \in Lanes : on[l] /\ DevDisable(l)
  /\ UNCHANGED <<toolVars, faults>>

DeviceStep ==
  /\ DevChangeEnds \/ \E l \in Lanes : DevTests(l)
  /\ UNCHANGED <<toolVars, faults, meddling>>

Terminating == pc = "exit" /\ UNCHANGED vars

ToolNext ==
  \/ PreparationFails \/ Prepared
  \/ Enable \/ SetTiming \/ SetVolt \/ SetTarget \/ NoAdapt \/ PowerModeChange
  \/ ReadStart \/ ReadTested \/ ReadErrors \/ ScanFails
  \/ Disable \/ Report \/ ReportFails

Next == ToolNext \/ DeviceStep \/ OtherDisables \/ Terminating

Init ==
  /\ DevInit
  /\ job \in Jobs
  /\ pc = "start" /\ rc = "error"
  /\ lane = Lowest(job.lanes) /\ t = 0 - job.tmax /\ v = 0 - job.vmax /\ seen = 0
  /\ er = << >> /\ report = << >> /\ sound = TRUE /\ doubled = FALSE
  /\ faults = 0 /\ meddling = 0 /\ before = on

Spec     == Init /\ [][Next]_vars
FairSpec == Spec /\ WF_vars(ToolNext /\ UNCHANGED faults) /\ WF_vars(DeviceStep)

-----------------------------------------------------------------------------
(* Properties                                                              *)

Places == {"start", "enable", "timing", "volt", "target", "adapt", "change",
           "traffic", "tested", "errors", "disable", "report", "exit"}

Points == [lane : job.lanes, timing : (0 - job.tmax) .. job.tmax,
           volt : (0 - job.vmax) .. job.vmax]

\* Every variable stays in its type, the sweep inside its limits.
TypeOK ==
  /\ DevTypeOK
  /\ job \in Jobs
  /\ pc \in Places /\ rc \in {"ok", "error"}
  /\ lane \in job.lanes
  /\ t \in (0 - job.tmax) .. job.tmax /\ v \in (0 - job.vmax) .. job.vmax
  /\ seen \in Nat
  /\ er \in Seq(Points) /\ report \in Seq(Points)
  /\ faults \in 0 .. MaxFaults /\ meddling \in 0 .. MaxMeddling
  /\ sound \in BOOLEAN /\ doubled \in BOOLEAN /\ before \in [Lanes -> BOOLEAN]

\* eom_scan, "EOM has stopped, good to log results": every sample is the
\* outcome of a finished test, of the lane and the steps the sample names and
\* with adaptation off, although counts of earlier tests are still there, the
\* power mode change ends at any time, others disable the monitor and sets are
\* repeated.  Except when it is PA_PWRMODE that was repeated: the second change
\* then ends while the counts are read, or while a later point is configured,
\* for whose result the tool takes what the old steps counted.
SamplesReal == sound

\* The samples never outgrow the array do_emon allocated for them, and a run
\* that reports success has every point of the sweep of every lane in its
\* file, once.
SweepComplete ==
  /\ Len(er) <= Room
  /\ (pc = "exit" /\ rc = "ok") =>
       /\ Len(report) = Room
       /\ { report[i] : i \in 1 .. Len(report) } = Points

\* do_emon disables the monitor of a lane it has swept: however the run ends,
\* at most the lane it was in is left enabled by it, and none by a good run.
MonitorsOff ==
  pc = "exit" =>
    \A l \in Lanes :
      on[l] => \/ before[l] /\ (l \notin job.lanes \/ l > lane)
               \/ rc = "error" /\ l = lane

\* The scan has no bound: it ends because every test ends, unless the lane's
\* monitor is disabled under it.
EndsUnlessDisabled == <>(pc = "exit") \/ <>[](pc # "exit" /\ ~ on[lane])
=============================================================================

-------------------------------- MODULE Hmr --------------------------------
(***************************************************************************)
(* "ufs-utils hmr" (ufs_hmr.c), run once or several times after each other *)
(* against one device: the tool may be killed between any two queries and  *)
(* started again, with the same options or with others.  Every step of the *)
(* tool is one query and the code up to the next.  Another process may     *)
(* read bRefreshStatus, which resets it, or clear fRefreshEnable.  A query *)
(* that is interrupted is sent again by send_bsg_scsi_trs, below the tool. *)
(*                                                                         *)
(* Left out: progress output and the sleeps between two polls.             *)
(***************************************************************************)
EXTENDS HmrDevice

CONSTANTS
  RetryCount,   \* count: how often a poll is repeated
  MaxRuns,      \* bound: how often the tool is started
  MaxFaults,    \* bound: queries and calls that fail or are interrupted
  MaxAborts     \* bound: refreshes another process aborts

ASSUME RetryAssumption == RetryCount \in Nat
ASSUME RunsAssumption  == MaxRuns \in Nat \ {0}
ASSUME ToolBounds      == MaxFaults \in Nat /\ MaxAborts \in Nat

VARIABLES
  opt,          \* opt->hmr_method and opt->hmr_unit
  pc,           \* the query the tool is about to send
  cur,          \* retries of the poll under way
  devMethod,    \* dev_method
  passer,       \* stage_passer, a set of stages to skip
  health,       \* desc_health_layout, as read last
  totcount,     \* refresh_totcount
  rc,           \* what do_hmr's rc is before the device file is closed
  exit,         \* what do_hmr returns
  runs, faults, aborts,
  resent        \* history: interrupted sets of fRefreshEnable in this run

locals   == <<opt, cur, devMethod, passer, health, totcount>>
envVars  == <<runs, faults, aborts, resent>>
toolVars == <<locals, pc, rc, exit>>
vars     == <<devVars, toolVars, envVars>>

Options == [method : Methods, unit : UnitKinds]
Stages  == {"STATUS_CHECK", "METHOD_SET", "UNIT_SET"}

Fault == faults < MaxFaults /\ faults' = faults + 1

\* goto free
Leave(code) == pc' = "close" /\ rc' = code

-----------------------------------------------------------------------------
(* hmr_precondition_verify                                                 *)

Open ==
  /\ pc = "start"
  /\ \/ pc' = "run_progress" /\ UNCHANGED <<rc, exit, faults>>
     \/ Fault /\ pc' = "exit" /\ rc' = "OPEN" /\ exit' = "OPEN"
  /\ UNCHANGED <<devVars, locals, runs, aborts, resent>>

\* A query that fails and ends the run; the device need not notice.
Fails(place) ==
  /\ pc = place
  /\ Fault
  /\ Leave("QUERY")
  /\ UNCHANGED <<devVars, locals, exit, runs, aborts, resent>>

\* hmr_precondition_validate_totcount
Exhausted(count) == count >= MaxTotal

\* After the status check: skip what verify_run found already set.
Prepared(stages) == IF "METHOD_SET" \in stages THEN "enable" ELSE "set_method"

\* After verify_run, with the health descriptor it read.
RunVerified(h, stages) ==
  /\ passer' = stages
  /\ IF Exhausted(h.total)
       THEN Leave("TOTCOUNT") /\ UNCHANGED totcount
       ELSE /\ totcount' = h.total
            /\ pc' = IF "STATUS_CHECK" \in stages
                       THEN Prepared(stages) ELSE "pre_status"
            /\ UNCHANGED rc

Health == [open |-> CycleOpen, total |-> total]

\* Mutant: the progress an earlier run left is not looked at.
AlwaysClean == TRUE

CleanRun == ~ CycleOpen

RunProgress ==
  /\ pc = "run_progress"
  /\ health' = Health
  /\ IF CleanRun
       THEN RunVerified(health', {})
       ELSE pc' = "run_method" /\ UNCHANGED <<passer, totcount, rc>>
  /\ UNCHANGED <<devVars, opt, cur, devMethod, exit, envVars>>

RunMethod ==
  /\ pc = "run_method"
  /\ devMethod' = method
  /\ pc' = "run_unit"
  /\ UNCHANGED <<devVars, opt, cur, passer, health, totcount, rc, exit, envVars>>

SameMethod == devMethod = opt.method

ResumedStages ==
  {"METHOD_SET", "UNIT_SET"} \cup
    (IF unit = "FULL" THEN {"STATUS_CHECK"} ELSE {})

\* The error codes are those the code returns.
RunUnit ==
  /\ pc = "run_unit"
  /\ \/ /\ ~ SameMethod
        /\ Leave("REFRESH_UNIT") /\ UNCHANGED <<passer, totcount>>
     \/ /\ SameMethod /\ unit # opt.unit
        /\ Leave("REFRESH_METHOD") /\ UNCHANGED <<passer, totcount>>
     \/ /\ SameMethod /\ unit = opt.unit
        /\ RunVerified(health, ResumedStages)
  /\ UNCHANGED <<devVars, opt, cur, devMethod, health, exit, envVars>>

\* Mutant: one retry more than count.
PollLate ==
  IF cur <= RetryCount THEN cur' = cur + 1 /\ UNCHANGED <<pc, rc>>
                       ELSE Leave("REFRESH_STATUS") /\ UNCHANGED cur

\* A poll that did not find what it waits for: again, or the end of the run.
PollAgain ==
  IF cur < RetryCount THEN cur' = cur + 1 /\ UNCHANGED <<pc, rc>>
                      ELSE Leave("REFRESH_STATUS") /\ UNCHANGED cur

\* hmr_precondition_verify_status
PreStatus ==
  /\ pc = "pre_status"
  /\ DevReadStatus
  /\ IF status = "IDLE"
       THEN pc' = Prepared(passer) /\ cur' = 0 /\ UNCHANGED rc
       ELSE PollAgain
  /\ UNCHANGED <<opt, devMethod, passer, health, totcount, exit, envVars>>

\* The status is read, and thereby reset, but the answer is lost.
StatusAnswerLost ==
  /\ pc \in {"pre_status", "enable_retry", "completed", "post_status"}
  /\ DevReadStatus
  /\ Fault
  /\ Leave("QUERY")
  /\ UNCHANGED <<locals, exit, runs, aborts, resent>>

-----------------------------------------------------------------------------
(* hmr_method_set, hmr_unit_set and hmr_refresh_initiate                   *)

SetMethod ==
  /\ pc = "set_method"
  /\ DevWriteMethod(opt.method)
  /\ \/ pc' = "set_unit" /\ UNCHANGED <<rc, faults>>
     \/ Fault /\ Leave("QUERY")
  /\ UNCHANGED <<locals, exit, runs, aborts, resent>>

SetUnit ==
  /\ pc = "set_unit"
  /\ DevWriteUnit(opt.unit)
  /\ \/ pc' = "enable" /\ UNCHANGED <<rc, faults>>
     \/ Fault /\ Leave("QUERY")
  /\ UNCHANGED <<locals, exit, runs, aborts, resent>>

\* fRefreshEnable is about to be set, by the tool or once more by the transport.
Enabling == pc \in {"enable", "enable_again"}

Enable ==
  /\ Enabling
  /\ \/ /\ DevEnable
        /\ pc' = IF opt.unit = "MIN" THEN "completed" ELSE "full_progress"
        /\ cur' = 0
        /\ UNCHANGED faults
     \/ /\ DevRefuse
        /\ pc' = "enable_retry"
        /\ UNCHANGED <<cur, faults>>
     \/ /\ Fault
        /\ DevEnable \/ UNCHANGED devVars
        /\ pc' = "enable_retry"
        /\ UNCHANGED cur
  /\ UNCHANGED <<opt, devMethod, passer, health, totcount, rc, exit, runs, aborts,
                 resent>>

\* send_bsg_scsi_trs, on EINTR or EAGAIN: the device executed the query, the
\* answer is lost and the same query is sent again, whatever the device does
\* by then.  Of the queries that read only the last reading counts; an earlier
\* one of the status is like that of OtherReader.
Interrupted ==
  /\ Fault
  /\ \/ pc = "set_method" /\ DevWriteMethod(opt.method) /\ UNCHANGED <<pc, resent>>
     \/ pc = "set_unit" /\ DevWriteUnit(opt.unit) /\ UNCHANGED <<pc, resent>>
     \/ /\ Enabling
        /\ DevEnable \/ DevRefuse
        /\ pc' = "enable_again" /\ resent' = resent + 1
  /\ UNCHANGED <<locals, rc, exit, runs, aborts>>

\* Mutant: whatever the status, the flag is set once more.
RetryAlways == TRUE

MayRetry == status = "BUSY"

\* hmr_refresh_initiate_retry
EnableRetry ==
  /\ pc = "enable_retry"
  /\ \/ /\ cur >= RetryCount
        /\ Leave("QUERY")
        /\ UNCHANGED <<devVars, cur>>
     \/ /\ cur < RetryCount
        /\ DevReadStatus
        /\ IF MayRetry THEN pc' = "enable" /\ cur' = cur + 1 /\ UNCHANGED rc
                       ELSE Leave("QUERY") /\ UNCHANGED cur
  /\ UNCHANGED <<opt, devMethod, passer, health, totcount, exit, envVars>>

-----------------------------------------------------------------------------
(* hmr_unit_start and hmr_full_start                                       *)

\* Mutant: a unit the device is still refreshing counts as completed.
EndedOrNot == {"COMPLETED", "IDLE", "IN_PROGRESS"}

Ended == {"COMPLETED", "IDLE"}

\* hmr_unit_verify_completed
UnitCompleted ==
  /\ pc = "completed"
  /\ DevReadStatus
  /\ IF status \in Ended
       THEN pc' = "unit_progress" /\ cur' = 0 /\ UNCHANGED rc
       ELSE PollAgain
  /\ UNCHANGED <<opt, devMethod, passer, health, totcount, exit, envVars>>

\* Mutant: the loop is left only by an error.
NeverOver == FALSE

LoopOver == ~ CycleOpen

LoopProgress ==
  /\ pc \in {"unit_progress", "full_progress"}
  /\ health' = Health
  /\ \/ LoopOver /\ pc' = "post_progress"
     \/ ~ LoopOver /\ pc = "unit_progress" /\ pc' = "enable"
     \/ ~ LoopOver /\ pc = "full_progress" /\ UNCHANGED pc
  /\ UNCHANGED <<devVars, opt, cur, devMethod, passer, totcount, rc, exit, envVars>>

-----------------------------------------------------------------------------
(* hmr_postcondition_verify, and the end of do_hmr                         *)

PostProgress ==
  /\ pc = "post_progress"
  /\ health' = Health
  /\ IF CycleOpen THEN Leave("REFRESH_PROGRESS")
                  ELSE pc' = "post_status" /\ UNCHANGED rc
  /\ UNCHANGED <<devVars, opt, cur, devMethod, passer, totcount, exit, envVars>>

\* Mutants: an equal total count is accepted; one more is asked for.
NotLess == health.total >= totcount
TwoMore == health.total > totcount + 1

\* hmr_postcondition_verify_totcount
Grown == health.total > totcount

PostStatus ==
  /\ pc = "post_status"
  /\ DevReadStatus
  /\ \/ status \notin Ended /\ Leave("REFRESH_STATUS")
     \/ status \in Ended /\ ~ Grown /\ Leave("REFRESH_TOTCOUNT")
     \/ status \in Ended /\ Grown /\ Leave("OK")
  /\ UNCHANGED <<locals, exit, envVars>>

\* free: the return code is that of closing the device file.
Close ==
  /\ pc = "close"
  /\ pc' = "exit"
  /\ \/ exit' = "OK" /\ UNCHANGED faults
     \/ exit' = "CLOSE" /\ Fault
  /\ UNCHANGED <<devVars, locals, rc, runs, aborts, resent>>

-----------------------------------------------------------------------------
(* The other parties                                                       *)

Unread == [open |-> FALSE, total |-> 0]

\* The tool is started again, after it ended or was killed.
Again ==
  /\ pc # "start"
  /\ runs < MaxRuns
  /\ runs' = runs + 1
  /\ opt' \in Options
  /\ pc' = "start" /\ cur' = 0 /\ devMethod' = opt'.method
  /\ passer' = {} /\ health' = Unread /\ totcount' = 0
  /\ rc' = "NONE" /\ exit' = "NONE" /\ resent' = 0
  /\ UNCHANGED <<devVars, faults, aborts>>

DeviceStep == DevUnitEnds /\ UNCHANGED <<toolVars, envVars>>

OtherReader == DevReadStatus /\ UNCHANGED <<toolVars, envVars>>

OtherAborts ==
  /\ DevAbort
  /\ aborts < MaxAborts
  /\ aborts' = aborts + 1
  /\ UNCHANGED <<toolVars, runs, faults, resent>>

Terminating == pc = "exit" /\ UNCHANGED vars

Queries == {"run_progress", "run_method", "run_unit", "pre_status", "set_method",
            "set_unit", "enable_retry", "completed", "unit_progress",
            "full_progress", "post_progress", "post_status"}

ToolNext ==
  \/ Open \/ RunProgress \/ RunMethod \/ RunUnit \/ PreStatus
  \/ SetMethod \/ SetUnit \/ Enable \/ EnableRetry \/ Interrupted
  \/ UnitCompleted \/ LoopProgress \/ PostProgress \/ PostStatus \/ Close
  \/ StatusAnswerLost \/ \E place \in Queries : Fails(place)

Next == ToolNext \/ Again \/ DeviceStep \/ OtherReader \/ OtherAborts
          \/ Terminating

Init ==
  /\ DevInit
  /\ opt \in Options
  /\ pc = "start" /\ cur = 0 /\ devMethod = opt.method
  /\ passer = {} /\ health = Unread /\ totcount = 0
  /\ rc = "NONE" /\ exit = "NONE"
  /\ runs = 1 /\ faults = 0 /\ aborts = 0 /\ resent = 0

Spec     == Init /\ [][Next]_vars
FairSpec == Spec /\ WF_vars(ToolNext /\ UNCHANGED faults) /\ WF_vars(DeviceStep)

-----------------------------------------------------------------------------
(* Properties                                                              *)

Places == Queries \cup {"start", "enable", "enable_again", "close", "exit"}
Codes  == {"NONE", "OK", "OPEN", "CLOSE", "QUERY", "TOTCOUNT", "REFRESH_UNIT",
           "REFRESH_METHOD", "REFRESH_STATUS", "REFRESH_PROGRESS",
           "REFRESH_TOTCOUNT"}

\* Every variable stays in its type.
TypeOK ==
  /\ DevTypeOK
  /\ opt \in Options
  /\ pc \in Places
  /\ cur \in 0 .. RetryCount
  /\ devMethod \in Methods
  /\ passer \subseteq Stages
  /\ health \in [open : BOOLEAN, total : 0 .. MaxTotal]
  /\ totcount \in 0 .. MaxTotal
  /\ rc \in Codes /\ exit \in Codes
  /\ runs \in 1 .. MaxRuns
  /\ faults \in 0 .. MaxFaults /\ aborts \in 0 .. MaxAborts
  /\ resent \in 0 .. faults

\* The policy of hmr_precondition_verify_run: however often the tool is
\* killed in the middle of a cycle and started again with other options, all
\* units of a cycle are refreshed with one method.
OneMethodPerCycle ==
  /\ used \subseteq {method}
  /\ \E m \in Methods : last \subseteq {m}

Prepares == {"pre_status", "set_method", "set_unit", "enable", "enable_again",
             "enable_retry", "completed", "unit_progress", "full_progress",
             "post_progress", "post_status"}

\* The cycles of a device's life are few: a run that opens a cycle never
\* spends a second one by itself.  A run that continues a cycle may: it can
\* end before hmr_refresh_initiate, which then opens another.  Every set of
\* fRefreshEnable the transport repeats can cost one more, and no more: the
\* cycle may be over when it is sent again.
WearBound ==
  pc \in Prepares =>
    total <= totcount + (IF "METHOD_SET" \in passer THEN 2 ELSE 1) + resent

\* hmr_postcondition_verify passes only if a cycle was completed since
\* hmr_precondition_verify, whatever other processes aborted or read, and it
\* was one of the method the user asked for.
VerifiedMeansRefreshed ==
  (pc \in {"close", "exit"} /\ rc = "OK") =>
    /\ total > totcount
    /\ last = {opt.method}

\* With the minimum unit, the tool does not decide to set fRefreshEnable while
\* the device is still refreshing (hmr_precondition_verify_status, hmr_refresh_-
\* initiate_retry and hmr_unit_verify_completed see to it), not even after a
\* set that was repeated.  The transport does not ask: at "enable_again" the
\* device may be refreshing.
EnablesWhenQuiet ==
  (pc = "enable" /\ opt.unit = "MIN") => ~ Refreshing

\* When no query fails and nobody aborts, a run whose refresh job came to its
\* end passes hmr_postcondition_verify: another process that reads the status
\* first does not matter.
PassesWhenDone ==
  [][(pc \in {"post_progress", "post_status"} /\ pc' = "close" /\
      faults' = 0 /\ aborts = 0) => rc' = "OK"]_vars

\* Every run ends, except that hmr_full_start polls for ever when somebody
\* else stopped the refresh in the middle of the cycle.
EndsUnlessAborted ==
  \/ <>[](pc = "exit")
  \/ <>[](pc = "full_progress" /\ done > 0 /\ ~ Refreshing)

\* enum hmr_err_codes: 0 is "success".
ZeroMeansSuccess == (pc = "exit" /\ exit = "OK") => rc = "OK"
=============================================================================

---------------------------- MODULE Arpmb_proofs ----------------------------
(***************************************************************************)
(* Theorems about Arpmb for every number of regions, keys, blocks, faults  *)
(* and other hosts.                                                        *)
(***************************************************************************)
EXTENDS Arpmb, RpmbDevice_proofs

\* The chunk under way was stored, but interrupted: the device refuses the
\* same command from now on, for its counter or because that is exhausted.
Repeating ==
  /\ applied = Done + Chunk /\ ~ LoopOver /\ resend # {}
  /\ counter[job.region] > cnt
  /\ key[job.region] # NoKey
  /\ \A zero \in resend : key[job.region] = Mac(zero)
  /\ purge[job.region] # "running"
  /\ Wire(addr) + Chunk - 1 <= MaxAddr

\* The bookkeeping of do_write_arpmb: after an error the loop is left, so in
\* the loop every block counted as done is stored, and no other but those of
\* an interrupted chunk.
LoopInv ==
  Writing =>
    /\ job.start \in Nat /\ job.num \in Nat
    /\ left \in 0 .. job.num
    /\ addr = job.start + Done
    /\ pc \in {"start", "counter", "write", "exit", "crashed"}
    /\ pc \in {"start", "counter"} => ~ inSync /\ applied = 0 /\ left = job.num
    /\ pc = "write" => applied = Done \/ Repeating

IInv == TypeOK /\ LoopInv /\ PrefixOnly /\ CountersAgree

-----------------------------------------------------------------------------
(* Requests and answers                                                    *)

LEMMA FailuresAndResults ==
  /\ "Success" \notin Failures
  /\ Results = Failures \cup {"Success"}
BY DEF Failures, Results

LEMMA JobParts ==
  ASSUME TypeOK
  PROVE  /\ job.region \in Regions /\ job.key \in Keys \cup {NoKey}
         /\ job.num \in Int /\ job.start \in Int
         /\ job.geometry \in Nat \cup {NotGiven}
BY DEF TypeOK, Jobs

LEMMA MaxBlocksTyped ==
  ASSUME TypeOK
  PROVE  MaxBlocks \in Nat /\ (Writing => MaxBlocks > 0)
<1>1. job.geometry \in Nat \cup {NotGiven}
  BY JobParts
<1>2. CASE job.geometry = NotGiven
  BY <1>2, LimitsAssumption DEF MaxBlocks
<1>3. CASE job.geometry = 0
  BY <1>3 DEF MaxBlocks, NotGiven
<1>4. CASE job.geometry \in Nat \ {0}
  <2>1. MaxBlocks = job.geometry
    BY <1>4 DEF MaxBlocks, NotGiven
  <2>2. QED
    BY <1>4, <2>1
<1>5. QED
  BY <1>1, <1>2, <1>3, <1>4

\* A chunk of a loop that goes on.
LEMMA ChunkTyped ==
  ASSUME TypeOK, ~ LoopOver
  PROVE  /\ left \in Nat /\ left > 0 /\ Chunk \in Nat /\ Chunk <= left
         /\ addr \in Int /\ addr >= NotGiven /\ addr <= MaxAddr
         /\ Writing => Chunk > 0
BY MaxBlocksTyped, BoundsAssumption DEF Chunk, LoopOver, TypeOK

LEMMA RequestTyped ==
  ASSUME TypeOK, NEW type \in RequestTypes, NEW a \in Nat, NEW n \in Nat,
         NEW c \in Nat, NEW mac \in Keys \cup {NoKey}, NEW block \in Int
  PROVE  Request(type, a, n, c, mac, block) \in Requests
BY JobParts DEF Request, Requests

LEMMA QueriesTyped ==
  ASSUME TypeOK
  PROVE  KeyRequest \in Requests /\ CounterRequest \in Requests
<1>1. /\ "WRITE_KEY" \in RequestTypes /\ "READ_CNT" \in RequestTypes
      /\ 0 \in Nat /\ 1 \in Nat /\ 0 \in Int /\ NoKey \in Keys \cup {NoKey}
  BY DEF RequestTypes
<1>2. KeyRequest \in Requests
  BY <1>1, RequestTyped, JobParts DEF KeyRequest
<1>3. CounterRequest \in Requests
  BY <1>1, RequestTyped DEF CounterRequest
<1>4. QED
  BY <1>2, <1>3

\* An address is sent as it is, unless the start was not given.
LEMMA WireTyped ==
  ASSUME NEW a \in Int, a >= NotGiven
  PROVE  Wire(a) \in Nat /\ (a >= 0 => Wire(a) = a)
BY BoundsAssumption DEF Wire, NotGiven

LEMMA ReadRequestTyped ==
  ASSUME TypeOK, ~ LoopOver
  PROVE  ReadRequest \in Requests
<1>1. Wire(addr) \in Nat /\ Chunk \in Nat
  BY ChunkTyped, WireTyped
<1>2. /\ "READ" \in RequestTypes /\ 0 \in Nat /\ 0 \in Int
      /\ NoKey \in Keys \cup {NoKey}
  BY DEF RequestTypes
<1>3. QED
  BY <1>1, <1>2, RequestTyped DEF ReadRequest

LEMMA WriteRequestTyped ==
  ASSUME TypeOK, ~ LoopOver, NEW zero \in BOOLEAN
  PROVE  WriteRequest(Mac(zero)) \in Requests
<1>1. Wire(addr) \in Nat /\ Chunk \in Nat
  BY ChunkTyped, WireTyped
<1>2. "WRITE" \in RequestTypes /\ cnt \in Nat
  BY DEF RequestTypes, TypeOK
<1>3. Mac(zero) \in Keys \cup {NoKey}
  BY JobParts DEF Mac
<1>4. Done + 1 \in Int
  BY JobParts DEF Done, TypeOK
<1>5. QED
  BY <1>1, <1>2, <1>3, <1>4, RequestTyped DEF WriteRequest

LEMMA OutcomeTyped ==
  ASSUME DevTypeOK', NEW f \in Requests
  PROVE  Outcome(f) \in Results /\ (~ Fine(f) => Outcome(f) \in Failures)
<1>1. f.region \in Regions
  BY DEF Requests
<1>2. result'[f.region] \in Results /\ resp'[f.region] \in Answers
  BY <1>1 DEF DevTypeOK
<1>3. resp'[f.region].result \in Results
  BY <1>2 DEF Answers
<1>4. Outcome(f) \in Results
  BY <1>2, <1>3 DEF Outcome
<1>5. QED
  BY <1>4, FailuresAndResults DEF Fine

LEMMA FailedTyped ==
  ASSUME TypeOK, NEW f \in Requests, Failed(f)
  PROVE  DevTypeOK' /\ faults' \in 0 .. MaxFaults
<1>1. DevTypeOK'
  BY ExecuteTyped, DevUntouched DEF Failed, TypeOK
<1>2. faults' \in 0 .. MaxFaults
  BY LimitsAssumption DEF Failed, Fault, TypeOK
<1>3. QED
  BY <1>1, <1>2

LEMMA AnsweredTyped ==
  ASSUME TypeOK, NEW f \in Requests, Answered(f)
  PROVE  DevTypeOK' /\ faults' \in 0 .. MaxFaults
BY ExecuteTyped DEF Answered, TypeOK

\* The answer to a write says whether the device stored the blocks.
LEMMA WriteAnswer ==
  ASSUME DevTypeOK, NEW f \in Requests, f.req = "WRITE", DevExecute(f)
  PROVE  IF Fine(f) THEN counter' # counter ELSE UNCHANGED <<data, counter>>
<1>1. DevWrite(f)
  BY DEF DevExecute, DevWriteKey, DevConfWrite, DevReadResult,
         DevReadCounter, DevRead, DevConfRead, DevPurgeEnable, DevPurgeStatus
<1>2. f.region \in Regions /\ counter[f.region] \in Int
      /\ result \in [Regions -> Results]
  BY BoundsAssumption DEF Requests, DevTypeOK
<1>3. Outcome(f) = result'[f.region]
  BY DEF Outcome
<1>4. CASE Refuse(f)
  <2>1. PICK why \in Objections(f) : result' = [result EXCEPT ![f.region] = why]
    BY <1>4 DEF Refuse
  <2>2. why \in Failures
    BY DEF Objections
  <2>3. Outcome(f) = why
    BY <1>2, <1>3, <2>1
  <2>4. ~ Fine(f)
    BY <2>2, <2>3, FailuresAndResults DEF Fine
  <2>5. QED
    BY <1>4, <2>4 DEF Refuse
<1>5. CASE Accepted(f)
  <2>1. result'[f.region] = "Success"
    BY <1>2, <1>5 DEF Accepted
  <2>2. Fine(f)
    BY <1>3, <2>1 DEF Fine
  <2>3. counter'[f.region] = counter[f.region] + 1
    BY <1>2, <1>5 DEF Accepted, DevTypeOK
  <2>4. QED
    BY <1>2, <2>2, <2>3
<1>6. QED
  BY <1>1, <1>4, <1>5 DEF DevWrite

-----------------------------------------------------------------------------
(* Types                                                                   *)

\* What is left when the device and the loop variables are known to be typed.
LEMMA Rest ==
  ASSUME TypeOK, DevTypeOK', UNCHANGED <<job, foreign>>,
         pc' \in Places, ret' \in {"ok", "error"},
         addr' \in Int, addr' >= NotGiven, cnt' \in Nat,
         left' \in Int, left' < 0 => left' = job.num,
         buff' \in {"unset", "null", "dangling"}, out' \in Seq(Int),
         printed' \in {"none", "done"} \cup Failures,
         faults' \in 0 .. MaxFaults, resend' \subseteq BOOLEAN,
         zeros' \in BOOLEAN, inSync' \in BOOLEAN, applied' \in Int
  PROVE  TypeOK'
BY DEF TypeOK

\* A step that leaves the device, the loop and the history alone.
LEMMA StopTyped ==
  ASSUME TypeOK, UNCHANGED <<devVars, job, addr, left, cnt, out, resend, foreign, history>>,
         pc' \in Places, ret' \in {"ok", "error"},
         printed' \in {"none", "done"} \cup Failures,
         buff' \in {"unset", "null", "dangling"}, faults' \in 0 .. MaxFaults
  PROVE  TypeOK'
<1>1. DevTypeOK'
  BY DevUntouched DEF TypeOK
<1>2. QED
  BY <1>1, Rest DEF TypeOK, history

LEMMA StopsTyped ==
  ASSUME TypeOK,
         \/ OpenFails \/ DoArpmb \/ ReadEnds \/ ReadOutOfMemory \/ WriteEnds
         \/ WriteGivesUp
  PROVE  TypeOK'
<1>1. UNCHANGED <<devVars, job, addr, left, cnt, out, resend, foreign, history>>
  BY DEF OpenFails, DoArpmb, ReadEnds, ReadOutOfMemory, WriteEnds, WriteGivesUp,
         loopVars
<1>2. faults' \in 0 .. MaxFaults
  BY LimitsAssumption
  DEF OpenFails, DoArpmb, ReadEnds, ReadOutOfMemory, WriteEnds, WriteGivesUp,
      Fault, TypeOK
<1>3. buff' \in {"unset", "null", "dangling"}
  BY DEF OpenFails, DoArpmb, ReadEnds, ReadOutOfMemory, WriteEnds, WriteGivesUp,
         loopVars, TypeOK
<1>4. /\ pc' \in Places /\ ret' \in {"ok", "error"}
      /\ printed' \in {"none", "done"} \cup Failures
  BY DEF OpenFails, DoArpmb, ReadEnds, ReadOutOfMemory, WriteEnds, WriteGivesUp,
         Exit, Returned, Begun, Places, TypeOK
<1>5. QED
  BY <1>1, <1>2, <1>3, <1>4, StopTyped

LEMMA DoKeyTyped ==
  ASSUME TypeOK, DoKey
  PROVE  TypeOK'
<1>1. KeyRequest \in Requests
  BY QueriesTyped
<1>2. DevTypeOK' /\ faults' \in 0 .. MaxFaults
  BY <1>1, AnsweredTyped, FailedTyped DEF DoKey
<1>3. /\ pc' \in Places /\ ret' \in {"ok", "error"}
      /\ printed' \in {"none", "done"} \cup Failures
  BY <1>1, <1>2, OutcomeTyped DEF DoKey, Exit, Places
<1>4. UNCHANGED <<job, addr, left, cnt, buff, out, resend, foreign, zeros, inSync,
                applied>>
  BY DEF DoKey, loopVars, history
<1>5. QED
  BY <1>2, <1>3, <1>4, Rest DEF TypeOK

LEMMA DoReadCounterTyped ==
  ASSUME TypeOK, DoReadCounter
  PROVE  TypeOK'
<1>1. CounterRequest \in Requests
  BY QueriesTyped
<1>2. DevTypeOK' /\ faults' \in 0 .. MaxFaults
  BY <1>1, AnsweredTyped, FailedTyped DEF DoReadCounter
<1>3. resp'[job.region].counter \in Nat
  BY <1>2, JobParts DEF DevTypeOK, Answers
<1>4. cnt' \in Nat /\ inSync' \in BOOLEAN
  BY <1>3 DEF DoReadCounter, TypeOK
<1>5. /\ pc' \in Places /\ ret' \in {"ok", "error"}
      /\ printed' \in {"none", "done"} \cup Failures
  BY <1>1, <1>2, OutcomeTyped DEF DoReadCounter, Begun, Exit, Places, TypeOK
<1>6. UNCHANGED <<job, addr, left, buff, out, foreign, zeros, applied>> /\ resend' = {}
  BY DEF DoReadCounter
<1>7. QED
  BY <1>2, <1>4, <1>5, <1>6, Rest DEF TypeOK

LEMMA ReadChunkTyped ==
  ASSUME TypeOK, ReadChunk
  PROVE  TypeOK'
<1>1. ~ LoopOver /\ ReadRequest \in Requests
  BY ReadRequestTyped DEF ReadChunk
<1>2. DevTypeOK' /\ faults' \in 0 .. MaxFaults
  <2>1. DevExecute(ReadRequest) => DevTypeOK'
    BY <1>1, ExecuteTyped DEF TypeOK
  <2>2. Fault \/ UNCHANGED faults => faults' \in 0 .. MaxFaults
    BY LimitsAssumption DEF Fault, TypeOK
  <2>3. QED
    BY <1>1, <2>1, <2>2, FailedTyped DEF ReadChunk, Answered
<1>3. resp'[job.region].blocks \in Seq(Int)
  BY <1>2, JobParts DEF DevTypeOK, Answers
<1>4. out \in Seq(Int)
  BY DEF TypeOK
<1>5. out' \in Seq(Int)
  <2>1. ASSUME NEW s \in Seq(Int), NEW k \in 0 .. Len(s) - 1
        PROVE  SubSeq(s, 1, k) \in Seq(Int)
    BY <2>1
  <2>2. CASE \E k \in 0 .. Len(resp'[job.region].blocks) - 1 :
               out' = out \o SubSeq(resp'[job.region].blocks, 1, k)
    <3>1. PICK k \in 0 .. Len(resp'[job.region].blocks) - 1 :
                 out' = out \o SubSeq(resp'[job.region].blocks, 1, k)
      BY <2>2
    <3>2. SubSeq(resp'[job.region].blocks, 1, k) \in Seq(Int)
      BY <1>3, <2>1
    <3>3. QED
      BY <1>4, <3>1, <3>2
  <2>3. CASE out' = out \o resp'[job.region].blocks
    BY <1>3, <1>4, <2>3
  <2>4. CASE out' = out
    BY <1>4, <2>4
  <2>5. QED
    BY <2>2, <2>3, <2>4 DEF ReadChunk
<1>6. /\ addr' \in Int /\ addr' >= NotGiven
      /\ left' \in Int /\ (left' < 0 => left' = job.num)
  BY <1>1, ChunkTyped DEF ReadChunk, NextChunk, TypeOK, NotGiven
<1>7. /\ pc' \in Places /\ ret' \in {"ok", "error"}
      /\ printed' \in {"none", "done"} \cup Failures
  BY <1>1, <1>2, OutcomeTyped DEF ReadChunk, Exit, Places, TypeOK
<1>8. UNCHANGED <<job, cnt, buff, foreign, zeros, inSync, applied>> /\ resend' = {}
  BY DEF ReadChunk, history
<1>9. QED
  BY <1>2, <1>5, <1>6, <1>7, <1>8, Rest DEF TypeOK

LEMMA WriteChunkTyped ==
  ASSUME TypeOK, NEW zero \in BOOLEAN, WriteChunk(zero)
  PROVE  TypeOK'
<1> DEFINE f == WriteRequest(Mac(zero))
<1>1. ~ LoopOver /\ f \in Requests
  BY WriteRequestTyped DEF WriteChunk
<1>2. DevTypeOK' /\ faults' \in 0 .. MaxFaults
  BY <1>1, AnsweredTyped, FailedTyped DEF WriteChunk
<1>3. /\ addr' \in Int /\ addr' >= NotGiven
      /\ left' \in Int /\ (left' < 0 => left' = job.num)
  BY <1>1, ChunkTyped DEF WriteChunk, NextChunk, TypeOK, NotGiven
<1>4. cnt' \in Nat
  BY DEF WriteChunk, NextCounter, TypeOK
<1>5. /\ pc' \in Places /\ ret' \in {"ok", "error"}
      /\ printed' \in {"none", "done"} \cup Failures
  BY <1>1, <1>2, OutcomeTyped DEF WriteChunk, Exit, Places, TypeOK
<1>6. applied' \in Int
  <2>1. f.first \in Int /\ f.count \in Nat
    BY <1>1 DEF Requests
  <2>2. QED
    BY <2>1 DEF WriteChunk, NoteApplied, TypeOK
<1>7. /\ buff' \in {"unset", "null", "dangling"} /\ zeros' \in BOOLEAN
      /\ UNCHANGED <<job, out, foreign, inSync>>
      /\ resend' \in {resend, {}}
  BY DEF WriteChunk, Freed
<1>8. QED
  BY <1>2, <1>3, <1>4, <1>5, <1>6, <1>7, Rest DEF TypeOK

LEMMA SentTyped ==
  ASSUME TypeOK, Calling, NEW zero \in BOOLEAN
  PROVE  Sent(zero) \in Requests
BY QueriesTyped, ReadRequestTyped, WriteRequestTyped DEF Calling, Sent

LEMMA InterruptedTyped ==
  ASSUME TypeOK, NEW zero \in BOOLEAN, Interrupted(zero)
  PROVE  TypeOK'
<1> DEFINE f == Sent(zero)
<1>1. f \in Requests
  BY SentTyped DEF Interrupted
<1>2. DevTypeOK' /\ faults' \in 0 .. MaxFaults
  BY <1>1, FailedTyped DEF Interrupted, Failed
<1>3. applied' \in Int
  <2>1. f.first \in Int /\ f.count \in Nat
    BY <1>1 DEF Requests
  <2>2. applied' = f.first + f.count - 1 \/ applied' = applied
    BY DEF Interrupted, NoteApplied
  <2>3. applied \in Int
    BY DEF TypeOK
  <2>4. QED
    BY <2>1, <2>2, <2>3
<1>4. resend' \subseteq BOOLEAN /\ zeros' \in BOOLEAN
  BY DEF Interrupted
<1>5. UNCHANGED <<job, pc, ret, addr, left, cnt, buff, out, printed, foreign, inSync>>
  BY DEF Interrupted
<1>6. QED
  BY <1>2, <1>3, <1>4, <1>5, Rest DEF TypeOK

LEMMA OthersTyped ==
  ASSUME TypeOK, ForeignWrite \/ PurgeEnds
  PROVE  TypeOK'
<1>1. UNCHANGED <<toolVars, faults, history>>
  BY DEF ForeignWrite, PurgeEnds
<1>2. foreign' \in 0 .. MaxForeign
  BY LimitsAssumption DEF ForeignWrite, PurgeEnds, TypeOK
<1>3. DevTypeOK'
  BY PurgeEndsTyped, ForeignWriteTyped DEF ForeignWrite, PurgeEnds, TypeOK
<1>4. QED
  BY <1>1, <1>2, <1>3 DEF TypeOK, toolVars, loopVars, history

LEMMA NextTyped == TypeOK /\ [Next]_vars => TypeOK'
<1> SUFFICES ASSUME TypeOK, [Next]_vars PROVE TypeOK'
  OBVIOUS
<1>1. CASE UNCHANGED vars
  <2>1. DevTypeOK'
    BY <1>1, DevUntouched DEF vars, TypeOK
  <2>2. QED
    BY <1>1, <2>1 DEF TypeOK, vars, toolVars, loopVars, history
<1>2. CASE \/ OpenFails \/ DoArpmb \/ ReadEnds \/ ReadOutOfMemory \/ WriteEnds
           \/ WriteGivesUp
  BY <1>2, StopsTyped
<1>3. CASE DoKey
  BY <1>3, DoKeyTyped
<1>4. CASE DoReadCounter
  BY <1>4, DoReadCounterTyped
<1>5. CASE ReadChunk
  BY <1>5, ReadChunkTyped
<1>6. CASE \E zero \in BOOLEAN : WriteChunk(zero) \/ Interrupted(zero)
  BY <1>6, WriteChunkTyped, InterruptedTyped
<1>7. CASE ForeignWrite \/ PurgeEnds
  BY <1>7, OthersTyped
<1>8. QED
  BY <1>1, <1>2, <1>3, <1>4, <1>5, <1>6, <1>7 DEF Next, ToolNext, Terminating

LEMMA JobTyped ==
  ASSUME Init
  PROVE  /\ job \in Jobs /\ job.start >= NotGiven
         /\ job.num \in Nat \cup {NotGiven}
         /\ Writing => job.start \in Nat /\ job.num \in Nat
<1>1. PICK o \in CommandLines : job = Verified(o)
  BY DEF Init
<1>2. /\ o.cmd \in AllCommands /\ o.region \in Regions
      /\ o.key \in Keys \cup {NoKey}
      /\ o.start \in Nat \cup {NotGiven} /\ o.num \in Nat \cup {NotGiven}
      /\ o.file \in Nat /\ o.geometry \in Nat \cup {NotGiven}
  <2>1. /\ o.cmd \in Commands /\ o.region \in Regions
        /\ o.key \in Keys \cup {NoKey} /\ o.start \in StartBlocks
        /\ o.num \in BlockCounts /\ o.file \in FileBlocks
        /\ o.geometry \in Geometries
    BY DEF CommandLines
  <2>2. QED
    BY <2>1, CommandsAssumption, OptionsAssumption
<1>3. /\ Default(o.num, 1) \in Nat /\ Default(o.start, 0) \in Nat
      /\ o.num \in Int /\ o.start \in Int
  BY <1>2 DEF Default, NotGiven
<1>4. CASE o.cmd = "WRITE_RPMB"
  <2>1. /\ job.cmd = o.cmd /\ job.region = o.region /\ job.key = o.key
        /\ job.start = Default(o.start, 0) /\ job.num = Default(o.num, 1)
    BY <1>1, <1>4 DEF Verified, CommandLines
  <2>2. job \in Jobs
    <3>1. o \in Jobs
      BY <1>2, <1>3 DEF Jobs, CommandLines
    <3>2. Default(o.num, 1) \in Int /\ Default(o.start, 0) \in Int
      BY <1>3
    <3>3. QED
      BY <1>1, <3>1, <3>2 DEF Verified, Jobs
  <2>3. QED
    BY <1>3, <2>1, <2>2 DEF NotGiven
<1>5. CASE o.cmd # "WRITE_RPMB"
  <2>1. job = o
    BY <1>1, <1>5 DEF Verified
  <2>2. job \in Jobs
    BY <1>2, <1>3, <2>1 DEF Jobs, CommandLines
  <2>3. QED
    BY <1>2, <1>5, <2>1, <2>2 DEF NotGiven, Writing
<1>6. QED
  BY <1>4, <1>5

LEMMA InitTyped == Init => TypeOK
<1> SUFFICES ASSUME Init PROVE TypeOK
  OBVIOUS
<1>1. DevTypeOK
  BY DevInitTyped DEF Init
<1>2. job \in Jobs /\ job.start \in Int /\ job.start >= NotGiven /\ job.num \in Int
  BY JobTyped DEF Jobs
<1>3. /\ pc = "start" /\ ret = "error" /\ printed = "none" /\ addr = job.start
      /\ left = job.num /\ cnt = 0 /\ buff = "unset" /\ out = << >>
      /\ resend = {} /\ faults = 0 /\ foreign = 0 /\ zeros = TRUE /\ inSync = FALSE
      /\ applied = 0
  BY DEF Init
<1>4. pc \in Places /\ out \in Seq(Int)
  BY <1>3 DEF Places
<1>5. faults \in 0 .. MaxFaults /\ foreign \in 0 .. MaxForeign
  BY <1>3, LimitsAssumption
<1>6. /\ addr \in Int /\ addr >= NotGiven /\ left \in Int /\ left = job.num
      /\ cnt \in Nat /\ applied \in Int
  BY <1>2, <1>3
<1>7. /\ zeros \in BOOLEAN /\ inSync \in BOOLEAN /\ ret \in {"ok", "error"}
      /\ buff \in {"unset", "null", "dangling"} /\ resend \subseteq BOOLEAN
      /\ printed \in {"none", "done"} \cup Failures
  BY <1>3
<1>8. QED
  BY <1>1, <1>2, <1>4, <1>5, <1>6, <1>7 DEF TypeOK

\* Every variable of the tool and of the device stays in its type, for all
\* values of the constants; the block loops never pass zero.
THEOREM TypeCorrect == Spec => []TypeOK
<1>1. QED
  BY InitTyped, NextTyped, PTL DEF Spec

-----------------------------------------------------------------------------
(* The bookkeeping of a write                                              *)

\* A step that stores nothing and moves no counter.
LEMMA Quiet ==
  ASSUME IInv, UNCHANGED <<job, data, counter, addr, left, cnt, foreign,
                         inSync, applied>>,
         \/ pc' \in {"exit", "crashed"}
         \/ pc' = pc /\ pc # "write"
         \/ /\ pc' = pc /\ UNCHANGED <<key, resend>>
            /\ purge'[job.region] \in {purge[job.region], "done"}
  PROVE  LoopInv' /\ PrefixOnly' /\ CountersAgree'
<1>1. Repeating /\ pc' = "write" => Repeating'
  BY DEF Repeating, Done, Chunk, MaxBlocks, Writing, LoopOver, Wire, Mac
<1>2. LoopInv'
  BY <1>1 DEF IInv, LoopInv, Writing, Done
<1>3. PrefixOnly'
  BY DEF IInv, PrefixOnly, Writing, Here, Earlier
<1>4. CountersAgree'
  <2> SUFFICES ASSUME Writing, inSync, foreign = 0
               PROVE  IF pc' = "write" /\ resend' = {}
                        THEN counter[job.region] = cnt /\ applied = Done
                        ELSE counter[job.region] - cnt =
                               IF applied = Done THEN 0 ELSE 1
    BY DEF CountersAgree, Writing, Done
  <2>1. counter[job.region] \in Int /\ cnt \in Int
    BY JobParts, BoundsAssumption DEF IInv, TypeOK, DevTypeOK
  <2>2. QED
    BY <2>1 DEF IInv, CountersAgree
<1>5. QED
  BY <1>2, <1>3, <1>4

\* Nothing is claimed of a run that is not a write.
LEMMA NotWriting ==
  ASSUME ~ Writing, job' = job
  PROVE  LoopInv' /\ PrefixOnly' /\ CountersAgree'
BY DEF Writing, LoopInv, PrefixOnly, CountersAgree

LEMMA EndingLoop ==
  ASSUME IInv, OpenFails \/ ReadEnds \/ ReadOutOfMemory \/ WriteEnds \/ WriteGivesUp
  PROVE  LoopInv' /\ PrefixOnly' /\ CountersAgree'
<1>1. pc' \in {"exit", "crashed"}
  BY DEF OpenFails, ReadEnds, ReadOutOfMemory, WriteEnds, WriteGivesUp,
         Returned, Exit
<1>2. UNCHANGED <<job, data, counter, addr, left, cnt, foreign, inSync, applied>>
  BY DEF OpenFails, ReadEnds, ReadOutOfMemory, WriteEnds, WriteGivesUp,
         loopVars, history, devVars
<1>3. QED
  BY <1>1, <1>2, Quiet

\* Only a write is in the write loop, and a write is in no other.
LEMMA ReadingLoop ==
  ASSUME IInv, ReadChunk
  PROVE  LoopInv' /\ PrefixOnly' /\ CountersAgree'
<1>1. pc = "read" /\ job' = job
  BY DEF ReadChunk
<1>2. ~ Writing
  BY <1>1 DEF IInv, LoopInv
<1>3. QED
  BY <1>1, <1>2, NotWriting

LEMMA DoKeyLoop ==
  ASSUME IInv, DoKey
  PROVE  LoopInv' /\ PrefixOnly' /\ CountersAgree'
<1>1. pc = "key" /\ job' = job
  BY DEF DoKey
<1>2. ~ Writing
  BY <1>1 DEF IInv, LoopInv
<1>3. QED
  BY <1>1, <1>2, NotWriting

LEMMA DoArpmbLoop ==
  ASSUME IInv, DoArpmb
  PROVE  LoopInv' /\ PrefixOnly' /\ CountersAgree'
<1>1. UNCHANGED <<job, data, counter, addr, left, cnt, foreign, inSync, applied>>
  BY DEF DoArpmb, loopVars, history, devVars
<1>2. CASE ~ Writing
  BY <1>1, <1>2, NotWriting
<1>3. CASE Writing
  <2>1. pc = "start" /\ pc' = "counter"
    BY <1>3 DEF DoArpmb, Writing, Reading
  <2>2. ~ inSync /\ applied = 0 /\ left = job.num
    BY <1>3, <2>1 DEF IInv, LoopInv
  <2>3. LoopInv'
    BY <1>1, <1>3, <2>1, <2>2 DEF IInv, LoopInv, Writing, Done
  <2>4. PrefixOnly'
    BY <1>1 DEF IInv, PrefixOnly, Writing, Here, Earlier
  <2>5. CountersAgree'
    BY <1>1, <2>2 DEF CountersAgree
  <2>6. QED
    BY <2>3, <2>4, <2>5
<1>4. QED
  BY <1>2, <1>3

LEMMA DoReadCounterLoop ==
  ASSUME IInv, DoReadCounter
  PROVE  LoopInv' /\ PrefixOnly' /\ CountersAgree'
<1>1. UNCHANGED <<data, counter>>
  <2>1. CounterRequest.req = "READ_CNT"
    BY DEF CounterRequest, Request
  <2>2. DevExecute(CounterRequest) => UNCHANGED <<data, counter>>
    BY <2>1, ExecuteQuery
  <2>3. QED
    BY <2>2 DEF DoReadCounter, Answered, Failed, devVars
<1>2. UNCHANGED <<job, addr, left, foreign, applied>> /\ pc = "counter"
  BY DEF DoReadCounter
<1>3. CASE ~ Writing
  BY <1>2, <1>3, NotWriting
<1>4. CASE Writing
  <2>1. /\ ~ inSync /\ applied = 0 /\ left = job.num /\ job.num \in Nat
        /\ Done = 0
    BY <1>2, <1>4 DEF IInv, LoopInv, Done
  <2>2. pc' \in {"write", "exit"}
    BY <1>4 DEF DoReadCounter, Begun, Exit
  <2>3. inSync' => cnt' = counter[job.region] /\ pc' = "write" /\ resend' = {}
    BY <1>4, <2>1 DEF DoReadCounter, Begun
  <2>4. Done' = 0 /\ applied' = 0
    BY <1>2, <2>1 DEF Done
  <2>5. LoopInv'
    BY <1>2, <1>4, <2>1, <2>2, <2>4 DEF IInv, LoopInv, Writing
  <2>6. PrefixOnly'
    BY <1>1, <1>2 DEF IInv, PrefixOnly, Writing, Here, Earlier
  <2>7. CountersAgree'
    BY <1>1, <1>2, <2>3, <2>4 DEF CountersAgree
  <2>8. QED
    BY <2>5, <2>6, <2>7
<1>5. QED
  BY <1>3, <1>4

\* What a write request says, in the loop.
LEMMA WriteFacts ==
  ASSUME IInv, Writing, pc = "write", ~ LoopOver, NEW zero \in BOOLEAN
  PROVE  LET f == WriteRequest(Mac(zero)) IN
         /\ f \in Requests /\ f.req = "WRITE" /\ f.region = job.region
         /\ f.counter = cnt /\ f.addr = addr /\ f.count = Chunk
         /\ f.first = Done + 1 /\ f.mac = Mac(zero) /\ Wire(addr) = addr
         /\ job.num \in Nat /\ left \in 1 .. job.num /\ job.start \in Nat
         /\ addr = job.start + Done /\ addr <= MaxAddr /\ job.region \in Regions
         /\ Chunk \in Nat /\ Chunk > 0 /\ Chunk <= left
         /\ Done \in Nat /\ cnt \in Nat
<1> DEFINE f == WriteRequest(Mac(zero))
<1>1. TypeOK
  BY DEF IInv
<1>2. /\ job.num \in Nat /\ left \in 1 .. job.num /\ job.start \in Nat
      /\ addr = job.start + Done /\ addr <= MaxAddr /\ job.region \in Regions
      /\ Chunk \in Nat /\ Chunk > 0 /\ Chunk <= left
      /\ Done \in Nat /\ cnt \in Nat
  BY <1>1, ChunkTyped, JobParts DEF IInv, LoopInv, TypeOK, Done
<1>3. Wire(addr) = addr
  BY <1>2, WireTyped, BoundsAssumption DEF NotGiven
<1>4. /\ f.req = "WRITE" /\ f.region = job.region /\ f.counter = cnt
      /\ f.addr = addr /\ f.count = Chunk /\ f.first = Done + 1
      /\ f.mac = Mac(zero)
  BY <1>3 DEF WriteRequest, Request
<1>5. f \in Requests
  BY <1>1, WriteRequestTyped
<1>6. QED
  BY <1>2, <1>3, <1>4, <1>5

\* What a write request changes, it changes as the next chunk: it had not been
\* stored before, and every check of the device let it pass.
LEMMA ChunkStored ==
  ASSUME IInv, Writing, pc = "write", ~ LoopOver, NEW zero \in BOOLEAN,
         SameFrame(zero), DevExecute(WriteRequest(Mac(zero))),
         NoteApplied(WriteRequest(Mac(zero))), ~ UNCHANGED <<data, counter>>
  PROVE  /\ applied = Done /\ applied' = Done + Chunk
         /\ counter[job.region] = cnt /\ counter'[job.region] = cnt + 1
         /\ data' = AfterWrite(WriteRequest(Mac(zero)))
         /\ key[job.region] = Mac(zero) /\ key[job.region] # NoKey
         /\ purge[job.region] # "running" /\ Wire(addr) + Chunk - 1 <= MaxAddr
<1> DEFINE f == WriteRequest(Mac(zero))
           r == job.region
<1>1. /\ f \in Requests /\ f.req = "WRITE" /\ f.region = r /\ f.counter = cnt
      /\ f.addr = addr /\ f.count = Chunk /\ f.first = Done + 1
      /\ f.mac = Mac(zero) /\ Wire(addr) = addr
      /\ Chunk \in Nat /\ Done \in Nat /\ cnt \in Nat
  BY WriteFacts
<1>2. DevTypeOK
  BY DEF IInv, TypeOK
<1>3. /\ counter[r] = cnt /\ counter'[r] = cnt + 1 /\ counter' # counter
      /\ data' = AfterWrite(f)
  BY <1>1, <1>2, ExecuteWrite
<1>4. applied = Done
  BY <1>1, <1>3 DEF IInv, LoopInv, Repeating
<1>5. applied' = Done + Chunk
  BY <1>1, <1>3 DEF NoteApplied
<1>6. DevWrite(f)
  BY <1>1 DEF DevExecute, DevWriteKey, DevConfWrite, DevReadResult,
              DevReadCounter, DevRead, DevConfRead, DevPurgeEnable, DevPurgeStatus
<1>7. Objections(f) = {}
  BY <1>3, <1>6 DEF DevWrite, Refuse, Accepted
<1>8. /\ key[r] = Mac(zero) /\ key[r] # NoKey
      /\ purge[r] # "running" /\ ~ (Wire(addr) + Chunk - 1 > MaxAddr)
  BY <1>1, <1>7 DEF Objections, Failures
<1>9. Wire(addr) + Chunk - 1 <= MaxAddr
  <2>1. Wire(addr) \in Int /\ MaxAddr \in Int
    BY <1>1, BoundsAssumption DEF IInv, TypeOK
  <2>2. QED
    BY <1>1, <1>8, <2>1
<1>10. QED
  BY <1>3, <1>4, <1>5, <1>8, <1>9

\* The prefix grows by the chunk.
LEMMA PrefixGrows ==
  ASSUME IInv, Writing, pc = "write", ~ LoopOver, NEW zero \in BOOLEAN,
         data' = AfterWrite(WriteRequest(Mac(zero))), job' = job,
         applied = Done, applied' = Done + Chunk
  PROVE  PrefixOnly'
<1> DEFINE f == WriteRequest(Mac(zero))
           r == job.region
<1>1. /\ f.region = r /\ f.addr = addr /\ f.count = Chunk /\ f.first = Done + 1
      /\ job.start \in Nat /\ addr = job.start + Done /\ r \in Regions
      /\ Chunk \in Nat /\ Chunk > 0 /\ Done \in Nat
  BY WriteFacts
<1>2. data \in [Regions -> [Addrs -> Int]]
  BY DEF IInv, TypeOK, DevTypeOK
<1> SUFFICES ASSUME NEW a \in Addrs
             PROVE  data'[r][a] \in
                      {Foreign,
                       IF a \in job.start .. (job.start + Done + Chunk - 1)
                         THEN a - job.start + 1 ELSE Earlier(r, a)}
  BY <1>1 DEF PrefixOnly, Here, Earlier
<1>3. data[r][a] \in
        {Foreign, IF a \in job.start .. (job.start + Done - 1)
                    THEN a - job.start + 1 ELSE Earlier(r, a)}
  BY DEF IInv, PrefixOnly, Here
<1>4. data'[r][a] = IF a \in addr .. (addr + Chunk - 1)
                      THEN Done + 1 + (a - addr) ELSE data[r][a]
  BY <1>1, <1>2 DEF AfterWrite, Stored
<1>5. a \in Int
  BY DEF Addrs
<1>6. CASE a \in addr .. (addr + Chunk - 1)
  BY <1>1, <1>4, <1>5, <1>6
<1>7. CASE a \notin addr .. (addr + Chunk - 1)
  <2>1. a \in job.start .. (job.start + Done - 1) <=>
        a \in job.start .. (job.start + Done + Chunk - 1)
    BY <1>1, <1>5, <1>7
  <2>2. QED
    BY <1>3, <1>4, <1>7, <2>1
<1>8. QED
  BY <1>6, <1>7

\* The next chunk of a write: what is stored is the blocks the tool counts.
LEMMA WriteChunkLoop ==
  ASSUME IInv, NEW zero \in BOOLEAN, WriteChunk(zero)
  PROVE  LoopInv' /\ PrefixOnly' /\ CountersAgree'
<1> DEFINE f == WriteRequest(Mac(zero))
           r == job.region
<1>1. /\ TypeOK /\ DevTypeOK /\ ~ LoopOver /\ f \in Requests /\ r \in Regions
      /\ pc = "write" /\ UNCHANGED <<job, foreign, inSync>>
  BY WriteRequestTyped, JobParts DEF WriteChunk, IInv, TypeOK
<1>2. CASE ~ Writing
  BY <1>1, <1>2, NotWriting
<1>3. CASE Writing
  <2>1. /\ job.num \in Nat /\ left \in 1 .. job.num /\ job.start \in Nat
        /\ addr = job.start + Done /\ addr <= MaxAddr
        /\ Chunk \in Nat /\ Chunk > 0 /\ Chunk <= left
        /\ Done \in Nat /\ cnt \in Nat /\ f.req = "WRITE"
    BY <1>1, <1>3, WriteFacts
  <2>2. \/ /\ pc' = "write" /\ NextChunk /\ cnt' = cnt + 1 /\ resend' = {}
           /\ Answered(f) /\ Fine(f)
        \/ pc' = "exit" /\ UNCHANGED <<addr, left, cnt>>
    BY <1>1 DEF WriteChunk, NextCounter, Exit
  <2>3. CASE UNCHANGED <<data, counter>>
    <3>1. ~ (Answered(f) /\ Fine(f))
      BY <1>1, <2>1, <2>3, WriteAnswer DEF Answered
    <3>2. pc' = "exit" /\ UNCHANGED <<addr, left, cnt>>
      BY <2>2, <3>1
    <3>3. applied' = applied
      BY <2>3 DEF WriteChunk, NoteApplied
    <3>4. QED
      BY <1>1, <2>3, <3>2, <3>3, Quiet
  <2>4. CASE ~ UNCHANGED <<data, counter>>
    <3>1. DevExecute(f)
      BY <2>4 DEF WriteChunk, Answered, Failed, devVars
    <3>2. /\ applied = Done /\ applied' = Done + Chunk
          /\ counter[r] = cnt /\ counter'[r] = cnt + 1
          /\ data' = AfterWrite(f)
      BY <1>1, <1>3, <2>4, <3>1, ChunkStored DEF WriteChunk
    <3>3. \/ /\ pc' = "write" /\ left' = left - Chunk /\ addr' = addr + Chunk
             /\ cnt' = cnt + 1 /\ Done' = Done + Chunk
          \/ pc' = "exit" /\ UNCHANGED <<addr, left, cnt>> /\ Done' = Done
      <4>1. Done' = job.num - left' /\ Done = job.num - left
        BY <1>1 DEF Done
      <4>2. QED
        BY <2>1, <2>2, <4>1 DEF NextChunk
    <3>4. LoopInv'
      BY <1>1, <1>3, <2>1, <3>2, <3>3 DEF LoopInv, Writing
    <3>5. CountersAgree'
      BY <1>1, <2>1, <3>2, <3>3 DEF CountersAgree
    <3>6. PrefixOnly'
      BY <1>1, <1>3, <3>2, PrefixGrows
    <3>7. QED
      BY <3>4, <3>5, <3>6
  <2>5. QED
    BY <2>3, <2>4
<1>4. QED
  BY <1>2, <1>3

\* An interrupted command: only a chunk stores anything, and only once.
LEMMA InterruptedLoop ==
  ASSUME IInv, NEW zero \in BOOLEAN, Interrupted(zero)
  PROVE  LoopInv' /\ PrefixOnly' /\ CountersAgree'
<1> DEFINE f == WriteRequest(Mac(zero))
           r == job.region
<1>1. /\ Calling /\ TypeOK /\ DevTypeOK /\ r \in Regions
      /\ UNCHANGED <<job, pc, addr, left, cnt, foreign, inSync>>
      /\ resend \subseteq {zero} /\ resend' = {zero}
      /\ DevExecute(Sent(zero)) /\ NoteApplied(Sent(zero))
  BY JobParts DEF Interrupted, IInv, TypeOK, SameFrame
<1>2. CASE ~ Writing
  BY <1>1, <1>2, NotWriting
<1>3. CASE Writing /\ pc # "write"
  <2>1. pc = "counter"
    BY <1>1, <1>3 DEF Calling, IInv, LoopInv
  <2>2. Sent(zero) = CounterRequest /\ CounterRequest.req = "READ_CNT"
    BY <2>1 DEF Sent, CounterRequest, Request
  <2>3. UNCHANGED <<data, counter>>
    BY <1>1, <2>2, ExecuteQuery
  <2>4. applied' = applied
    BY <1>1, <2>3 DEF NoteApplied
  <2>5. QED
    BY <1>1, <1>3, <2>3, <2>4, Quiet
<1>4. CASE Writing /\ pc = "write"
  <2>1. Sent(zero) = f /\ ~ LoopOver
    BY <1>1, <1>4 DEF Sent, Calling
  <2>2. /\ f.req = "WRITE" /\ Done \in Nat /\ Chunk \in Nat /\ Chunk > 0
        /\ cnt \in Nat
    BY <1>4, <2>1, WriteFacts
  <2>3. Done' = Done /\ Chunk' = Chunk /\ (LoopOver' <=> LoopOver) /\ Writing'
    BY <1>1, <1>4 DEF Done, Chunk, MaxBlocks, LoopOver, Writing
  <2>4. UNCHANGED <<key, purge>>
    BY <1>1, <2>1, <2>2, ExecuteKeeps
  <2>5. CASE UNCHANGED <<data, counter>>
    <3>1. applied' = applied
      BY <1>1, <2>5 DEF NoteApplied
    <3>2. CASE resend = resend'
      BY <1>1, <2>4, <2>5, <3>1, <3>2, Quiet
    <3>3. CASE resend # resend'
      <4>1. resend = {} /\ applied = Done
        BY <1>1, <1>4, <3>3 DEF IInv, LoopInv, Repeating
      <4>2. LoopInv'
        BY <1>1, <1>4, <2>3, <3>1, <4>1 DEF IInv, LoopInv
      <4>3. PrefixOnly'
        BY <1>1, <2>5, <3>1 DEF IInv, PrefixOnly, Writing, Here, Earlier
      <4>4. CountersAgree'
        BY <1>1, <1>4, <2>2, <2>3, <2>5, <3>1, <4>1
        DEF IInv, CountersAgree, Writing
      <4>5. QED
        BY <4>2, <4>3, <4>4
    <3>4. QED
      BY <3>2, <3>3
  <2>6. CASE ~ UNCHANGED <<data, counter>>
    <3>1. /\ applied = Done /\ applied' = Done + Chunk
          /\ counter[r] = cnt /\ counter'[r] = cnt + 1 /\ data' = AfterWrite(f)
          /\ key[r] = Mac(zero) /\ key[r] # NoKey
          /\ purge[r] # "running" /\ Wire(addr) + Chunk - 1 <= MaxAddr
      BY <1>1, <1>4, <2>1, <2>6, ChunkStored DEF SameFrame
    <3>2. Repeating'
      <4>1. Mac(zero)' = Mac(zero) /\ Wire(addr)' = Wire(addr)
        BY <1>1 DEF Mac, Wire
      <4>2. counter'[r] > cnt
        BY <2>2, <3>1
      <4>3. \A z \in {zero} : key[r] = Mac(z)'
        BY <3>1, <4>1
      <4>4. QED
        BY <1>1, <2>1, <2>3, <2>4, <3>1, <4>1, <4>2, <4>3 DEF Repeating, Mac
    <3>3. LoopInv'
      BY <1>1, <1>4, <2>3, <3>2 DEF IInv, LoopInv
    <3>4. PrefixOnly'
      BY <1>1, <1>4, <2>1, <3>1, PrefixGrows
    <3>5. CountersAgree'
      BY <1>1, <2>2, <2>3, <3>1 DEF CountersAgree
    <3>6. QED
      BY <3>3, <3>4, <3>5
  <2>7. QED
    BY <2>5, <2>6
<1>5. QED
  BY <1>2, <1>3, <1>4

\* Another host changes single blocks, to what no input file holds.
LEMMA ForeignBlocks ==
  ASSUME TypeOK, ForeignWrite, NEW b \in Addrs
  PROVE  Here'[b] \in {Foreign, Here[b]}
<1>1. PICK r \in Regions, a \in Addrs : data' = [data EXCEPT ![r][a] = Foreign]
  BY DEF ForeignWrite, DevForeignWrite
<1>2. data \in [Regions -> [Addrs -> Int]] /\ job.region \in Regions
  BY JobParts DEF TypeOK, DevTypeOK
<1>3. Here' = data'[job.region]
  BY DEF ForeignWrite, toolVars, Here
<1>4. data'[job.region][b] \in {Foreign, data[job.region][b]}
  <2>1. CASE job.region # r
    <3>1. data'[job.region] = data[job.region]
      BY <1>1, <1>2, <2>1
    <3>2. QED
      BY <3>1
  <2>2. CASE job.region = r
    <3>1. data'[r] = [data[r] EXCEPT ![a] = Foreign]
      BY <1>1, <1>2
    <3>2. data[r] \in [Addrs -> Int]
      BY <1>2
    <3>3. QED
      BY <2>2, <3>1, <3>2
  <2>3. QED
    BY <2>1, <2>2
<1>5. QED
  BY <1>3, <1>4 DEF Here

\* Another host's write only moves the counter further.
LEMMA ForeignRepeating ==
  ASSUME TypeOK, Repeating, ForeignWrite
  PROVE  Repeating'
<1>1. UNCHANGED <<job, addr, left, cnt, applied, resend>>
  BY DEF ForeignWrite, toolVars, loopVars, history
<1>2. PICK r \in Regions :
        /\ counter' = [counter EXCEPT ![r] = @ + 1]
        /\ UNCHANGED <<key, purge>>
  BY DEF ForeignWrite, DevForeignWrite
<1>3. counter'[job.region] > cnt
  <2>1. /\ counter \in [Regions -> 0 .. CounterMax] /\ job.region \in Regions
        /\ CounterMax \in Nat
    BY JobParts, BoundsAssumption DEF TypeOK, DevTypeOK
  <2>2. counter'[job.region] \in {counter[job.region], counter[job.region] + 1}
    BY <1>2, <2>1
  <2>3. counter[job.region] \in Int /\ cnt \in Int /\ counter[job.region] > cnt
    BY <2>1 DEF TypeOK, Repeating
  <2>4. QED
    BY <2>2, <2>3
<1>4. QED
  BY <1>1, <1>2, <1>3
  DEF Repeating, Done, Chunk, MaxBlocks, Writing, LoopOver, Wire, Mac

LEMMA ForeignWriteLoop ==
  ASSUME IInv, ForeignWrite
  PROVE  LoopInv' /\ PrefixOnly' /\ CountersAgree'
<1>1. UNCHANGED <<job, pc, addr, left, cnt, inSync, applied>>
  BY DEF ForeignWrite, toolVars, loopVars, history
<1>2. foreign' # 0
  BY DEF ForeignWrite, IInv, TypeOK
<1>3. LoopInv'
  <2>1. Repeating => Repeating'
    BY ForeignRepeating DEF IInv
  <2>2. QED
    BY <1>1, <2>1 DEF IInv, LoopInv, Writing, Done
<1>4. PrefixOnly'
  <2> SUFFICES ASSUME Writing, NEW b \in Addrs
               PROVE  Here'[b] \in
                        {Foreign, IF b \in job.start .. (job.start + applied - 1)
                                    THEN b - job.start + 1
                                    ELSE Earlier(job.region, b)}
    BY <1>1 DEF PrefixOnly, Writing, Earlier
  <2>1. QED
    BY ForeignBlocks DEF IInv, PrefixOnly
<1>5. CountersAgree'
  BY <1>2 DEF CountersAgree
<1>6. QED
  BY <1>3, <1>4, <1>5

LEMMA InitLoop == Init => LoopInv /\ PrefixOnly /\ CountersAgree
<1> SUFFICES ASSUME Init PROVE LoopInv /\ PrefixOnly /\ CountersAgree
  OBVIOUS
<1>1. /\ pc = "start" /\ ~ inSync /\ applied = 0 /\ left = job.num
      /\ addr = job.start
      /\ data = [r \in Regions |-> [a \in Addrs |-> Earlier(r, a)]]
  BY DEF Init, DevInit
<1>2. Writing => job.start \in Nat /\ job.num \in Nat
  BY JobTyped
<1>3. LoopInv
  BY <1>1, <1>2 DEF LoopInv, Done
<1>4. PrefixOnly
  <2> SUFFICES ASSUME Writing, NEW a \in Addrs
               PROVE  /\ Here[a] = Earlier(job.region, a)
                      /\ a \notin job.start .. (job.start + applied - 1)
    BY DEF PrefixOnly
  <2>1. job.region \in Regions
    BY InitTyped, JobParts
  <2>2. QED
    BY <1>1, <1>2, <2>1 DEF Here, Addrs
<1>5. QED
  BY <1>1, <1>3, <1>4 DEF CountersAgree

\* The inductive invariant: types, the bookkeeping of the write loop, what the
\* region holds, and what the device's counter says about it.
THEOREM Inductive == Spec => []IInv
<1>1. Init => IInv
  BY InitTyped, InitLoop DEF IInv
<1>2. IInv /\ [Next]_vars => IInv'
  <2> SUFFICES ASSUME IInv, [Next]_vars PROVE IInv'
    OBVIOUS
  <2>1. TypeOK'
    BY NextTyped DEF IInv
  <2>2. LoopInv' /\ PrefixOnly' /\ CountersAgree'
    <3>1. CASE OpenFails \/ ReadEnds \/ ReadOutOfMemory \/ WriteEnds \/ WriteGivesUp
      BY <3>1, EndingLoop
    <3>2. CASE DoArpmb
      BY <3>2, DoArpmbLoop
    <3>3. CASE DoKey
      BY <3>3, DoKeyLoop
    <3>4. CASE DoReadCounter
      BY <3>4, DoReadCounterLoop
    <3>5. CASE ReadChunk
      BY <3>5, ReadingLoop
    <3>6. CASE \E zero \in BOOLEAN : WriteChunk(zero) \/ Interrupted(zero)
      BY <3>6, WriteChunkLoop, InterruptedLoop
    <3>7. CASE ForeignWrite
      BY <3>7, ForeignWriteLoop
    <3>8. CASE PurgeEnds \/ UNCHANGED vars
      <4>1. UNCHANGED <<job, data, counter, addr, left, cnt, inSync, applied,
                        pc, foreign, key, resend>>
        BY <3>8 DEF PurgeEnds, DevPurgeEnds, vars, devVars, toolVars, loopVars,
                    history
      <4>2. purge'[job.region] \in {purge[job.region], "done"}
        <5>1. purge \in [Regions -> PurgeStates] /\ job.region \in Regions
          BY JobParts DEF IInv, TypeOK, DevTypeOK
        <5>2. \/ purge' = purge
              \/ \E r \in Regions : purge' = [purge EXCEPT ![r] = "done"]
          BY <3>8 DEF PurgeEnds, DevPurgeEnds, vars, devVars
        <5>3. QED
          BY <5>1, <5>2
      <4>3. QED
        BY <4>1, <4>2, Quiet
    <3>9. QED
      BY <3>1, <3>2, <3>3, <3>4, <3>5, <3>6, <3>7, <3>8
      DEF Next, ToolNext, Terminating
  <2>3. QED
    BY <2>1, <2>2 DEF IInv
<1>3. QED
  BY <1>1, <1>2, PTL DEF Spec

\* Whichever calls fail and whoever else writes, the blocks of a write that
\* reached the device are the first ones of the input file, at their places.
THEOREM WritesPrefix == Spec => []PrefixOnly
<1>1. IInv => PrefixOnly
  BY DEF IInv
<1>2. QED
  BY <1>1, Inductive, PTL

\* As long as the tool is alone, its write counter is the device's, except
\* for the one chunk whose answer was lost: when its command is to be sent
\* again, or when the run ends.
THEOREM CountersKept == Spec => []CountersAgree
<1>1. IInv => CountersAgree
  BY DEF IInv
<1>2. QED
  BY <1>1, Inductive, PTL

-----------------------------------------------------------------------------
(* How a write ends                                                        *)

\* Until the run ends nothing is printed, and a buffer no chunk has set means
\* that no chunk was sent.
StillWriting ==
  (Writing /\ pc \in {"start", "counter", "write"}) =>
    /\ printed = "none"
    /\ buff = "unset" => left = job.num

\* What the end of do_write_arpmb, by whichever way, says about the device.
StoppedWriting ==
  (Writing /\ Stopped) =>
    /\ applied \in {Done, Done + Chunk}
    /\ (printed # "none" /\ applied # Done) =>
         resend # {} /\ printed \in {"Counter failure", "Write failure"}
    /\ printed = "done" => LoopOver
    /\ pc = "crashed" => LoopOver /\ left = job.num /\ applied = 0

\* buff is never left pointing to memory that was freed.
Pointer ==
  /\ buff \in {"unset", "null"}
  /\ pc \in {"write", "crashed"} => Writing

EndInv == StillWriting /\ StoppedWriting /\ Pointer

\* A step that changes nothing these three look at.
LEMMA QuietEnd ==
  ASSUME EndInv, UNCHANGED <<job, pc, addr, left, buff, printed, applied, resend>>
  PROVE  EndInv'
BY DEF EndInv, StillWriting, StoppedWriting, Pointer, Writing, Stopped, Done,
       Chunk, MaxBlocks, LoopOver

\* Nothing but the pointer is claimed of a run that is not a write.
LEMMA NotWritingEnd ==
  ASSUME EndInv, ~ Writing, job' = job, buff' = buff, pc' \notin {"write", "crashed"}
  PROVE  EndInv'
BY DEF EndInv, StillWriting, StoppedWriting, Pointer, Writing

\* A write that ends with every chunk counted as done stored, and no other.
LEMMA WriteStops ==
  ASSUME IInv, Writing, pc' = "exit", UNCHANGED <<job, addr, left>>,
         applied' = Done, printed' = "done" => LoopOver, buff' \in {"unset", "null"}
  PROVE  EndInv'
<1>1. Writing' /\ Done' = Done /\ (LoopOver' <=> LoopOver)
  BY DEF Writing, Done, LoopOver
<1>2. QED
  BY <1>1 DEF EndInv, StillWriting, StoppedWriting, Pointer

LEMMA NothingSent ==
  ASSUME IInv, Writing, pc \in {"start", "counter"}
  PROVE  Done = 0 /\ applied = 0 /\ left = job.num
BY DEF IInv, LoopInv, Done

LEMMA StartEnds ==
  ASSUME IInv, EndInv, OpenFails \/ DoArpmb
  PROVE  EndInv'
<1>1. /\ pc = "start" /\ UNCHANGED <<job, addr, left, buff, applied>>
  BY DEF OpenFails, DoArpmb, loopVars, history
<1>2. CASE ~ Writing
  <2>1. pc' \notin {"write", "crashed"}
    BY DEF OpenFails, DoArpmb, Exit, Begun
  <2>2. QED
    BY <1>1, <1>2, <2>1, NotWritingEnd
<1>3. CASE Writing
  <2>1. Done = 0 /\ applied = 0 /\ left = job.num
    BY <1>1, <1>3, NothingSent
  <2>2. CASE pc' = "exit"
    <3>1. printed' = "none"
      BY <1>3, <2>2 DEF OpenFails, DoArpmb, Exit, Begun, Writing, Reading
    <3>2. QED
      BY <1>1, <1>3, <2>1, <2>2, <3>1, WriteStops DEF EndInv, Pointer
  <2>3. CASE pc' # "exit"
    <3>1. pc' = "counter" /\ printed' = printed
      BY <1>3, <2>3 DEF OpenFails, DoArpmb, Exit, Begun, Writing, Reading
    <3>2. QED
      BY <1>1, <1>3, <3>1
      DEF EndInv, StillWriting, StoppedWriting, Pointer, Writing, Stopped
  <2>4. QED
    BY <2>2, <2>3
<1>4. QED
  BY <1>2, <1>3

LEMMA CounterEnds ==
  ASSUME IInv, EndInv, DoReadCounter
  PROVE  EndInv'
<1>1. pc = "counter" /\ UNCHANGED <<job, addr, left, buff, applied>>
  BY DEF DoReadCounter
<1>2. CASE ~ Writing
  <2>1. pc' \notin {"write", "crashed"}
    BY <1>2 DEF DoReadCounter, Exit, Begun
  <2>2. QED
    BY <1>1, <1>2, <2>1, NotWritingEnd
<1>3. CASE Writing
  <2>1. Done = 0 /\ applied = 0 /\ left = job.num
    BY <1>1, <1>3, NothingSent
  <2>2. CASE pc' = "exit"
    <3>1. printed' = "none"
      BY <1>3, <2>2 DEF DoReadCounter, Exit, Begun
    <3>2. QED
      BY <1>1, <1>3, <2>1, <2>2, <3>1, WriteStops DEF EndInv, Pointer
  <2>3. CASE pc' # "exit"
    <3>1. pc' = "write" /\ printed' = printed
      BY <1>3, <2>3 DEF DoReadCounter, Exit, Begun
    <3>2. QED
      BY <1>1, <1>3, <3>1
      DEF EndInv, StillWriting, StoppedWriting, Pointer, Writing, Stopped
  <2>4. QED
    BY <2>2, <2>3
<1>4. QED
  BY <1>2, <1>3

LEMMA OtherCommandsEnd ==
  ASSUME IInv, EndInv, DoKey \/ ReadEnds \/ ReadOutOfMemory \/ ReadChunk
  PROVE  EndInv'
<1>1. pc \in {"key", "read"} /\ UNCHANGED <<job, buff>>
  BY DEF DoKey, ReadEnds, ReadOutOfMemory, ReadChunk, loopVars
<1>2. ~ Writing
  BY <1>1 DEF IInv, LoopInv
<1>3. pc' \notin {"write", "crashed"}
  BY <1>1 DEF DoKey, ReadEnds, ReadOutOfMemory, ReadChunk, Exit, Returned
<1>4. QED
  BY <1>1, <1>2, <1>3, NotWritingEnd

\* The loop is left: every chunk was acknowledged, or the pointer kills it.
LEMMA WriteEndsEnd ==
  ASSUME IInv, EndInv, WriteEnds \/ WriteGivesUp
  PROVE  EndInv'
<1>1. pc = "write" /\ Writing /\ applied = Done
  BY DEF WriteEnds, WriteGivesUp, EndInv, Pointer, IInv, LoopInv, Repeating
<1>2. UNCHANGED <<job, addr, left, applied>>
  BY DEF WriteEnds, WriteGivesUp, loopVars, history
<1>3. CASE pc' = "exit"
  <2>1. /\ printed' = "done" => LoopOver
        /\ buff' \in {"unset", "null"}
    BY DEF WriteEnds, WriteGivesUp, loopVars, Exit, EndInv, Pointer
  <2>2. QED
    BY <1>1, <1>2, <1>3, <2>1, WriteStops
<1>4. CASE pc' # "exit"
  <2>1. /\ pc' = "crashed" /\ LoopOver /\ buff # "null"
        /\ UNCHANGED <<buff, printed>>
    BY <1>4 DEF WriteEnds, WriteGivesUp, Returned, Exit, loopVars
  <2>2. printed = "none" /\ buff = "unset" /\ left = job.num
    BY <1>1, <2>1 DEF EndInv, StillWriting, Pointer
  <2>3. applied = 0
    BY <1>1, <2>2 DEF Done, IInv, LoopInv
  <2>4. Writing' /\ Done' = Done /\ LoopOver'
    BY <1>1, <1>2, <2>1 DEF Writing, Done, LoopOver
  <2>5. QED
    BY <1>1, <1>2, <2>1, <2>2, <2>3, <2>4
    DEF EndInv, StillWriting, StoppedWriting, Pointer
<1>5. QED
  BY <1>3, <1>4

\* The device refuses a chunk it has stored only for its counter.
LEMMA RepeatRefused ==
  ASSUME IInv, Writing, pc = "write", ~ LoopOver, Repeating,
         NEW zero \in BOOLEAN, SameFrame(zero),
         NEW why \in Objections(WriteRequest(Mac(zero)))
  PROVE  why \in {"Counter failure", "Write failure"}
<1> DEFINE f == WriteRequest(Mac(zero))
<1>1. zero \in resend
  BY DEF SameFrame, Repeating
<1>2. /\ f.region = job.region /\ f.mac = key[job.region]
      /\ f.addr = Wire(addr) /\ f.count = Chunk
  BY <1>1, WriteFacts DEF Repeating
<1>3. ~ (Wire(addr) + Chunk - 1 > MaxAddr)
  <2>1. Wire(addr) \in Int /\ Chunk \in Int /\ MaxAddr \in Int
    BY WriteFacts, BoundsAssumption
  <2>2. QED
    BY <2>1 DEF Repeating
<1>4. QED
  BY <1>2, <1>3 DEF Objections, Repeating

\* A chunk: refused, it stored nothing, or was stored before; lost, it may
\* have been stored.
LEMMA WriteChunkEnd ==
  ASSUME IInv, EndInv, NEW zero \in BOOLEAN, WriteChunk(zero)
  PROVE  EndInv'
<1> DEFINE f == WriteRequest(Mac(zero))
<1>1. /\ TypeOK /\ DevTypeOK /\ ~ LoopOver /\ f \in Requests /\ pc = "write"
      /\ job' = job /\ buff' = "null"
  BY WriteRequestTyped DEF WriteChunk, IInv, TypeOK, Freed
<1>2. Writing /\ (applied = Done \/ Repeating) /\ printed = "none"
  BY <1>1 DEF EndInv, Pointer, StillWriting, IInv, LoopInv
<1>3. f.req = "WRITE" /\ f.first = Done + 1 /\ f.count = Chunk
  BY DEF WriteRequest, Request
<1>4. Done \in Int /\ Chunk \in Int
  BY <1>1, ChunkTyped, JobParts DEF Done, TypeOK
<1>5. applied' \in {Done, Done + Chunk}
  BY <1>2, <1>3, <1>4 DEF WriteChunk, NoteApplied, Repeating
<1>6. CASE Answered(f) /\ Fine(f) /\ pc' = "write" /\ printed' = printed
  BY <1>1, <1>2, <1>6
  DEF EndInv, StillWriting, StoppedWriting, Pointer, Writing, Stopped
<1>7. CASE /\ Answered(f) /\ ~ Fine(f) /\ Exit("error", Outcome(f))
           /\ UNCHANGED <<addr, left, resend>>
  <2>1. UNCHANGED <<data, counter>> /\ f.region = job.region
    BY <1>1, <1>3, <1>7, WriteRefused
    DEF Answered, Fine, Outcome, WriteRequest, Request
  <2>2. applied' = applied
    BY <1>2, <2>1 DEF WriteChunk, NoteApplied
  <2>3. printed' = result'[f.region] /\ printed' \in Objections(f)
    BY <1>1, <1>3, <1>7, WriteRefused DEF Answered, Fine, Outcome, Exit
  <2>4. printed' # "done"
    BY <2>3 DEF Objections, Failures
  <2>5. Writing' /\ Done' = Done /\ Chunk' = Chunk
    BY <1>1, <1>2, <1>7 DEF Writing, Done, Chunk, MaxBlocks
  <2>6. applied # Done =>
          resend # {} /\ printed' \in {"Counter failure", "Write failure"}
    <3> SUFFICES ASSUME applied # Done
                 PROVE  resend # {} /\ printed' \in {"Counter failure", "Write failure"}
      OBVIOUS
    <3>1. Repeating
      BY <1>2
    <3>2. SameFrame(zero)
      BY DEF WriteChunk
    <3>3. QED
      BY <1>1, <1>2, <2>3, <3>1, <3>2, RepeatRefused DEF Repeating
  <2>7. pc' = "exit" /\ resend' = resend
    BY <1>7 DEF Exit
  <2>8. QED
    BY <1>1, <1>5, <2>2, <2>4, <2>5, <2>6, <2>7
    DEF EndInv, StillWriting, StoppedWriting, Pointer
<1>8. CASE Exit("error", "none") /\ UNCHANGED <<addr, left>>
  <2>1. Writing' /\ Done' = Done /\ Chunk' = Chunk
    BY <1>1, <1>2, <1>8 DEF Writing, Done, Chunk, MaxBlocks
  <2>2. pc' = "exit" /\ printed' = "none"
    BY <1>8 DEF Exit
  <2>3. QED
    BY <1>1, <1>5, <2>1, <2>2
    DEF EndInv, StillWriting, StoppedWriting, Pointer
<1>9. QED
  BY <1>6, <1>7, <1>8 DEF WriteChunk

\* A command that will be sent again ends nothing.
LEMMA InterruptedEnd ==
  ASSUME EndInv, NEW zero \in BOOLEAN, Interrupted(zero)
  PROVE  EndInv'
<1>1. UNCHANGED <<job, pc, left, buff, printed>> /\ ~ Stopped
  BY DEF Interrupted, Calling, Stopped
<1>2. QED
  BY <1>1 DEF EndInv, StillWriting, StoppedWriting, Pointer, Writing, Stopped

\* The loop's bookkeeping and how it ends hold in every reachable state.
THEOREM Endings == Spec => []EndInv
<1>1. Init => EndInv
  BY DEF Init, EndInv, StillWriting, StoppedWriting, Pointer, Stopped
<1>2. IInv /\ EndInv /\ [Next]_vars => EndInv'
  <2> SUFFICES ASSUME IInv, EndInv, [Next]_vars PROVE EndInv'
    OBVIOUS
  <2>1. CASE OpenFails \/ DoArpmb
    BY <2>1, StartEnds
  <2>2. CASE DoReadCounter
    BY <2>2, CounterEnds
  <2>3. CASE DoKey \/ ReadEnds \/ ReadOutOfMemory \/ ReadChunk
    BY <2>3, OtherCommandsEnd
  <2>4. CASE WriteEnds \/ WriteGivesUp
    BY <2>4, WriteEndsEnd
  <2>5. CASE \E zero \in BOOLEAN : WriteChunk(zero) \/ Interrupted(zero)
    BY <2>5, WriteChunkEnd, InterruptedEnd
  <2>6. CASE ForeignWrite \/ PurgeEnds \/ UNCHANGED vars
    <3>1. UNCHANGED <<job, pc, addr, left, buff, printed, applied, resend>>
      BY <2>6 DEF ForeignWrite, PurgeEnds, vars, toolVars, loopVars, history
    <3>2. QED
      BY <3>1, QuietEnd
  <2>7. QED
    BY <2>1, <2>2, <2>3, <2>4, <2>5, <2>6 DEF Next, ToolNext, Terminating
<1>3. QED
  BY <1>1, <1>2, Inductive, PTL DEF Spec

\* A write that ends with an error leaves the device with the chunks it counted
\* and at most the one under way besides; if a refusal is named, the latter
\* only when the command was sent twice and the refusal is one of the counter.
THEOREM ErrorsKnown == Spec => []ErrorLeavesKnownState
<1>1. EndInv => ErrorLeavesKnownState
  BY DEF EndInv, StoppedWriting, ErrorLeavesKnownState, Stopped
<1>2. QED
  BY <1>1, Endings, PTL

\* The pointer nobody set is freed only by a write that has sent nothing,
\* because it starts beyond the last address or with no blocks.
THEOREM CrashesEarly == Spec => []CrashOnlyAtTheStart
<1>1. IInv /\ EndInv => CrashOnlyAtTheStart
  <2> SUFFICES ASSUME IInv, EndInv, pc = "crashed"
               PROVE  applied = 0 /\ (job.start > MaxAddr \/ job.num = 0)
    BY DEF CrashOnlyAtTheStart
  <2>1. Writing /\ LoopOver /\ left = job.num /\ applied = 0
    BY DEF EndInv, Pointer, StoppedWriting, Stopped
  <2>2. job.num \in Nat /\ job.start \in Nat /\ addr = job.start
    BY <2>1 DEF IInv, LoopInv, Done
  <2>3. QED
    BY <2>1, <2>2 DEF LoopOver
<1>2. QED
  BY <1>1, Inductive, Endings, PTL

\* A write that says it is finished is: every block the address space has
\* room for is in the region, unless another host wrote over it.
THEOREM TrueWrites == Spec => []TrueWrite
<1>1. IInv /\ EndInv => TrueWrite
  <2> SUFFICES ASSUME IInv, EndInv, Writing, printed = "done",
                      NEW i \in 1 .. job.num, job.start + i - 1 <= MaxAddr
               PROVE  Here[job.start + i - 1] \in {i, Foreign}
    BY DEF TrueWrite
  <2>1. /\ job.start \in Nat /\ job.num \in Nat /\ left \in 0 .. job.num
        /\ addr = job.start + Done
        /\ pc \in {"start", "counter", "write", "exit", "crashed"}
    BY DEF IInv, LoopInv
  <2>2. Stopped
    BY <2>1 DEF EndInv, StillWriting, Stopped
  <2>3. applied = Done /\ LoopOver
    BY <2>2 DEF EndInv, StoppedWriting
  <2> DEFINE a == job.start + i - 1
  <2>4. a \in Addrs
    BY <2>1, BoundsAssumption DEF Addrs
  <2>5. a \in job.start .. (job.start + applied - 1)
    BY <2>1, <2>3, BoundsAssumption DEF LoopOver, Done
  <2>6. a - job.start + 1 = i
    BY <2>1
  <2>7. QED
    BY <2>4, <2>5, <2>6 DEF IInv, PrefixOnly
<1>2. QED
  BY <1>1, Inductive, Endings, PTL

-----------------------------------------------------------------------------
(* What a read has collected                                               *)

\* The blocks in the output file are those of the region, and no more than
\* the loop counts.
Intact ==
  /\ Len(out) = job.num - left
  /\ \A i \in 1 .. Len(out) :
       /\ job.start + i - 1 \in Addrs
       /\ Here[job.start + i - 1] \in {out[i], Foreign}

\* The bookkeeping of do_read_arpmb; a start address that was not given is
\* no address, so the loop does not move from there.
ReadInv ==
  Reading =>
    /\ pc \in {"start", "read", "exit"}
    /\ pc # "exit" => printed = "none"
    /\ addr - job.start = job.num - left
    /\ left <= job.num
    /\ addr # job.start => job.start >= 0
    /\ (faults = 0 /\ (pc # "exit" \/ printed = "done")) => Intact
    /\ (faults = 0 /\ printed = "done") => LoopOver

LEMMA QuietRead ==
  ASSUME ReadInv, UNCHANGED <<job, pc, addr, left, out, printed, faults, data>>
  PROVE  ReadInv'
BY DEF ReadInv, Reading, Intact, Here, LoopOver

LEMMA NotReading ==
  ASSUME ~ Reading, job' = job
  PROVE  ReadInv'
BY DEF ReadInv, Reading

\* A read that does not say it is finished.
LEMMA ReadStops ==
  ASSUME ReadInv, Reading, UNCHANGED <<job, addr, left>>, pc' = "exit",
         printed' # "done"
  PROVE  ReadInv'
BY DEF ReadInv, Reading

LEMMA StartRead ==
  ASSUME TypeOK, ReadInv, OpenFails \/ DoArpmb
  PROVE  ReadInv'
<1>1. UNCHANGED <<job, addr, left, out, data>>
  BY DEF OpenFails, DoArpmb, loopVars, devVars
<1>2. CASE ~ Reading
  BY <1>1, <1>2, NotReading
<1>3. CASE Reading
  <2>1. CASE OpenFails
    BY <1>1, <1>3, <2>1, ReadStops DEF OpenFails, Exit
  <2>2. CASE DoArpmb
    <3>1. pc = "start" /\ pc' = "read" /\ UNCHANGED <<printed, faults>>
      BY <1>3, <2>2 DEF DoArpmb, Begun, Reading
    <3>2. QED
      BY <1>1, <3>1 DEF ReadInv, Reading, Intact, Here
  <2>3. QED
    BY <2>1, <2>2
<1>4. QED
  BY <1>2, <1>3

LEMMA OtherCommandsRead ==
  ASSUME ReadInv, \/ DoKey \/ DoReadCounter \/ WriteEnds \/ WriteGivesUp
                  \/ \E zero \in BOOLEAN : WriteChunk(zero)
  PROVE  ReadInv'
<1>1. pc \in {"key", "counter", "write"} /\ job' = job
  BY DEF DoKey, DoReadCounter, WriteEnds, WriteGivesUp, WriteChunk
<1>2. ~ Reading
  BY <1>1 DEF ReadInv
<1>3. QED
  BY <1>1, <1>2, NotReading

\* The loop is left, or calloc fails.
LEMMA ReadEndsRead ==
  ASSUME TypeOK, ReadInv, ReadEnds \/ ReadOutOfMemory
  PROVE  ReadInv'
<1>1. /\ pc = "read" /\ pc' = "exit"
      /\ UNCHANGED <<job, addr, left, out, data>>
  BY DEF ReadEnds, ReadOutOfMemory, loopVars, devVars, Returned, Exit
<1>2. faults' = 0 => faults = 0 /\ LoopOver
  BY DEF ReadEnds, ReadOutOfMemory, Fault, TypeOK
<1>3. QED
  BY <1>1, <1>2 DEF ReadInv, Reading, Intact, Here, LoopOver

\* What the device grants starts at an address.
LEMMA ReadGranted ==
  ASSUME TypeOK, ~ LoopOver, Answered(ReadRequest), Fine(ReadRequest)
  PROVE  /\ UNCHANGED <<data, faults>>
         /\ Chunk > 0 => addr >= 0 /\ addr + Chunk - 1 <= MaxAddr
         /\ Chunk > 0 => resp'[job.region].blocks =
                           [i \in 1 .. Chunk |-> Here[addr + i - 1]]
         /\ Len(resp'[job.region].blocks) = Chunk
         /\ resp'[job.region].blocks \in Seq(Int)
<1> DEFINE f == ReadRequest
           r == job.region
           got == resp'[r].blocks
<1>1. /\ f \in Requests /\ f.req = "READ" /\ f.region = r
      /\ f.addr = Wire(addr) /\ f.count = Chunk /\ r \in Regions
  BY ReadRequestTyped, JobParts DEF ReadRequest, Request
<1>2. Chunk \in Nat /\ addr \in Int /\ addr >= NotGiven
  BY ChunkTyped
<1>3. resp'[r].result = "Success"
  BY <1>1 DEF Fine, Outcome
<1>4. /\ UNCHANGED <<data, faults>> /\ f.addr + f.count - 1 <= MaxAddr
      /\ got = [i \in 1 .. f.count |-> data[r][f.addr + i - 1]]
  BY <1>1, <1>3, ExecuteRead DEF Answered, TypeOK
<1>5. Chunk > 0 => addr >= 0 /\ Wire(addr) = addr
  BY <1>1, <1>2, <1>4, WireTyped, BoundsAssumption DEF Wire, NotGiven
<1>6. got \in Seq(Int) /\ Len(got) = Chunk
  <2>1. got \in Seq(Int)
    <3>1. DevTypeOK'
      BY <1>1, ExecuteTyped DEF Answered, TypeOK
    <3>2. QED
      BY <1>1, <3>1 DEF DevTypeOK, Answers
  <2>2. DOMAIN got = 1 .. Chunk
    BY <1>1, <1>4
  <2>3. QED
    BY <1>2, <2>1, <2>2
<1>7. QED
  BY <1>1, <1>4, <1>5, <1>6 DEF Here

LEMMA Appended ==
  ASSUME NEW s \in Seq(Int), NEW t \in Seq(Int)
  PROVE  Len(s \o t) = Len(s) + Len(t)
OBVIOUS

\* The next chunk of a read: the blocks behind those of the chunks before.
LEMMA ReadChunkIntact ==
  ASSUME TypeOK, Reading, ReadInv, faults = 0, pc = "read",
         ~ LoopOver, Answered(ReadRequest), Fine(ReadRequest), NextChunk,
         out' = out \o resp'[job.region].blocks, job' = job
  PROVE  Intact'
<1> DEFINE r == job.region
           got == resp'[r].blocks
           n == Len(out)
<1>1. /\ Chunk \in Nat /\ left \in Int /\ addr \in Int
      /\ job.num \in Int /\ job.start \in Int /\ out \in Seq(Int) /\ n \in Nat
  BY ChunkTyped, JobParts DEF TypeOK
<1>2. got \in Seq(Int) /\ Len(got) = Chunk /\ data' = data
  BY ReadGranted
<1>3. n = job.num - left /\ addr = job.start + n
  BY <1>1 DEF ReadInv, Intact
<1>4. Len(out') = n + Chunk /\ left' = left - Chunk
  <2>1. Len(out') = n + Chunk
    BY <1>1, <1>2, Appended
  <2>2. QED
    BY <2>1 DEF NextChunk
<1>5. ASSUME NEW i \in 1 .. Len(out')
      PROVE  /\ job.start + i - 1 \in Addrs
             /\ Here[job.start + i - 1] \in {out'[i], Foreign}
  <2>1. CASE i <= n
    <3>1. out'[i] = out[i] /\ i \in 1 .. Len(out)
      BY <1>1, <1>2, <2>1
    <3>2. QED
      BY <3>1 DEF ReadInv, Intact
  <2>2. CASE i > n
    <3>1. i - n \in 1 .. Chunk /\ Chunk > 0
      BY <1>1, <1>4, <2>2
    <3>2. out'[i] = got[i - n]
      BY <1>1, <1>2, <1>4, <2>2
    <3>3. addr + (i - n) - 1 = job.start + i - 1
      <4>1. i \in Int /\ n \in Int /\ job.start \in Int /\ addr = job.start + n
        BY <1>1, <1>3, <1>4
      <4>2. QED
        BY <4>1
    <3>4. got[i - n] = Here[addr + (i - n) - 1]
      BY <3>1, ReadGranted
    <3>5. addr >= 0 /\ addr + Chunk - 1 <= MaxAddr
      BY <3>1, ReadGranted
    <3>6. job.start + i - 1 \in Addrs
      BY <1>1, <3>1, <3>3, <3>5, BoundsAssumption DEF Addrs
    <3>7. QED
      BY <3>2, <3>3, <3>4, <3>6
  <2>3. QED
    BY <1>1, <2>1, <2>2
<1>6. Here' = Here
  BY <1>2 DEF Here
<1>7. Len(out') = job.num - left'
  BY <1>1, <1>3, <1>4
<1>8. QED
  BY <1>5, <1>6, <1>7 DEF Intact

LEMMA ReadChunkRead ==
  ASSUME TypeOK, ReadInv, ReadChunk
  PROVE  ReadInv'
<1>1. pc = "read" /\ ~ LoopOver /\ job' = job
  BY DEF ReadChunk
<1>2. CASE ~ Reading
  BY <1>1, <1>2, NotReading
<1>3. CASE Reading
  <2>1. CASE /\ Answered(ReadRequest) /\ Fine(ReadRequest)
             /\ out' = out \o resp'[job.region].blocks
             /\ NextChunk /\ UNCHANGED <<pc, printed>>
    <3>1. /\ Chunk \in Nat /\ left \in Int /\ addr \in Int
          /\ job.num \in Int /\ job.start \in Int
      BY <1>1, ChunkTyped, JobParts DEF TypeOK
    <3>2. faults' = faults /\ (Chunk > 0 => addr >= 0)
      BY <1>1, <2>1, ReadGranted
    <3>3. left' = left - Chunk /\ addr' = addr + Chunk
      BY <2>1 DEF NextChunk
    <3>4. faults' = 0 => Intact'
      BY <1>1, <1>3, <2>1, <3>2, ReadChunkIntact
    <3>5. addr' - job.start = job.num - left' /\ left' <= job.num
      BY <1>3, <3>1, <3>3 DEF ReadInv
    <3>6. addr' # job.start => job.start >= 0
      BY <1>3, <3>1, <3>2, <3>3 DEF ReadInv
    <3>7. pc' = "read" /\ printed' = "none"
      BY <1>1, <1>3, <2>1 DEF ReadInv
    <3>8. QED
      BY <1>1, <3>4, <3>5, <3>6, <3>7 DEF ReadInv
  <2>2. CASE /\ Answered(ReadRequest) /\ ~ Fine(ReadRequest)
             /\ Exit("error", Outcome(ReadRequest)) /\ UNCHANGED <<addr, left>>
    <3>1. ReadRequest \in Requests /\ DevTypeOK'
      BY <1>1, <2>2, ReadRequestTyped, AnsweredTyped
    <3>2. printed' \in Failures /\ "done" \notin Failures /\ pc' = "exit"
      BY <2>2, <3>1, OutcomeTyped DEF Exit, Failures
    <3>3. QED
      BY <1>1, <1>3, <2>2, <3>2, ReadStops
  <2>3. CASE Exit("error", "none") /\ UNCHANGED <<addr, left>>
    BY <1>1, <1>3, <2>3, ReadStops DEF Exit
  <2>4. QED
    BY <2>1, <2>2, <2>3 DEF ReadChunk
<1>4. QED
  BY <1>2, <1>3

\* Nothing is claimed of the blocks once a call was interrupted.
LEMMA InterruptedRead ==
  ASSUME TypeOK, ReadInv, NEW zero \in BOOLEAN, Interrupted(zero)
  PROVE  ReadInv'
<1>1. UNCHANGED <<job, pc, addr, left, printed>> /\ faults' # 0
  BY DEF Interrupted, Fault, TypeOK
<1>2. QED
  BY <1>1 DEF ReadInv, Reading

\* What another host overwrites was read before, or is no longer looked for.
LEMMA ForeignWriteRead ==
  ASSUME TypeOK, ReadInv, ForeignWrite
  PROVE  ReadInv'
<1>1. UNCHANGED <<job, pc, addr, left, out, printed, faults>>
  BY DEF ForeignWrite, toolVars, loopVars
<1>2. Intact => Intact'
  <2> SUFFICES ASSUME Intact, NEW i \in 1 .. Len(out)
               PROVE  /\ job.start + i - 1 \in Addrs
                      /\ Here'[job.start + i - 1] \in {out[i], Foreign}
    BY <1>1 DEF Intact
  <2>1. QED
    BY ForeignBlocks DEF Intact
<1>3. QED
  BY <1>1, <1>2 DEF ReadInv, Reading, LoopOver

\* The bookkeeping of a read holds in every reachable state.
THEOREM Collected == Spec => []ReadInv
<1>1. Init => ReadInv
  <2> SUFFICES ASSUME Init PROVE ReadInv
    OBVIOUS
  <2>1. /\ pc = "start" /\ printed = "none" /\ addr = job.start
        /\ left = job.num /\ out = << >>
    BY DEF Init
  <2>2. job.start \in Int /\ job.num \in Int
    BY JobTyped DEF Jobs
  <2>3. Intact
    BY <2>1, <2>2 DEF Intact
  <2>4. QED
    BY <2>1, <2>2, <2>3 DEF ReadInv
<1>2. TypeOK /\ ReadInv /\ [Next]_vars => ReadInv'
  <2> SUFFICES ASSUME TypeOK, ReadInv, [Next]_vars PROVE ReadInv'
    OBVIOUS
  <2>1. CASE OpenFails \/ DoArpmb
    BY <2>1, StartRead
  <2>2. CASE \/ DoKey \/ DoReadCounter \/ WriteEnds \/ WriteGivesUp
             \/ \E zero \in BOOLEAN : WriteChunk(zero)
    BY <2>2, OtherCommandsRead
  <2>3. CASE ReadEnds \/ ReadOutOfMemory
    BY <2>3, ReadEndsRead
  <2>4. CASE ReadChunk
    BY <2>4, ReadChunkRead
  <2>5. CASE ForeignWrite
    BY <2>5, ForeignWriteRead
  <2>6. CASE PurgeEnds \/ UNCHANGED vars
    <3>1. UNCHANGED <<job, pc, addr, left, out, printed, faults, data>>
      BY <2>6 DEF PurgeEnds, DevPurgeEnds, vars, devVars, toolVars, loopVars
    <3>2. QED
      BY <3>1, QuietRead
  <2>7. CASE \E zero \in BOOLEAN : Interrupted(zero)
    BY <2>7, InterruptedRead
  <2>8. QED
    BY <2>1, <2>2, <2>3, <2>4, <2>5, <2>6, <2>7 DEF Next, ToolNext, Terminating
<1>3. QED
  BY <1>1, <1>2, TypeCorrect, PTL DEF Spec

\* A read of which no call failed, and that says it is finished, has put the
\* region's blocks into the output file, in order and as far as there are any.
THEOREM TrueReads == Spec => []TrueRead
<1>1. TypeOK /\ ReadInv => TrueRead
  <2> SUFFICES ASSUME TypeOK, ReadInv, Reading, printed = "done", faults = 0
               PROVE  /\ \A i \in 1 .. Len(out) :
                           Here[job.start + i - 1] \in {out[i], Foreign}
                      /\ Len(out) >= job.num \/ job.start + Len(out) > MaxAddr
    BY DEF TrueRead
  <2>1. Intact /\ LoopOver /\ addr - job.start = job.num - left
    BY DEF ReadInv
  <2>2. /\ job.num \in Int /\ job.start \in Int /\ left \in Int /\ addr \in Int
        /\ MaxAddr \in Int
    BY JobParts, BoundsAssumption DEF TypeOK
  <2>3. Len(out) = job.num - left
    BY <2>1 DEF Intact
  <2>4. Len(out) >= job.num \/ job.start + Len(out) > MaxAddr
    BY <2>1, <2>2, <2>3 DEF LoopOver
  <2>5. QED
    BY <2>1, <2>4 DEF Intact
<1>2. QED
  BY <1>1, TypeCorrect, Collected, PTL

-----------------------------------------------------------------------------
(* Why a run is refused                                                    *)

\* Nothing disturbs the tool, as far as it has come.
Alone == faults = 0 /\ foreign = 0 /\ zeros

BlockCommand == Reading \/ Writing

\* Inside the loops: ret is an error only before the first chunk, and only
\* because the geometry could not be read; a write goes on without the
\* device's counter only if the region has no key.
Unrefused ==
  /\ resend = {}
  /\ pc \in {"start", "counter"} => left = job.num /\ addr = job.start
  /\ (pc \in {"read", "write"} /\ ret = "error") =>
       job.geometry = NotGiven /\ left = job.num /\ addr = job.start
  /\ pc = "write" => inSync \/ key[job.region] = NoKey

ReasonInv == (BlockCommand /\ Alone => Unrefused) /\ RefusedForAReason

\* Both loops take their blocks from one address after the other.
LEMMA Place ==
  ASSUME TypeOK, LoopInv, ReadInv, BlockCommand, ~ LoopOver
  PROVE  /\ addr + Chunk <= job.start + job.num
         /\ addr < 0 => addr = NotGiven /\ job.start = NotGiven
<1>1. /\ addr \in Int /\ left \in Int /\ Chunk \in Nat /\ Chunk <= left
      /\ addr >= NotGiven
  BY ChunkTyped DEF TypeOK
<1>2. job.start \in Int /\ job.num \in Int
  BY JobParts
<1>3. addr - job.start = job.num - left
  <2>1. CASE Reading
    BY <2>1 DEF ReadInv
  <2>2. CASE Writing
    BY <1>1, <1>2, <2>2 DEF LoopInv, Done
  <2>3. QED
    BY <2>1, <2>2 DEF BlockCommand
<1>4. addr < 0 => job.start = addr
  <2>1. CASE Reading
    BY <1>1, <1>2, <1>3, <2>1 DEF ReadInv
  <2>2. CASE Writing
    BY <1>1, <1>2, <2>2 DEF LoopInv, Done
  <2>3. QED
    BY <2>1, <2>2 DEF BlockCommand
<1>5. QED
  BY <1>1, <1>2, <1>3, <1>4 DEF NotGiven

\* A request past the end of the address space was not all there.
LEMMA PastTheEnd ==
  ASSUME TypeOK, LoopInv, ReadInv, BlockCommand, ~ LoopOver,
         Wire(addr) + Chunk - 1 > MaxAddr
  PROVE  job.start = NotGiven \/ job.start + job.num > MaxAddr + 1
<1>1. addr \in Int /\ addr >= NotGiven /\ Chunk \in Nat /\ MaxAddr \in Nat
  BY ChunkTyped, BoundsAssumption
<1>2. job.start \in Int /\ job.num \in Int
  BY JobParts
<1>3. CASE addr < 0
  BY <1>3, Place
<1>4. CASE addr >= 0
  <2>1. addr + Chunk - 1 > MaxAddr
    BY <1>1, <1>4, WireTyped
  <2>2. addr + Chunk <= job.start + job.num
    BY Place
  <2>3. QED
    BY <1>1, <1>2, <2>1, <2>2
<1>5. QED
  BY <1>1, <1>3, <1>4

\* A step with a failing call ends all claims.
LEMMA Disturbed ==
  ASSUME ~ Alone'
  PROVE  ReasonInv'
BY DEF ReasonInv, Alone, RefusedForAReason

\* Nothing is claimed of the other commands.
LEMMA OtherCommand ==
  ASSUME ~ BlockCommand, job' = job
  PROVE  ReasonInv'
BY DEF ReasonInv, BlockCommand, RefusedForAReason, Reading, Writing

\* A call that failed is counted.
LEMMA FaultDisturbs ==
  ASSUME TypeOK, Fault
  PROVE  ~ Alone'
BY DEF Fault, TypeOK, Alone

LEMMA StillAlone ==
  ASSUME TypeOK, [Next]_vars, Alone'
  PROVE  Alone /\ faults' = faults /\ foreign' = foreign
<1>1. faults' = faults \/ Fault
  BY DEF Next, ToolNext, Terminating, vars, OpenFails, DoArpmb, DoKey,
         DoReadCounter, ReadEnds, ReadOutOfMemory, ReadChunk, WriteEnds,
         WriteGivesUp, WriteChunk, Interrupted, ForeignWrite, PurgeEnds,
         Answered, Failed
<1>2. foreign' = foreign \/ foreign' = foreign + 1
  BY DEF Next, ToolNext, Terminating, vars, OpenFails, DoArpmb, DoKey,
         DoReadCounter, ReadEnds, ReadOutOfMemory, ReadChunk, WriteEnds,
         WriteGivesUp, WriteChunk, Interrupted, ForeignWrite, PurgeEnds
<1>3. zeros' => zeros
  BY DEF Next, ToolNext, Terminating, vars, history, OpenFails, DoArpmb, DoKey,
         DoReadCounter, ReadEnds, ReadOutOfMemory, ReadChunk, WriteEnds,
         WriteGivesUp, WriteChunk, Interrupted, ForeignWrite, PurgeEnds, TypeOK
<1>4. QED
  BY <1>1, <1>2, <1>3 DEF Alone, Fault, TypeOK

\* The loop is over: an error is that of the geometry, before any chunk.
LEMMA LoopReason ==
  ASSUME IInv, BlockCommand, Unrefused, pc \in {"read", "write"}, LoopOver,
         Returned, UNCHANGED <<job, resend>>
  PROVE  ReasonInv'
<1>1. pc' = "exit" /\ ret' = ret
  BY DEF Returned, Exit
<1>2. ret = "error" =>
        \/ job.num < 1 /\ job.geometry = NotGiven
        \/ job.start + job.num > MaxAddr + 1
  <2>1. job.start \in Int /\ job.num \in Int /\ MaxAddr \in Nat
    BY JobParts, BoundsAssumption DEF IInv
  <2>2. QED
    BY <2>1 DEF Unrefused, LoopOver
<1>3. Unrefused'
  BY <1>1 DEF Unrefused
<1>4. RefusedForAReason'
  BY <1>1, <1>2 DEF RefusedForAReason
<1>5. QED
  BY <1>3, <1>4 DEF ReasonInv

LEMMA StartReason ==
  ASSUME IInv, ReadInv, ReasonInv, BlockCommand, Alone, Alone',
         \/ OpenFails \/ DoArpmb \/ ReadEnds \/ ReadOutOfMemory \/ WriteEnds
         \/ WriteGivesUp
  PROVE  ReasonInv'
<1>1. UNCHANGED <<job, addr, left, key, inSync, resend>> /\ TypeOK
  BY DEF OpenFails, DoArpmb, ReadEnds, ReadOutOfMemory, WriteEnds, WriteGivesUp,
         loopVars, history, devVars, IInv
<1>2. CASE OpenFails \/ ReadOutOfMemory
  BY <1>1, <1>2, FaultDisturbs DEF OpenFails, ReadOutOfMemory
<1>3. CASE DoArpmb
  <2>1. /\ pc = "start"
        /\ \/ pc' = "counter"
           \/ /\ pc' = "read"
              /\ ret' = "error" => job.geometry = NotGiven
    BY <1>3 DEF DoArpmb, Begun, BlockCommand, Reading, Writing
  <2>2. Unrefused'
    BY <1>1, <2>1 DEF Unrefused, ReasonInv
  <2>3. QED
    BY <2>1, <2>2 DEF ReasonInv, RefusedForAReason
<1>4. CASE (ReadEnds \/ WriteEnds) /\ Returned
  BY <1>1, <1>4, LoopReason DEF ReasonInv, ReadEnds, WriteEnds
<1>5. CASE WriteEnds /\ pc' = "crashed"
  BY <1>1, <1>5 DEF ReasonInv, Unrefused, RefusedForAReason
<1>6. CASE WriteGivesUp
  <2>1. Done + Chunk > job.file /\ ~ LoopOver /\ pc = "write"
    BY <1>1, <1>6, FaultDisturbs DEF WriteGivesUp
  <2>2. Writing /\ job.file \in Nat
    BY <1>1, <2>1 DEF BlockCommand, ReadInv, TypeOK, Jobs
  <2>3. job.file < job.num
    BY <1>1, <2>1, <2>2, ChunkTyped, JobParts DEF Done, TypeOK
  <2>4. pc' = "exit"
    BY <1>6 DEF WriteGivesUp, Exit
  <2>5. QED
    BY <1>1, <2>2, <2>3, <2>4 DEF ReasonInv, Unrefused, RefusedForAReason, Writing
<1>7. QED
  BY <1>2, <1>3, <1>4, <1>5, <1>6 DEF WriteEnds, ReadEnds

\* The counter was read, or the region has no key.
LEMMA CounterReason ==
  ASSUME IInv, ReadInv, ReasonInv, BlockCommand, Alone, Alone', DoReadCounter
  PROVE  ReasonInv'
<1>1. /\ pc = "counter" /\ UNCHANGED <<job, addr, left>> /\ TypeOK /\ DevTypeOK
  BY DEF DoReadCounter, IInv, TypeOK
<1>2. Writing
  BY <1>1 DEF BlockCommand, ReadInv
<1>3. Answered(CounterRequest)
  BY <1>1, FaultDisturbs DEF DoReadCounter, Failed
<1>4. /\ pc' = "write" /\ ret' = IF job.geometry = NotGiven THEN "error" ELSE "ok"
      /\ cnt' = IF Fine(CounterRequest) THEN resp'[job.region].counter ELSE cnt
      /\ inSync' = (cnt' = counter[job.region]) /\ resend' = {}
  BY <1>1, <1>2, FaultDisturbs DEF DoReadCounter, Begun, Failed
<1>5. /\ CounterRequest \in Requests /\ CounterRequest.req = "READ_CNT"
      /\ CounterRequest.region = job.region
  BY <1>1, QueriesTyped DEF CounterRequest, Request
<1>6. key' = key /\ (inSync' \/ key[job.region] = NoKey)
  BY <1>1, <1>3, <1>4, <1>5, ExecuteCounter DEF Answered, Fine, Outcome
<1>7. left = job.num /\ addr = job.start
  BY <1>1 DEF ReasonInv, Unrefused
<1>8. QED
  BY <1>1, <1>4, <1>6, <1>7 DEF ReasonInv, Unrefused, RefusedForAReason

LEMMA ReadChunkReason ==
  ASSUME IInv, ReadInv, ReasonInv, BlockCommand, Alone, Alone', ReadChunk
  PROVE  ReasonInv'
<1> DEFINE f == ReadRequest
<1>1. /\ pc = "read" /\ ~ LoopOver /\ job' = job /\ TypeOK /\ DevTypeOK
      /\ resend' = {}
  BY DEF ReadChunk, IInv, TypeOK
<1>2. /\ f \in Requests /\ f.req = "READ" /\ f.region = job.region
      /\ f.addr = Wire(addr) /\ f.count = Chunk
  BY <1>1, ReadRequestTyped DEF ReadRequest, Request
<1>3. \/ Answered(f) /\ Fine(f) /\ pc' = pc /\ ret' = "ok"
      \/ Answered(f) /\ ~ Fine(f) /\ pc' = "exit"
  BY <1>1, FaultDisturbs DEF ReadChunk, Failed, Exit
<1>4. CASE Answered(f) /\ Fine(f) /\ pc' = pc /\ ret' = "ok"
  BY <1>1, <1>4 DEF ReasonInv, Unrefused, RefusedForAReason
<1>5. CASE Answered(f) /\ ~ Fine(f) /\ pc' = "exit"
  <2>1. UNCHANGED <<key, purge>>
    BY <1>1, <1>2, <1>5, ExecuteRead DEF Answered
  <2>2. \/ purge[job.region] = "running" \/ key[job.region] = NoKey
        \/ Wire(addr) + Chunk - 1 > MaxAddr
    BY <1>1, <1>2, <1>5, ExecuteRead DEF Answered, Fine, Outcome
  <2>3. \/ purge'[job.region] # "none" \/ key'[job.region] = NoKey
        \/ job.start = NotGiven \/ job.start + job.num > MaxAddr + 1
    BY <1>1, <2>1, <2>2, PastTheEnd DEF IInv
  <2>4. QED
    BY <1>1, <1>5, <2>3 DEF ReasonInv, Unrefused, RefusedForAReason
<1>6. QED
  BY <1>3, <1>4, <1>5

LEMMA WriteChunkReason ==
  ASSUME IInv, ReadInv, ReasonInv, BlockCommand, Alone, Alone',
         NEW zero \in BOOLEAN, WriteChunk(zero)
  PROVE  ReasonInv'
<1> DEFINE f == WriteRequest(Mac(zero))
           r == job.region
<1>1. /\ pc = "write" /\ ~ LoopOver /\ job' = job /\ TypeOK /\ DevTypeOK
      /\ inSync' = inSync /\ zero /\ f \in Requests /\ resend' = {}
  BY WriteRequestTyped DEF WriteChunk, IInv, TypeOK, Alone, ReasonInv, Unrefused
<1>2. /\ f.req = "WRITE" /\ f.region = r /\ f.mac = job.key
      /\ f.addr = Wire(addr) /\ f.count = Chunk /\ f.counter = cnt
  BY <1>1 DEF WriteRequest, Request, Mac
<1>3. Writing
  BY <1>1 DEF BlockCommand, ReadInv
<1>4. Answered(f) /\ \/ Fine(f) /\ pc' = pc /\ ret' = "ok"
                     \/ ~ Fine(f) /\ pc' = "exit"
  BY <1>1, FaultDisturbs DEF WriteChunk, Failed, Exit
<1>5. key' = key
  BY <1>2, <1>4, ExecuteKeeps DEF Answered
<1>6. CASE Fine(f) /\ pc' = pc /\ ret' = "ok"
  BY <1>1, <1>5, <1>6 DEF ReasonInv, Unrefused, RefusedForAReason
<1>7. CASE ~ Fine(f) /\ pc' = "exit"
  <2>1. UNCHANGED <<counter, purge>> /\ result'[r] \in Objections(f)
    BY <1>1, <1>2, <1>4, <1>7, WriteRefused DEF Answered, Fine, Outcome
  <2>2. \/ purge[r] = "running" \/ key[r] = NoKey \/ key[r] # job.key
        \/ counter[r] >= CounterMax \/ counter[r] # cnt
        \/ Wire(addr) + Chunk - 1 > MaxAddr
    BY <1>2, <2>1 DEF Objections
  <2>3. inSync \/ key[r] = NoKey
    BY <1>1 DEF ReasonInv, Unrefused
  <2>4. inSync => counter[r] = cnt
    BY <1>1, <1>3 DEF IInv, CountersAgree, Alone, ReasonInv, Unrefused
  <2>5. counter[r] >= CounterMax => counter[r] = CounterMax
    <3>1. counter[r] \in 0 .. CounterMax
      BY <1>1, JobParts DEF DevTypeOK
    <3>2. QED
      BY <3>1, BoundsAssumption
  <2>6. Wire(addr) + Chunk - 1 > MaxAddr =>
          job.start = NotGiven \/ job.start + job.num > MaxAddr + 1
    BY <1>1, PastTheEnd DEF IInv
  <2>7. \/ key'[r] = NoKey \/ purge'[r] # "none"
        \/ key'[r] # job.key \/ counter'[r] = CounterMax
        \/ job.start = NotGiven \/ job.start + job.num > MaxAddr + 1
    BY <1>5, <2>1, <2>2, <2>3, <2>4, <2>5, <2>6
  <2>8. QED
    BY <1>1, <1>3, <1>7, <2>7
    DEF ReasonInv, Unrefused, RefusedForAReason, Writing
<1>8. QED
  BY <1>4, <1>6, <1>7

\* A purge that comes to its end was one; nothing else moves any more.
LEMMA OthersReason ==
  ASSUME IInv, ReasonInv, Alone, PurgeEnds \/ UNCHANGED vars
  PROVE  ReasonInv'
<1>1. UNCHANGED <<job, pc, ret, addr, left, key, counter, inSync, faults,
                  foreign, zeros, resend>>
  BY DEF PurgeEnds, DevPurgeEnds, vars, devVars, toolVars, loopVars, history
<1>2. purge[job.region] # "none" => purge'[job.region] # "none"
  <2>1. CASE UNCHANGED vars
    BY <2>1 DEF vars, devVars
  <2>2. CASE PurgeEnds
    <3>1. PICK r \in Regions : purge' = [purge EXCEPT ![r] = "done"]
      BY <2>2 DEF PurgeEnds, DevPurgeEnds
    <3>2. purge \in [Regions -> PurgeStates] /\ job.region \in Regions
      BY JobParts DEF IInv, TypeOK, DevTypeOK
    <3>3. QED
      BY <3>1, <3>2
  <2>3. QED
    BY <2>1, <2>2
<1>3. BlockCommand /\ Alone' => Unrefused'
  BY <1>1 DEF ReasonInv, Unrefused
<1>4. RefusedForAReason'
  BY <1>1, <1>2 DEF ReasonInv, RefusedForAReason, Reading, Writing
<1>5. QED
  BY <1>1, <1>3, <1>4 DEF ReasonInv, BlockCommand, Reading, Writing

\* Without failing calls, other hosts and a wrong padding, a write or a read
\* from a given address ends with an error only for a reason of the device or
\* of the input.
THEOREM Refusals == Spec => []RefusedForAReason
<1>1. Init => ReasonInv
  BY DEF Init, ReasonInv, Unrefused, RefusedForAReason
<1>2. IInv /\ ReadInv /\ ReasonInv /\ [Next]_vars => ReasonInv'
  <2> SUFFICES ASSUME IInv, ReadInv, ReasonInv, [Next]_vars PROVE ReasonInv'
    OBVIOUS
  <2>1. TypeOK /\ job' = job
    BY DEF IInv, Next, ToolNext, Terminating, vars, toolVars, OpenFails, DoArpmb,
           DoKey, DoReadCounter, ReadEnds, ReadOutOfMemory, ReadChunk, WriteEnds,
           WriteGivesUp, WriteChunk, Interrupted, ForeignWrite, PurgeEnds
  <2>2. CASE ~ Alone'
    BY <2>2, Disturbed
  <2>3. CASE ~ BlockCommand
    BY <2>1, <2>3, OtherCommand
  <2>4. CASE Alone' /\ BlockCommand
    <3>1. Alone /\ foreign' = foreign
      BY <2>1, <2>4, StillAlone
    <3>2. CASE \/ OpenFails \/ DoArpmb \/ ReadEnds \/ ReadOutOfMemory
               \/ WriteEnds \/ WriteGivesUp
      BY <2>4, <3>1, <3>2, StartReason
    <3>3. CASE DoReadCounter
      BY <2>4, <3>1, <3>3, CounterReason
    <3>4. CASE ReadChunk
      BY <2>4, <3>1, <3>4, ReadChunkReason
    <3>5. CASE \E zero \in BOOLEAN : WriteChunk(zero)
      BY <2>4, <3>1, <3>5, WriteChunkReason
    <3>6. CASE PurgeEnds \/ UNCHANGED vars
      BY <3>1, <3>6, OthersReason
    <3>7. ~ DoKey
      BY <2>4 DEF DoKey, BlockCommand, IInv, LoopInv, ReadInv
    <3>8. ~ ForeignWrite
      BY <2>1, <3>1 DEF ForeignWrite, TypeOK
    <3>9. ASSUME NEW zero \in BOOLEAN PROVE ~ Interrupted(zero)
      BY <2>1, <2>4, FaultDisturbs DEF Interrupted
    <3>10. QED
      BY <3>2, <3>3, <3>4, <3>5, <3>6, <3>7, <3>8, <3>9
      DEF Next, ToolNext, Terminating
  <2>5. QED
    BY <2>2, <2>3, <2>4
<1>3. ReasonInv => RefusedForAReason
  BY DEF ReasonInv
<1>4. QED
  BY <1>1, <1>2, <1>3, Inductive, Collected, PTL DEF Spec
=============================================================================

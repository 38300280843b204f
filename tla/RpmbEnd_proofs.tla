--------------------------- MODULE RpmbEnd_proofs ---------------------------
(***************************************************************************)
(* How a run of "ufs-utils rpmb" ends: theorems about what the tool prints *)
(* and returns, for every number of regions, keys, blocks, retries, faults *)
(* and other hosts.  They rest on the inductive invariant of Rpmb_proofs.  *)
(***************************************************************************)
EXTENDS Rpmb_proofs

\* The first request of a call of do_rpmb_op.
Opening ==
  CASE caller = "do_key" -> Authenticated("WRITE_KEY", job.region, 0)
    [] caller = "do_read_counter" -> Request("READ_CNT", CounterRegion)
    [] caller = "do_write_conf_block" -> Authenticated("SEC_CONF_WRITE", 0, cnt)
    [] caller = "do_rpmb_purge_enable" ->
         Authenticated("PURGE_ENABLE", job.region, cnt)
    [] caller = "do_read_rpmb_purge_status" -> Request("PURGE_STATUS", job.region)
    [] caller = "do_read_conf_block" -> Request("SEC_CONF_READ", 0)
    [] caller = "do_read_rpmb" -> ReadRequest
    [] caller = "do_write_rpmb" -> WriteRequest
    [] OTHER -> Request("READ_RESP", job.region)

\* The command a call is made for.
CallFits ==
  /\ caller # "none"
  /\ caller = "do_key" => job.cmd = "AUTHENTICATION_KEY"
  /\ caller = "do_read_counter" =>
       job.cmd \in {"READ_WRITE_COUNTER", "WRITE_RPMB",
                    "WRITE_SEC_RPMB_CONF_BLOCK", "PURGE_ENABLE"}
  /\ caller = "do_write_conf_block" => job.cmd = "WRITE_SEC_RPMB_CONF_BLOCK"
  /\ caller = "do_rpmb_purge_enable" => job.cmd = "PURGE_ENABLE"
  /\ caller = "do_read_rpmb_purge_status" => job.cmd = "READ_PURGE_STATUS"
  /\ caller = "do_read_conf_block" => job.cmd = "READ_SEC_RPMB_CONF_BLOCK"
  /\ caller = "do_read_rpmb" => Reading /\ left > 0 /\ addr <= MaxAddr
  /\ caller = "do_write_rpmb" => Writing

\* An answer is asked for, or was received.
Got == pc = "si" \/ (pc = "check" /\ ret = "ok")

\* do_rpmb_op sends the caller's request and then, where that changes
\* something, asks for the result of the same region.
FrameInv ==
  pc \in InOp =>
    /\ CallFits
    /\ pc = "so1" => frame = Opening
    /\ pc = "so2" => Opening.req \in Changes
    /\ (pc = "so2" \/ Got) =>
         frame = IF Opening.req \in Changes
                   THEN Request("READ_RESP", Opening.region) ELSE Opening

\* Nothing is reported done before the end.
SaidInv == said => pc = "exit"

\* What verify_rpmb_arg made sure of, and where the two loops are.
JobInv ==
  /\ job.cmd \in NeedsKey => job.key # NoKey
  /\ job.start >= NotGiven
  /\ pc = "read" => Reading
  /\ pc = "write" => Writing

CallInv == FrameInv /\ SaidInv /\ JobInv

-----------------------------------------------------------------------------
(* The requests of a call                                                  *)

LEMMA RequestParts ==
  ASSUME NEW type, NEW region
  PROVE  /\ Request(type, region).req = type
         /\ Request(type, region).region = region
         /\ Request(type, region).count = 1
BY DEF Request, Frame

LEMMA AuthenticatedParts ==
  ASSUME NEW type, NEW region, NEW c
  PROVE  /\ Authenticated(type, region, c).req = type
         /\ Authenticated(type, region, c).region = region
         /\ Authenticated(type, region, c).mac = job.key
         /\ Authenticated(type, region, c).first = 1
         /\ Authenticated(type, region, c).count = 1
BY DEF Authenticated, Frame

\* What a call asks the device for.
LEMMA OpeningParts ==
  /\ caller = "do_key" =>
       /\ Opening.req = "WRITE_KEY" /\ Opening.region = job.region
       /\ Opening.mac = job.key
  /\ caller = "do_read_counter" =>
       Opening.req = "READ_CNT" /\ Opening.region = CounterRegion
  /\ caller = "do_write_conf_block" =>
       /\ Opening.req = "SEC_CONF_WRITE" /\ Opening.region = 0
       /\ Opening.first = 1
  /\ caller = "do_rpmb_purge_enable" =>
       Opening.req = "PURGE_ENABLE" /\ Opening.region = job.region
  /\ caller = "do_read_rpmb_purge_status" =>
       Opening.req = "PURGE_STATUS" /\ Opening.region = job.region
  /\ caller = "do_read_conf_block" =>
       Opening.req = "SEC_CONF_READ" /\ Opening.region = 0
  /\ caller = "do_read_rpmb" =>
       Opening = ReadRequest /\ Opening.req = "READ" /\ Opening.region = job.region
  /\ caller = "do_write_rpmb" =>
       Opening = WriteRequest /\ Opening.req = "WRITE" /\ Opening.region = job.region
<1>1. CASE caller = "do_key"
  BY <1>1, AuthenticatedParts DEF Opening
<1>2. CASE caller = "do_read_counter"
  BY <1>2, RequestParts DEF Opening
<1>3. CASE caller = "do_write_conf_block"
  BY <1>3, AuthenticatedParts DEF Opening
<1>4. CASE caller = "do_rpmb_purge_enable"
  BY <1>4, AuthenticatedParts DEF Opening
<1>5. CASE caller = "do_read_rpmb_purge_status"
  BY <1>5, RequestParts DEF Opening
<1>6. CASE caller = "do_read_conf_block"
  BY <1>6, RequestParts DEF Opening
<1>7. CASE caller = "do_read_rpmb"
  BY <1>7 DEF Opening, ReadRequest, Frame
<1>8. CASE caller = "do_write_rpmb"
  BY <1>8 DEF Opening, WriteRequest, Frame
<1>9. QED
  BY <1>1, <1>2, <1>3, <1>4, <1>5, <1>6, <1>7, <1>8

\* While a call goes on its request stays the same.
LEMMA OpeningKept ==
  ASSUME UNCHANGED <<job, caller, addr, left, cnt>>
  PROVE  Opening' = Opening /\ (CallFits' <=> CallFits)
<1>1. /\ ReadRequest' = ReadRequest /\ WriteRequest' = WriteRequest
      /\ CounterRegion' = CounterRegion
  BY DEF ReadRequest, WriteRequest, Chunk, MaxBlocks, Done, CounterRegion
<1>2. Opening' = Opening
  BY <1>1 DEF Opening, Authenticated
<1>3. CallFits' <=> CallFits
  BY DEF CallFits, Reading, Writing
<1>4. QED
  BY <1>2, <1>3

\* A call begins with its request, or with a parameter error.
LEMMA CallBegins ==
  ASSUME NEW who, NEW f, DoRpmbOp(who, f)
  PROVE  /\ caller' = who /\ frame' = f /\ pc' \in InOp
         /\ pc' = "so1" \/ (pc' = "check" /\ ret' = "error")
         /\ ~ Got' /\ pc' # "so2" /\ pc' # "exit"
BY DEF DoRpmbOp, InOp, Sending, Got

\* Such a call establishes what is known about a call.
LEMMA CallEntered ==
  ASSUME CallInv, pc # "exit", UNCHANGED <<job, said>>,
         NEW who, NEW f, DoRpmbOp(who, f), CallFits', f = Opening'
  PROVE  CallInv'
<1>1. ~ said'
  BY DEF CallInv, SaidInv
<1>2. JobInv'
  BY CallBegins DEF CallInv, JobInv, InOp, Sending
<1>3. FrameInv'
  BY CallBegins DEF FrameInv
<1>4. QED
  BY <1>1, <1>2, <1>3 DEF CallInv, SaidInv

LEMMA DoRpmbFrame ==
  ASSUME TypeOK, CallInv, DoRpmb
  PROVE  CallInv'
<1>1. UNCHANGED <<job, said>> /\ pc # "exit"
  BY DEF DoRpmb
<1>2. job.cmd \in AllCommands \ {"READ_RPMB"}
  BY DEF DoRpmb, TypeOK, Jobs
<1>3. CASE job.cmd = "AUTHENTICATION_KEY"
  <2>1. DoRpmbOp("do_key", Authenticated("WRITE_KEY", job.region, 0))
    BY <1>3 DEF DoRpmb, FirstCall
  <2>2. CallFits' /\ Opening' = Authenticated("WRITE_KEY", job.region, 0)
    BY <1>1, <1>3, <2>1, CallBegins DEF CallFits, Opening, Authenticated
  <2>3. QED
    BY <1>1, <2>1, <2>2, CallEntered
<1>4. CASE job.cmd \in {"READ_WRITE_COUNTER", "WRITE_RPMB",
                        "WRITE_SEC_RPMB_CONF_BLOCK", "PURGE_ENABLE"}
  <2>1. DoRpmbOp("do_read_counter", Request("READ_CNT", CounterRegion))
    BY <1>4 DEF DoRpmb, FirstCall
  <2>2. CallFits' /\ Opening' = Request("READ_CNT", CounterRegion)
    BY <1>1, <1>4, <2>1, CallBegins DEF CallFits, Opening, CounterRegion
  <2>3. QED
    BY <1>1, <2>1, <2>2, CallEntered
<1>5. CASE job.cmd = "READ_SEC_RPMB_CONF_BLOCK"
  <2>1. DoRpmbOp("do_read_conf_block", Request("SEC_CONF_READ", 0))
    BY <1>5 DEF DoRpmb, FirstCall
  <2>2. CallFits' /\ Opening' = Request("SEC_CONF_READ", 0)
    BY <1>1, <1>5, <2>1, CallBegins DEF CallFits, Opening
  <2>3. QED
    BY <1>1, <2>1, <2>2, CallEntered
<1>6. CASE job.cmd = "READ_PURGE_STATUS"
  <2>1. DoRpmbOp("do_read_rpmb_purge_status", Request("PURGE_STATUS", job.region))
    BY <1>6 DEF DoRpmb, FirstCall
  <2>2. CallFits' /\ Opening' = Request("PURGE_STATUS", job.region)
    BY <1>1, <1>6, <2>1, CallBegins DEF CallFits, Opening
  <2>3. QED
    BY <1>1, <2>1, <2>2, CallEntered
<1>7. QED
  BY <1>2, <1>3, <1>4, <1>5, <1>6 DEF AllCommands

\* A step that leaves do_rpmb_op.
LEMMA CallLeft ==
  ASSUME CallInv, job' = job, pc' \notin InOp, said' => pc' = "exit",
         pc' = "read" => Reading, pc' = "write" => Writing
  PROVE  CallInv'
BY DEF CallInv, FrameInv, SaidInv, JobInv, Reading, Writing

LEMMA CounterReturnsFrame ==
  ASSUME TypeOK, CallInv, CounterReturns
  PROVE  CallInv'
<1>1. job' = job /\ pc = "check" /\ ~ said
  BY DEF CounterReturns, Return, CallInv, SaidInv
<1>2. CASE pc' = "exit" \/ (pc' = "write" /\ Writing /\ said' = said)
  BY <1>1, <1>2, CallLeft DEF InOp, Sending
<1>3. CASE /\ job.cmd = "PURGE_ENABLE" /\ said' = said
           /\ DoRpmbOp("do_rpmb_purge_enable",
                       Authenticated("PURGE_ENABLE", job.region, cnt'))
  <2>1. /\ CallFits'
        /\ Opening' = Authenticated("PURGE_ENABLE", job.region, cnt')
    BY <1>1, <1>3, CallBegins DEF CallFits, Opening, Authenticated
  <2>2. QED
    BY <1>1, <1>3, <2>1, CallEntered
<1>4. CASE /\ job.cmd = "WRITE_SEC_RPMB_CONF_BLOCK" /\ said' = said
           /\ DoRpmbOp("do_write_conf_block",
                       Authenticated("SEC_CONF_WRITE", 0, cnt'))
  <2>1. CallFits' /\ Opening' = Authenticated("SEC_CONF_WRITE", 0, cnt')
    BY <1>1, <1>4, CallBegins DEF CallFits, Opening, Authenticated
  <2>2. QED
    BY <1>1, <1>4, <2>1, CallEntered
<1>5. QED
  BY <1>2, <1>3, <1>4 DEF CounterReturns, Finish, Writing

LEMMA ChunkFrame ==
  ASSUME CallInv, ReadChunk \/ WriteChunk
  PROVE  CallInv'
<1>1. /\ UNCHANGED <<job, addr, left, cnt, said>> /\ pc \in {"read", "write"}
      /\ left > 0 /\ addr <= MaxAddr
  BY DEF ReadChunk, WriteChunk, LoopGoesOn, loopVars
<1>2. /\ ReadRequest' = ReadRequest /\ WriteRequest' = WriteRequest
      /\ (Reading' <=> Reading) /\ (Writing' <=> Writing)
  BY <1>1 DEF ReadRequest, WriteRequest, Chunk, MaxBlocks, Done, Reading, Writing
<1>3. CASE ReadChunk
  <2>1. DoRpmbOp("do_read_rpmb", ReadRequest) /\ Reading
    BY <1>3 DEF ReadChunk, LoopGoesOn, CallInv, JobInv
  <2>2. CallFits' /\ ReadRequest = Opening'
    BY <1>1, <1>2, <2>1, CallBegins DEF CallFits, Opening
  <2>3. QED
    BY <1>1, <2>1, <2>2, CallEntered
<1>4. CASE WriteChunk
  <2>1. DoRpmbOp("do_write_rpmb", WriteRequest) /\ Writing
    BY <1>4 DEF WriteChunk, LoopGoesOn, CallInv, JobInv
  <2>2. CallFits' /\ WriteRequest = Opening'
    BY <1>1, <1>2, <2>1, CallBegins DEF CallFits, Opening
  <2>3. QED
    BY <1>1, <2>1, <2>2, CallEntered
<1>5. QED
  BY <1>3, <1>4

\* An SO that does not end the call: it is repeated, or do_rpmb_op goes on to
\* ask for the result or for the answer.
LEMMA Sends ==
  ASSUME CallInv, SecurityOut
  PROVE  \/ UNCHANGED <<pc, frame>>
         \/ /\ pc = "so1" /\ Opening.req \in Changes /\ pc' = "so2"
            /\ frame' = Request("READ_RESP", Opening.region)
         \/ /\ pc' = "si" /\ frame' = frame
            /\ pc = "so1" => Opening.req \notin Changes
<1>1. pc = "so1" => frame = Opening
  BY DEF CallInv, FrameInv, InOp, Sending
<1>2. AfterSO \/ UNCHANGED <<pc, frame>>
  BY DEF SecurityOut, SoSucceeds, SoVanishes, SoFails
<1>3. pc \in {"so1", "so2"}
  BY DEF SecurityOut
<1>4. QED
  BY <1>1, <1>2, <1>3 DEF AfterSO, ResultRequest

LEMMA SecurityFrame ==
  ASSUME CallInv, SecurityOut \/ SecurityIn
  PROVE  CallInv'
<1>1. UNCHANGED <<job, caller, addr, left, cnt, said>>
  BY DEF SecurityOut, SecurityIn, loopVars
<1>2. Opening' = Opening /\ (CallFits' <=> CallFits)
  BY <1>1, OpeningKept
<1>3. pc \in Sending /\ pc' \in InOp /\ ~ said
  <2>1. CASE SecurityOut
    BY <2>1, Sends DEF SecurityOut, CallInv, SaidInv, Sending, InOp
  <2>2. CASE SecurityIn
    BY <2>2
    DEF SecurityIn, SiSucceeds, SiVanishes, SiFails, CallInv, SaidInv, Sending,
        InOp
  <2>3. QED
    BY <2>1, <2>2
<1>4. CallFits
  BY <1>3 DEF CallInv, FrameInv, InOp
<1>5. SaidInv' /\ JobInv'
  BY <1>1, <1>3 DEF CallInv, SaidInv, JobInv, InOp, Sending
<1>6. FrameInv'
  <2>1. CASE SecurityOut
    <3>1. pc = "so2" => frame = Request("READ_RESP", Opening.region)
                        /\ Opening.req \in Changes
      BY DEF CallInv, FrameInv, InOp, Sending
    <3>2. pc = "so1" => frame = Opening
      BY DEF CallInv, FrameInv, InOp, Sending
    <3>3. pc \in {"so1", "so2"} /\ pc' # "check"
      BY <2>1, Sends DEF SecurityOut
    <3>4. QED
      BY <1>2, <1>4, <2>1, <3>1, <3>2, <3>3, Sends DEF FrameInv, Got
  <2>2. CASE SecurityIn
    <3>1. pc = "si" /\ pc' \in {"si", "check"} /\ frame' = frame
      BY <2>2 DEF SecurityIn, SiSucceeds, SiVanishes, SiFails
    <3>2. QED
      BY <1>2, <1>4, <3>1 DEF CallInv, FrameInv, InOp, Sending, Got
  <2>3. QED
    BY <2>1, <2>2
<1>7. QED
  BY <1>5, <1>6 DEF CallInv

\* The steps that leave a call or a loop.
LEMMA LeavingFrame ==
  ASSUME CallInv,
         \/ OpenFails \/ KeyReturns \/ ChangeReturns \/ PurgeStatusReturns
         \/ ConfReadReturns \/ ReadBegins \/ ReadOutOfMemory \/ ReadReturns
         \/ WriteGivesUp \/ WriteReturns
         \/ \E loop \in {"read", "write"} : LoopEnds(loop)
  PROVE  CallInv'
<1>1. job' = job
  BY DEF OpenFails, KeyReturns, ChangeReturns, PurgeStatusReturns,
         ConfReadReturns, ReadBegins, ReadOutOfMemory, ReadReturns,
         WriteGivesUp, WriteReturns, LoopEnds
<1>2. CASE pc' = "exit"
  BY <1>1, <1>2, CallLeft DEF InOp, Sending
<1>3. CASE pc' # "exit"
  <2>1. \/ ReadBegins /\ pc = "start" /\ pc' = "read" /\ said' = said
        \/ /\ Return("do_read_rpmb") /\ pc' = "read" /\ said' = said
        \/ /\ Return("do_write_rpmb") /\ pc' = "write" /\ said' = said
    BY <1>3
    DEF OpenFails, KeyReturns, ChangeReturns, PurgeStatusReturns,
        ConfReadReturns, ReadBegins, ReadOutOfMemory, ReadReturns,
        WriteGivesUp, WriteReturns, LoopEnds, Finish
  <2>2. /\ pc' = "read" => Reading
        /\ pc' = "write" => Writing
        /\ pc' \notin InOp /\ ~ said
    BY <2>1
    DEF ReadBegins, Return, CallInv, FrameInv, SaidInv, CallFits, Reading, InOp,
        Sending
  <2>3. QED
    BY <1>1, <2>1, <2>2, CallLeft
<1>4. QED
  BY <1>2, <1>3

LEMMA OthersFrame ==
  ASSUME CallInv, ForeignWrite \/ PurgeEnds \/ UNCHANGED vars
  PROVE  CallInv'
<1>1. UNCHANGED toolVars
  BY DEF ForeignWrite, PurgeEnds, vars
<1>2. UNCHANGED <<job, pc, caller, frame, ret, addr, left, cnt, said>>
  BY <1>1 DEF toolVars, loopVars
<1>3. Opening' = Opening /\ (CallFits' <=> CallFits)
  BY <1>2, OpeningKept
<1>4. QED
  BY <1>2, <1>3 DEF CallInv, FrameInv, SaidInv, JobInv, Got, Reading, Writing

LEMMA InitFrame == Init => CallInv
<1> SUFFICES ASSUME Init PROVE CallInv
  OBVIOUS
<1>1. pc = "start" /\ ~ said
  BY DEF Init
<1>2. PICK o \in CommandLines : Legal(o) /\ job = Verified(o)
  BY DEF Init
<1>3. job.cmd = o.cmd /\ job.key = o.key
  BY <1>2 DEF Verified, CommandLines
<1>4. job.start \in {o.start, 0}
  BY <1>2 DEF Verified, CommandLines, Default
<1>5. o.start \in Addrs \cup {NotGiven}
  <2>1. o.start \in StartBlocks
    BY DEF CommandLines
  <2>2. QED
    BY <2>1, OptionsAssumption
<1>6. job.start >= NotGiven
  BY <1>4, <1>5, BoundsAssumption DEF Addrs, NotGiven
<1>7. QED
  BY <1>1, <1>2, <1>3, <1>6
  DEF CallInv, FrameInv, SaidInv, JobInv, Legal, InOp, Sending

\* While do_rpmb_op runs, the request it sends and the result it asks for are
\* those of the function that called it, and nothing is reported done before
\* the run is at its end.
THEOREM Calls == Spec => []CallInv
<1>1. IInv /\ CallInv /\ [Next]_vars => CallInv'
  <2> SUFFICES ASSUME IInv, CallInv, [Next]_vars PROVE CallInv'
    OBVIOUS
  <2>1. TypeOK
    BY DEF IInv, Inv
  <2>2. CASE DoRpmb
    BY <2>1, <2>2, DoRpmbFrame
  <2>3. CASE CounterReturns
    BY <2>1, <2>3, CounterReturnsFrame
  <2>4. CASE ReadChunk \/ WriteChunk
    BY <2>4, ChunkFrame
  <2>5. CASE SecurityOut \/ SecurityIn
    BY <2>5, SecurityFrame
  <2>6. CASE ForeignWrite \/ PurgeEnds \/ UNCHANGED vars
    BY <2>6, OthersFrame
  <2>7. CASE \/ OpenFails \/ KeyReturns \/ ChangeReturns \/ PurgeStatusReturns
             \/ ConfReadReturns \/ ReadBegins \/ ReadOutOfMemory \/ ReadReturns
             \/ WriteGivesUp \/ WriteReturns
             \/ \E loop \in {"read", "write"} : LoopEnds(loop)
    BY <2>7, LeavingFrame
  <2>8. QED
    BY <2>2, <2>3, <2>4, <2>5, <2>6, <2>7 DEF Next, ToolNext, Terminating
<1>2. QED
  BY <1>1, InitFrame, Inductive, PTL DEF Spec

-----------------------------------------------------------------------------
(* The answers and the result register                                     *)

\* What the device's answer to a request says about the device.
TrueAnswer(f) ==
  LET r == f.region
      a == resp[r] IN
  /\ f.req = "READ_RESP" => a.result = result[r]
  /\ f.req = "READ_CNT" =>
       IF key[r] = NoKey THEN a.result # "Success"
                         ELSE a.result = "Success" /\ a.counter = counter[r]
  /\ (f.req = "READ" /\ a.result = "Success") =>
       /\ f.addr + f.count - 1 <= MaxAddr
       /\ a.blocks = [i \in 1 .. f.count |-> data[r][f.addr + i - 1]]
  /\ (f.req = "SEC_CONF_READ" /\ a.result = "Success") => a.blocks = <<conf>>
  /\ (f.req = "PURGE_ENABLE" /\ a.result = "Success") => purge[r] # "none"
  /\ f.req = "PURGE_STATUS" =>
       /\ Len(a.blocks) = 1
       /\ a.blocks[1] <= PurgeCode(purge[r])

\* While no error is masked and no other host writes, the answer the tool
\* looks at is the device's to the request it sent last ...
AnswerInv ==
  Undisturbed =>
    /\ Got => TrueAnswer(frame)
    /\ (pc = "check" /\ ret = "ok") => reply = resp[frame.region]

\* ... and the result the device keeps is that of the last try.
ResultInv ==
  (Undisturbed /\ (pc = "so2" \/ Got)) =>
    /\ (caller = "do_key" /\ result[job.region] = "Success") =>
         key[job.region] = job.key
    /\ (caller = "do_write_conf_block" /\ result[0] = "Success") => conf = 1
    /\ (caller = "do_write_rpmb" /\ result[job.region] = "Success") =>
         counter[job.region] = cnt + 1 /\ applied = Done + Chunk

TruthInv == AnswerInv /\ ResultInv

LEMMA PurgeCodeTyped ==
  ASSUME NEW state \in PurgeStates
  PROVE  PurgeCode(state) \in 0 .. 2
BY DEF PurgeStates, PurgeCode

LEMMA ExecuteAnswers ==
  ASSUME DevTypeOK, NEW f \in Requests, DevExecute(f)
  PROVE  TrueAnswer(f)'
<1>1. f.region \in Regions
  BY DEF Requests
<1>2. CASE f.req = "READ_RESP"
  BY <1>2, ExecuteResult DEF TrueAnswer
<1>3. CASE f.req = "READ_CNT"
  BY <1>3, ExecuteCounter DEF TrueAnswer
<1>4. CASE f.req = "READ"
  BY <1>4, ExecuteRead DEF TrueAnswer
<1>5. CASE f.req = "SEC_CONF_READ"
  BY <1>5, ExecuteConfRead DEF TrueAnswer
<1>6. CASE f.req = "PURGE_ENABLE"
  BY <1>6, ExecutePurgeEnable DEF TrueAnswer
<1>7. CASE f.req = "PURGE_STATUS"
  <2>1. purge[f.region] \in PurgeStates
    BY <1>1 DEF DevTypeOK
  <2>2. PurgeCode(purge[f.region]) \in 0 .. 2
    BY <2>1, PurgeCodeTyped
  <2>3. /\ purge' = purge
        /\ resp'[f.region].blocks = <<PurgeCode(purge[f.region])>>
    BY <1>7, ExecutePurgeStatus
  <2>4. QED
    BY <1>7, <2>2, <2>3 DEF TrueAnswer
<1>8. CASE f.req \in Changes
  BY <1>8 DEF TrueAnswer, Changes
<1>9. f.req \in RequestTypes
  BY DEF Requests
<1>10. QED
  BY <1>2, <1>3, <1>4, <1>5, <1>6, <1>7, <1>8, <1>9 DEF RequestTypes, Changes

\* An answer stays true while the device does nothing but end a purge.
LEMMA AnswerStays ==
  ASSUME DevTypeOK, NEW f \in Requests, TrueAnswer(f),
         UNCHANGED devVars \/ PurgeEnds
  PROVE  TrueAnswer(f)'
<1>1. CASE UNCHANGED devVars
  BY <1>1 DEF TrueAnswer, devVars
<1>2. CASE PurgeEnds
  <2>1. PICK r \in Regions : DevPurgeEnds(r)
    BY <1>2 DEF PurgeEnds
  <2>2. UNCHANGED <<key, counter, data, conf, result, resp>>
    BY <2>1 DEF DevPurgeEnds
  <2>3. f.region \in Regions /\ purge[f.region] \in PurgeStates
    BY DEF Requests, DevTypeOK
  <2>4. \/ purge'[f.region] = purge[f.region]
        \/ purge[f.region] = "running" /\ purge'[f.region] = "done"
    BY <2>1, <2>3 DEF DevPurgeEnds, DevTypeOK
  <2>5. CASE purge'[f.region] = purge[f.region]
    BY <2>2, <2>5 DEF TrueAnswer
  <2>6. CASE purge[f.region] = "running" /\ purge'[f.region] = "done"
    <3>1. PurgeCode("running") = 1 /\ PurgeCode("done") = 2
      BY DEF PurgeCode
    <3>2. f.req = "PURGE_STATUS" => resp[f.region].blocks[1] \in Int
      <4>1. resp[f.region].blocks \in Seq(Int)
        BY <2>3 DEF DevTypeOK, Answers
      <4>2. QED
        BY <4>1 DEF TrueAnswer
    <3>3. QED
      BY <2>2, <2>6, <3>1, <3>2 DEF TrueAnswer
  <2>7. QED
    BY <2>4, <2>5, <2>6
<1>3. QED
  BY <1>1, <1>2

\* A masked error stays one, and nothing undoes a disturbance.
LEMMA MaskStays ==
  ASSUME [Next]_vars, ~ masked'
  PROVE  ~ masked
BY DEF Next, ToolNext, Terminating, OpenFails, DoRpmb, SecurityOut, SecurityIn,
    SoSucceeds, SoVanishes, SoFails, SiSucceeds, SiVanishes, SiFails,
    KeyReturns, CounterReturns, ChangeReturns, PurgeStatusReturns,
    ConfReadReturns, ReadBegins, ReadChunk, ReadOutOfMemory, ReadReturns,
    WriteChunk, WriteGivesUp, WriteReturns, LoopEnds, ForeignWrite, PurgeEnds,
    vars, history

LEMMA DisturbanceStays ==
  ASSUME TypeOK, [Next]_vars, Undisturbed'
  PROVE  Undisturbed /\ ~ ForeignWrite
<1>1. foreign \in Nat
  BY LimitsAssumption DEF TypeOK
<1>2. ForeignWrite => foreign' # 0
  BY <1>1 DEF ForeignWrite
<1>3. ForeignWrite \/ foreign' = foreign
  BY DEF Next, ToolNext, Terminating, OpenFails, DoRpmb, SecurityOut, SecurityIn,
      KeyReturns, CounterReturns, ChangeReturns, PurgeStatusReturns,
      ConfReadReturns, ReadBegins, ReadChunk, ReadOutOfMemory, ReadReturns,
      WriteChunk, WriteGivesUp, WriteReturns, LoopEnds, PurgeEnds, vars
<1>4. ~ masked' => ~ masked
  BY MaskStays
<1>5. QED
  BY <1>2, <1>3, <1>4 DEF Undisturbed

\* The command line does not change.
LEMMA JobFixed ==
  ASSUME [Next]_vars
  PROVE  job' = job
BY DEF Next, ToolNext, Terminating, OpenFails, DoRpmb, SecurityOut, SecurityIn,
       KeyReturns, CounterReturns, ChangeReturns, PurgeStatusReturns,
       ConfReadReturns, ReadBegins, ReadChunk, ReadOutOfMemory, ReadReturns,
       WriteChunk, WriteGivesUp, WriteReturns, LoopEnds, ForeignWrite, PurgeEnds,
       toolVars, vars

\* An SO after which do_rpmb_op goes on has been executed, unless its failure
\* is masked.
LEMMA GoesOn ==
  ASSUME SecurityOut, ~ masked', pc' # pc
  PROVE  DevExecute(frame) /\ NoteApplied /\ ret' = "ok"
BY DEF SecurityOut, SoSucceeds, SoVanishes, SoFails

\* Steps outside of do_rpmb_op end up without an answer.
LEMMA NoAnswer ==
  ASSUME TypeOK,
         \/ DoRpmb \/ CounterReturns \/ ReadChunk \/ WriteChunk
         \/ OpenFails \/ KeyReturns \/ ChangeReturns \/ PurgeStatusReturns
         \/ ConfReadReturns \/ ReadBegins \/ ReadOutOfMemory \/ ReadReturns
         \/ WriteGivesUp \/ WriteReturns
         \/ \E loop \in {"read", "write"} : LoopEnds(loop)
  PROVE  ~ Got' /\ pc' # "so2"
<1>1. CASE DoRpmb
  <2>1. job.cmd \in AllCommands \ {"READ_RPMB"}
    BY <1>1 DEF DoRpmb, TypeOK, Jobs
  <2>2. \E who, f : DoRpmbOp(who, f)
    BY <1>1, <2>1 DEF DoRpmb, FirstCall, AllCommands
  <2>3. QED
    BY <2>2, CallBegins
<1>2. CASE ~ DoRpmb
  <2>1. \/ pc' \in {"read", "write", "exit"}
        \/ pc' = "so1" \/ (pc' = "check" /\ ret' = "error")
    BY <1>2
    DEF DoRpmbOp, CounterReturns, ReadChunk, WriteChunk, OpenFails,
        KeyReturns, ChangeReturns, PurgeStatusReturns, ConfReadReturns,
        ReadBegins, ReadOutOfMemory, ReadReturns, WriteGivesUp, WriteReturns,
        LoopEnds, Finish
  <2>2. QED
    BY <2>1 DEF Got
<1>3. QED
  BY <1>1, <1>2

LEMMA AnswerKept ==
  ASSUME IInv, CallInv, AnswerInv, [Next]_vars
  PROVE  AnswerInv'
<1> SUFFICES ASSUME Undisturbed'
             PROVE  /\ Got' => TrueAnswer(frame)'
                    /\ (pc = "check" /\ ret = "ok")' =>
                         reply' = resp'[frame'.region]
  BY DEF AnswerInv
<1>1. TypeOK /\ DevTypeOK /\ frame \in Requests
  BY DEF IInv, Inv, TypeOK
<1>2. Undisturbed /\ ~ ForeignWrite
  BY <1>1, DisturbanceStays
<1>3. PICK f \in Requests : f = frame
  BY <1>1
<1>4. Got => TrueAnswer(f)
  BY <1>2, <1>3 DEF AnswerInv
<1>5. ASSUME UNCHANGED devVars \/ PurgeEnds, Got, frame' = frame
      PROVE  TrueAnswer(frame)' /\ resp' = resp
  <2>1. TrueAnswer(f)'
    BY <1>1, <1>4, <1>5, AnswerStays
  <2>2. resp' = resp
    BY <1>5 DEF devVars, PurgeEnds, DevPurgeEnds
  <2>3. QED
    BY <1>3, <1>5, <2>1, <2>2 DEF TrueAnswer
<1>6. CASE SecurityOut
  <2>1. pc' # "check"
    BY <1>6, Sends DEF SecurityOut
  <2>2. ASSUME pc' = "si" PROVE TrueAnswer(frame)'
    <3>1. frame' = frame /\ pc' # pc
      BY <1>6, <2>2, Sends DEF SecurityOut
    <3>2. DevExecute(frame)
      BY <1>6, <3>1, GoesOn DEF Undisturbed
    <3>3. TrueAnswer(f)'
      BY <1>1, <1>3, <3>2, ExecuteAnswers
    <3>4. QED
      BY <1>3, <3>1, <3>3 DEF TrueAnswer
  <2>3. QED
    BY <2>1, <2>2 DEF Got
<1>7. CASE SecurityIn
  <2>1. UNCHANGED devVars /\ frame' = frame /\ Got
    BY <1>7 DEF SecurityIn, Got
  <2>2. TrueAnswer(frame)' /\ resp' = resp
    BY <1>5, <2>1
  <2>3. (pc' = "check" /\ ret' = "ok") => reply' = resp[frame.region]
    BY <1>7 DEF SecurityIn, SiSucceeds, SiVanishes, SiFails, Undisturbed
  <2>4. QED
    BY <2>1, <2>2, <2>3
<1>8. CASE PurgeEnds \/ UNCHANGED vars
  <2>1. UNCHANGED <<pc, ret, frame, reply>> /\ (Got' <=> Got)
    BY <1>8 DEF PurgeEnds, toolVars, vars, Got
  <2>2. UNCHANGED devVars \/ PurgeEnds
    BY <1>8 DEF vars
  <2>3. Got => TrueAnswer(frame)' /\ resp' = resp
    BY <1>5, <2>1, <2>2
  <2>4. (pc = "check" /\ ret = "ok") => Got /\ reply = resp[frame.region]
    BY <1>2 DEF AnswerInv, Got
  <2>5. QED
    BY <2>1, <2>3, <2>4
<1>9. CASE \/ DoRpmb \/ CounterReturns \/ ReadChunk \/ WriteChunk
           \/ OpenFails \/ KeyReturns \/ ChangeReturns \/ PurgeStatusReturns
           \/ ConfReadReturns \/ ReadBegins \/ ReadOutOfMemory \/ ReadReturns
           \/ WriteGivesUp \/ WriteReturns
           \/ \E loop \in {"read", "write"} : LoopEnds(loop)
  <2>1. ~ Got'
    BY <1>1, <1>9, NoAnswer
  <2>2. QED
    BY <2>1 DEF Got
<1>10. QED
  BY <1>2, <1>6, <1>7, <1>8, <1>9 DEF Next, ToolNext, Terminating

\* The parts of the request of a chunk of do_write_rpmb.
LEMMA WriteRequestParts ==
  ASSUME IInv, Writing, left > 0, addr <= MaxAddr
  PROVE  /\ WriteRequest.req = "WRITE" /\ WriteRequest.region = job.region
         /\ WriteRequest.counter = cnt /\ WriteRequest.mac = job.key
         /\ WriteRequest.count = Chunk /\ WriteRequest.first = Done + 1
         /\ WriteRequest.addr = addr /\ addr \in Addrs
         /\ addr = job.start + Done
         /\ Chunk \in Nat /\ Done \in Nat /\ Done + Chunk <= job.num
         /\ job.num \in Nat
<1>1. /\ job \in Jobs /\ job.num \in Nat /\ left \in 0 .. job.num
      /\ job.start \in Addrs /\ addr = job.start + Done
  BY DEF IInv, Inv, TypeOK, LoopInv
<1>2. Chunk \in Nat /\ Chunk <= left
  BY <1>1, ChunkTyped
<1>3. Done \in Nat /\ Done + Chunk <= job.num
  BY <1>1, <1>2 DEF Done
<1>4. addr \in Addrs /\ Wire(addr) = addr
  <2>1. addr \in Addrs
    BY <1>1, <1>3, BoundsAssumption DEF Addrs
  <2>2. QED
    BY <2>1, WireTyped, BoundsAssumption DEF Addrs
<1>5. QED
  BY <1>1, <1>2, <1>3, <1>4 DEF WriteRequest, Frame

LEMMA ResultStays ==
  ASSUME ResultInv, Undisturbed, pc = "so2" \/ Got,
         UNCHANGED <<job, caller, left, cnt, key, counter, conf, result, applied>>
  PROVE  ResultInv'
BY DEF ResultInv, Done, Chunk, MaxBlocks

\* do_rpmb_op goes on from a change that was executed to its result.
LEMMA ChangeShows ==
  ASSUME IInv, CallInv, SecurityOut, pc = "so1", pc' = "so2", ~ masked'
  PROVE  ResultInv'
<1>1. /\ DevExecute(frame) /\ NoteApplied /\ frame = Opening /\ CallFits
      /\ UNCHANGED <<job, caller, left, cnt>>
  BY GoesOn
  DEF SecurityOut, CallInv, FrameInv, InOp, Sending, loopVars
<1>2. DevTypeOK /\ frame \in Requests
  BY DEF IInv, Inv, TypeOK
<1>3. ASSUME caller = "do_key", result'[job.region] = "Success"
      PROVE  key'[job.region] = job.key
  BY <1>1, <1>2, <1>3, OpeningParts, KeyWritten
<1>4. ASSUME caller = "do_write_conf_block", result'[0] = "Success"
      PROVE  conf' = 1
  BY <1>1, <1>2, <1>4, OpeningParts, ConfWritten
<1>5. ASSUME caller = "do_write_rpmb", result'[job.region] = "Success"
      PROVE  counter'[job.region] = cnt + 1 /\ applied' = Done + Chunk
  <2>1. Writing /\ left > 0 /\ addr <= MaxAddr
    BY <1>1, <1>5 DEF IInv, LoopInv, CallFits, InOp, Sending
  <2>2. /\ frame.req = "WRITE" /\ frame.region = job.region
        /\ frame.counter = cnt /\ frame.first = Done + 1 /\ frame.count = Chunk
        /\ Chunk \in Nat /\ Done \in Nat
    BY <1>1, <1>5, <2>1, OpeningParts, WriteRequestParts
  <2>3. counter'[job.region] = cnt + 1 /\ counter' # counter
    BY <1>1, <1>2, <1>5, <2>2, BlocksWritten
  <2>4. QED
    BY <1>1, <2>2, <2>3 DEF NoteApplied
<1>6. Done' = Done /\ Chunk' = Chunk
  BY <1>1 DEF Done, Chunk, MaxBlocks
<1>7. QED
  BY <1>1, <1>3, <1>4, <1>5, <1>6 DEF ResultInv

LEMMA ResultKept ==
  ASSUME IInv, CallInv, ResultInv, [Next]_vars
  PROVE  ResultInv'
<1> SUFFICES ASSUME Undisturbed', pc' = "so2" \/ Got'
             PROVE  ResultInv'
  BY DEF ResultInv
<1>1. TypeOK /\ DevTypeOK /\ frame \in Requests
  BY DEF IInv, Inv, TypeOK
<1>2. Undisturbed /\ ~ ForeignWrite
  BY <1>1, DisturbanceStays
<1>3. CASE SecurityOut
  <2>1. UNCHANGED <<job, caller, left, cnt>> /\ pc \in {"so1", "so2"}
    BY <1>3 DEF SecurityOut, loopVars
  <2>2. CASE pc = "so2"
    <3>1. frame.req = "READ_RESP"
      BY <2>2 DEF IInv, Inv, OpInv
    <3>2. \/ DevExecute(frame) /\ NoteApplied
          \/ UNCHANGED <<devVars, applied>>
      BY <1>3 DEF SecurityOut, SoSucceeds, SoVanishes, SoFails
    <3>3. UNCHANGED <<key, counter, conf, result, applied>>
      BY <1>1, <3>1, <3>2, ExecuteResult DEF NoteApplied, devVars
    <3>4. QED
      BY <1>2, <2>1, <2>2, <3>3, ResultStays
  <2>3. CASE pc = "so1" /\ pc' = "so2"
    BY <1>3, <2>3, ChangeShows DEF Undisturbed
  <2>4. CASE pc = "so1" /\ pc' # "so2"
    <3>1. Opening.req \notin Changes
      BY <1>3, <2>4, Sends DEF Got
    <3>2. caller \notin {"do_key", "do_write_conf_block", "do_write_rpmb"}
      BY <3>1, OpeningParts DEF Changes
    <3>3. QED
      BY <2>1, <3>2 DEF ResultInv
  <2>5. QED
    BY <2>1, <2>2, <2>3, <2>4
<1>4. CASE SecurityIn
  <2>1. UNCHANGED <<job, caller, left, cnt, devVars, applied>> /\ Got
    BY <1>4 DEF SecurityIn, Got, loopVars
  <2>2. QED
    BY <1>2, <2>1, ResultStays DEF devVars
<1>5. CASE PurgeEnds \/ UNCHANGED vars
  <2>1. UNCHANGED <<job, pc, ret, caller, left, cnt, key, counter, conf, result,
                    applied>>
    BY <1>5
    DEF PurgeEnds, DevPurgeEnds, toolVars, loopVars, history, vars, devVars
  <2>2. pc = "so2" \/ Got
    BY <2>1 DEF Got
  <2>3. QED
    BY <1>2, <2>1, <2>2, ResultStays
<1>6. CASE \/ DoRpmb \/ CounterReturns \/ ReadChunk \/ WriteChunk
           \/ OpenFails \/ KeyReturns \/ ChangeReturns \/ PurgeStatusReturns
           \/ ConfReadReturns \/ ReadBegins \/ ReadOutOfMemory \/ ReadReturns
           \/ WriteGivesUp \/ WriteReturns
           \/ \E loop \in {"read", "write"} : LoopEnds(loop)
  BY <1>1, <1>6, NoAnswer
<1>7. QED
  BY <1>2, <1>3, <1>4, <1>5, <1>6 DEF Next, ToolNext, Terminating

\* With no masked error and no other host, the answer the tool acts on is the
\* device's to its last request, and a change the device reports as done was
\* done by this call, however often do_rpmb_op sent it.
THEOREM Answered == Spec => []TruthInv
<1>1. /\ IInv /\ CallInv /\ TruthInv /\ [Next]_vars => TruthInv'
  BY AnswerKept, ResultKept DEF TruthInv
<1>2. Init => TruthInv
  BY DEF Init, TruthInv, AnswerInv, ResultInv, Got
<1>3. QED
  BY <1>1, <1>2, Inductive, Calls, PTL DEF Spec

\* What the tool may conclude from the answer it acts on.
LEMMA Told ==
  ASSUME IInv, CallInv, TruthInv, Undisturbed, pc = "check", ret = "ok"
  PROVE  /\ (caller = "do_key" /\ Fine) => key[job.region] = job.key
         /\ caller = "do_read_counter" =>
              IF key[CounterRegion] = NoKey THEN ~ Fine
                ELSE Fine /\ reply.counter = counter[CounterRegion]
         /\ (caller = "do_write_conf_block" /\ Fine) => conf = 1
         /\ (caller = "do_rpmb_purge_enable" /\ Fine) => purge[job.region] # "none"
         /\ (caller = "do_read_rpmb_purge_status" /\ Fine) =>
              /\ Len(reply.blocks) = 1
              /\ reply.blocks[1] <= PurgeCode(purge[job.region])
         /\ (caller = "do_read_conf_block" /\ Fine) => reply.blocks = <<conf>>
         /\ (caller = "do_read_rpmb" /\ Fine) =>
              /\ Wire(addr) + Chunk - 1 <= MaxAddr
              /\ reply.blocks = [i \in 1 .. Chunk |-> Here[Wire(addr) + i - 1]]
         /\ caller = "do_write_rpmb" =>
              /\ Fine <=> result[job.region] = "Success"
              /\ Fine => counter[job.region] = cnt + 1 /\ applied = Done + Chunk
<1>1. /\ frame = IF Opening.req \in Changes
                   THEN Request("READ_RESP", Opening.region) ELSE Opening
      /\ TrueAnswer(frame) /\ reply = resp[frame.region] /\ Got
  BY DEF CallInv, FrameInv, TruthInv, AnswerInv, Got, InOp
<1>2. ASSUME Opening.req \in Changes
      PROVE  reply.result = result[Opening.region]
  <2>1. frame.req = "READ_RESP" /\ frame.region = Opening.region
    BY <1>1, <1>2, RequestParts
  <2>2. QED
    BY <1>1, <2>1 DEF TrueAnswer
<1>3. ASSUME Opening.req \notin Changes
      PROVE  TrueAnswer(Opening) /\ reply = resp[Opening.region]
  BY <1>1, <1>3
<1>4. Fine <=> reply.result = "Success"
  BY DEF Fine
<1>5. CASE caller = "do_key"
  BY <1>1, <1>2, <1>4, <1>5, OpeningParts DEF TruthInv, ResultInv, Changes
<1>6. CASE caller = "do_read_counter"
  <2>1. Opening.req = "READ_CNT" /\ Opening.region = CounterRegion
    BY <1>6, OpeningParts
  <2>2. TrueAnswer(Opening) /\ reply = resp[CounterRegion]
    BY <1>3, <2>1 DEF Changes
  <2>3. QED
    BY <1>4, <1>6, <2>1, <2>2 DEF TrueAnswer
<1>7. CASE caller = "do_write_conf_block"
  BY <1>1, <1>2, <1>4, <1>7, OpeningParts DEF TruthInv, ResultInv, Changes
<1>8. CASE caller = "do_rpmb_purge_enable"
  <2>1. Opening.req = "PURGE_ENABLE" /\ Opening.region = job.region
    BY <1>8, OpeningParts
  <2>2. TrueAnswer(Opening) /\ reply = resp[job.region]
    BY <1>3, <2>1 DEF Changes
  <2>3. QED
    BY <1>4, <1>8, <2>1, <2>2 DEF TrueAnswer
<1>9. CASE caller = "do_read_rpmb_purge_status"
  <2>1. Opening.req = "PURGE_STATUS" /\ Opening.region = job.region
    BY <1>9, OpeningParts
  <2>2. TrueAnswer(Opening) /\ reply = resp[job.region]
    BY <1>3, <2>1 DEF Changes
  <2>3. QED
    BY <1>9, <2>1, <2>2 DEF TrueAnswer
<1>10. CASE caller = "do_read_conf_block"
  <2>1. Opening.req = "SEC_CONF_READ" /\ Opening.region = 0
    BY <1>10, OpeningParts
  <2>2. TrueAnswer(Opening) /\ reply = resp[0]
    BY <1>3, <2>1 DEF Changes
  <2>3. QED
    BY <1>4, <1>10, <2>1, <2>2 DEF TrueAnswer
<1>11. CASE caller = "do_read_rpmb"
  <2>1. /\ Opening = ReadRequest /\ Opening.req = "READ"
        /\ Opening.region = job.region
    BY <1>11, OpeningParts
  <2>2. Opening.addr = Wire(addr) /\ Opening.count = Chunk
    BY <2>1 DEF ReadRequest, Frame
  <2>3. TrueAnswer(Opening) /\ reply = resp[job.region]
    BY <1>3, <2>1 DEF Changes
  <2>4. QED
    BY <1>4, <1>11, <2>1, <2>2, <2>3 DEF TrueAnswer, Here
<1>12. CASE caller = "do_write_rpmb"
  <2>1. Opening.req = "WRITE" /\ Opening.region = job.region
    BY <1>12, OpeningParts
  <2>2. reply.result = result[job.region]
    BY <1>2, <2>1 DEF Changes
  <2>3. QED
    BY <1>1, <1>4, <1>12, <2>2 DEF TruthInv, ResultInv
<1>13. QED
  BY <1>5, <1>6, <1>7, <1>8, <1>9, <1>10, <1>11, <1>12

-----------------------------------------------------------------------------
(* The messages                                                            *)

\* The message, and that the status of a purge is one block.
MessageInv ==
  /\ TrueMessage
  /\ (pc = "exit" /\ said /\ Undisturbed /\ job.cmd = "READ_PURGE_STATUS") =>
       Len(out) = 1

\* A message stays true while the device does nothing but end a purge.
LEMMA MessageStays ==
  ASSUME IInv, MessageInv, pc = "exit", PurgeEnds \/ UNCHANGED vars
  PROVE  MessageInv'
<1>1. /\ UNCHANGED <<job, pc, said, masked, foreign, out, cnt>>
      /\ UNCHANGED <<key, counter, conf>>
      /\ UNCHANGED purge \/ PurgeEnds
  BY DEF PurgeEnds, DevPurgeEnds, toolVars, loopVars, history, vars, devVars
<1>2. job.region \in Regions /\ purge[job.region] \in PurgeStates
  BY DEF IInv, Inv, TypeOK, DevTypeOK, Jobs
<1>3. \/ purge'[job.region] = purge[job.region]
      \/ purge[job.region] = "running" /\ purge'[job.region] = "done"
  BY <1>1, <1>2 DEF PurgeEnds, DevPurgeEnds, IInv, Inv, TypeOK, DevTypeOK
<1>4. purge[job.region] # "none" => purge'[job.region] # "none"
  BY <1>3
<1>5. ASSUME Len(out) = 1, out[1] <= PurgeCode(purge[job.region])
      PROVE  out[1] <= PurgeCode(purge'[job.region])
  <2>1. out[1] \in Int
    <3>1. out \in Seq(Int)
      BY DEF IInv, Inv, TypeOK
    <3>2. QED
      BY <1>5, <3>1
  <2>2. PurgeCode("running") = 1 /\ PurgeCode("done") = 2
    BY DEF PurgeCode
  <2>3. QED
    BY <1>3, <1>5, <2>1, <2>2
<1>6. QED
  BY <1>1, <1>4, <1>5 DEF MessageInv, TrueMessage, Undisturbed

\* Calls do not end the run.
LEMMA DoRpmbOpLeaves ==
  ASSUME NEW who, NEW f, DoRpmbOp(who, f)
  PROVE  pc' # "exit"
BY CallBegins

LEMMA DoRpmbLeaves ==
  ASSUME TypeOK, DoRpmb
  PROVE  pc' # "exit"
<1>1. job.cmd \in AllCommands \ {"READ_RPMB"}
  BY DEF DoRpmb, TypeOK, Jobs
<1>2. \E who, f : DoRpmbOp(who, f)
  BY <1>1 DEF DoRpmb, FirstCall, AllCommands
<1>3. QED
  BY <1>2, CallBegins

\* Once at its end the tool does nothing.
LEMMA ExitIsFinal ==
  ASSUME [Next]_vars, pc = "exit"
  PROVE  PurgeEnds \/ UNCHANGED vars
BY DEF Next, ToolNext, Terminating, OpenFails, DoRpmb, SecurityOut, SecurityIn,
       KeyReturns, CounterReturns, ChangeReturns, PurgeStatusReturns,
       ConfReadReturns, ReadBegins, ReadChunk, ReadOutOfMemory, ReadReturns,
       WriteChunk, WriteGivesUp, WriteReturns, LoopEnds, LoopGoesOn, Return,
       ForeignWrite

\* The step that ends the run reports what the device answered.
LEMMA MessageEntered ==
  ASSUME IInv, CallInv, TruthInv, [Next]_vars,
         pc # "exit", pc' = "exit", said', Undisturbed'
  PROVE  MessageInv'
<1>1. TypeOK
  BY DEF IInv, Inv
<1>2. Undisturbed /\ ~ ForeignWrite
  BY <1>1, DisturbanceStays
<1>3. \/ KeyReturns \/ CounterReturns \/ ChangeReturns \/ PurgeStatusReturns
      \/ ConfReadReturns \/ \E loop \in {"read", "write"} : LoopEnds(loop)
  <2>1. pc' # "exit" \/ ~ said' \/ masked' \/ pc' = pc
        \/ KeyReturns \/ CounterReturns \/ ChangeReturns \/ PurgeStatusReturns
        \/ ConfReadReturns \/ \E loop \in {"read", "write"} : LoopEnds(loop)
    <3>1. CASE DoRpmb
      BY <1>1, <3>1, DoRpmbLeaves
    <3>2. CASE SecurityOut \/ SecurityIn
      BY <3>2
      DEF SecurityOut, SoSucceeds, SoVanishes, SoFails, AfterSO, SecurityIn,
          SiSucceeds, SiVanishes, SiFails
    <3>3. CASE \/ OpenFails \/ ReadBegins \/ ReadChunk \/ ReadOutOfMemory
               \/ ReadReturns \/ WriteChunk \/ WriteGivesUp \/ WriteReturns
      BY <3>3
      DEF OpenFails, ReadBegins, ReadChunk, ReadOutOfMemory, ReadReturns,
          WriteChunk, WriteGivesUp, WriteReturns, Finish, DoRpmbOp
    <3>4. CASE ForeignWrite \/ PurgeEnds \/ UNCHANGED vars
      BY <3>4 DEF ForeignWrite, PurgeEnds, toolVars, vars
    <3>5. QED
      BY <3>1, <3>2, <3>3, <3>4 DEF Next, ToolNext, Terminating
  <2>2. QED
    BY <2>1 DEF Undisturbed
<1>4. UNCHANGED <<job, devVars>>
  BY <1>3
  DEF KeyReturns, CounterReturns, ChangeReturns, PurgeStatusReturns,
      ConfReadReturns, LoopEnds
<1>5. UNCHANGED <<key, counter, conf, purge>>
  BY <1>4 DEF devVars
<1>6. pc = "check" => CallFits
  BY DEF CallInv, FrameInv, InOp
<1>7. CASE KeyReturns
  <2>1. /\ pc = "check" /\ caller = "do_key" /\ Fine /\ ret = "ok"
        /\ job.cmd = "AUTHENTICATION_KEY"
    BY <1>6, <1>7 DEF KeyReturns, Return, Finish, Fine, CallFits
  <2>2. QED
    BY <1>2, <1>4, <1>5, <2>1, Told DEF MessageInv, TrueMessage
<1>8. CASE CounterReturns
  <2>1. /\ pc = "check" /\ caller = "do_read_counter" /\ Fine /\ ret = "ok"
        /\ job.cmd = "READ_WRITE_COUNTER" /\ cnt' = reply.counter
    BY <1>8, DoRpmbOpLeaves DEF CounterReturns, Return, Finish, Fine
  <2>2. CounterRegion = job.region
    BY <2>1 DEF CounterRegion
  <2>3. cnt' = counter[job.region]
    BY <1>2, <2>1, <2>2, Told
  <2>4. QED
    BY <1>4, <1>5, <2>1, <2>3 DEF MessageInv, TrueMessage
<1>9. CASE ChangeReturns
  <2>1. /\ pc = "check" /\ Fine /\ ret = "ok"
        /\ \/ /\ caller = "do_write_conf_block"
              /\ job.cmd = "WRITE_SEC_RPMB_CONF_BLOCK"
           \/ caller = "do_rpmb_purge_enable" /\ job.cmd = "PURGE_ENABLE"
    BY <1>6, <1>9 DEF ChangeReturns, Return, Finish, Fine, CallFits
  <2>2. QED
    BY <1>2, <1>4, <1>5, <2>1, Told DEF MessageInv, TrueMessage
<1>10. CASE PurgeStatusReturns
  <2>1. /\ pc = "check" /\ caller = "do_read_rpmb_purge_status" /\ Fine
        /\ ret = "ok" /\ job.cmd = "READ_PURGE_STATUS" /\ out' = Received(1)
    BY <1>6, <1>10 DEF PurgeStatusReturns, Return, Finish, Fine, CallFits
  <2>2. /\ Len(reply.blocks) = 1
        /\ reply.blocks[1] <= PurgeCode(purge[job.region])
    BY <1>2, <2>1, Told
  <2>3. out' = [i \in 1 .. 1 |-> reply.blocks[1]]
    BY <2>1, <2>2 DEF Received
  <2>4. Len(out') = 1 /\ out'[1] = reply.blocks[1]
    BY <2>3
  <2>5. QED
    BY <1>4, <1>5, <2>1, <2>2, <2>4 DEF MessageInv, TrueMessage
<1>11. CASE ConfReadReturns
  <2>1. /\ pc = "check" /\ caller = "do_read_conf_block" /\ Fine
        /\ ret = "ok" /\ job.cmd = "READ_SEC_RPMB_CONF_BLOCK"
        /\ out' = Received(1)
    BY <1>6, <1>11 DEF ConfReadReturns, Return, Finish, Fine, CallFits
  <2>2. reply.blocks = <<conf>>
    BY <1>2, <2>1, Told
  <2>3. out' = [i \in 1 .. 1 |-> conf]
    BY <2>1, <2>2 DEF Received
  <2>4. out' = <<conf>>
    BY <2>3
  <2>5. QED
    BY <1>4, <1>5, <2>1, <2>4 DEF MessageInv, TrueMessage
<1>12. CASE \E loop \in {"read", "write"} : LoopEnds(loop)
  <2>1. Reading \/ Writing
    BY <1>12 DEF LoopEnds, CallInv, JobInv
  <2>2. QED
    BY <1>4, <2>1 DEF MessageInv, TrueMessage, Reading, Writing
<1>13. QED
  BY <1>3, <1>7, <1>8, <1>9, <1>10, <1>11, <1>12

\* "RPMB key was programmed", the counter's value, "RPMB config block was
\* written", the configuration block, the purge and its status: when no error
\* was masked and no other host wrote, what ufs_rpmb.c reports is so.
THEOREM Messages == Spec => []TrueMessage
<1>1. /\ IInv /\ CallInv /\ TruthInv /\ MessageInv /\ [Next]_vars
      => MessageInv'
  <2> SUFFICES ASSUME IInv, CallInv, TruthInv, MessageInv, [Next]_vars
               PROVE  MessageInv'
    OBVIOUS
  <2>1. CASE pc = "exit"
    <3>1. PurgeEnds \/ UNCHANGED vars
      BY <2>1, ExitIsFinal
    <3>2. QED
      BY <2>1, <3>1, MessageStays
  <2>2. CASE pc # "exit" /\ pc' = "exit" /\ said' /\ Undisturbed'
    BY <2>2, MessageEntered
  <2>3. CASE ~ (pc' = "exit" /\ said' /\ Undisturbed')
    BY <2>3 DEF MessageInv, TrueMessage
  <2>4. QED
    BY <2>1, <2>2, <2>3
<1>2. Init => MessageInv
  BY DEF Init, MessageInv, TrueMessage
<1>3. MessageInv => TrueMessage
  BY DEF MessageInv
<1>4. QED
  BY <1>1, <1>2, <1>3, Inductive, Calls, Answered, PTL DEF Spec

-----------------------------------------------------------------------------
(* The end of a write                                                      *)

\* The steps of a run that writes.
LEMMA WriteSteps ==
  ASSUME IInv, CallInv, Writing, [Next]_vars
  PROVE  \/ OpenFails \/ DoRpmb \/ SecurityOut \/ SecurityIn \/ CounterReturns
         \/ WriteChunk \/ WriteGivesUp \/ WriteReturns \/ LoopEnds("write")
         \/ ForeignWrite \/ PurgeEnds \/ UNCHANGED vars
<1>1. pc # "read" /\ job.cmd # "READ_RPMB"
  BY DEF CallInv, JobInv, Writing, Reading
<1>2. pc = "check" => caller \in {"do_read_counter", "do_write_rpmb"}
  BY DEF IInv, LoopInv, InOp
<1>3. /\ ~ KeyReturns /\ ~ ChangeReturns /\ ~ PurgeStatusReturns
      /\ ~ ConfReadReturns /\ ~ ReadBegins /\ ~ ReadChunk /\ ~ ReadOutOfMemory
      /\ ~ ReadReturns /\ ~ LoopEnds("read")
  BY <1>1, <1>2
  DEF KeyReturns, ChangeReturns, PurgeStatusReturns, ConfReadReturns,
      ReadBegins, ReadChunk, ReadOutOfMemory, ReadReturns, LoopEnds, LoopGoesOn,
      Return
<1>4. QED
  BY <1>3 DEF Next, ToolNext, Terminating

\* An SO of a run that writes: nothing happens to the region but the chunk.
LEMMA WriteSends ==
  ASSUME IInv, CallInv, Writing, SecurityOut
  PROVE  /\ UNCHANGED <<job, caller, cnt, left, addr, inSync, said, foreign, reply>>
         /\ UNCHANGED <<key, purge>>
         /\ pc \in {"so1", "so2"} /\ pc' \in Sending
         /\ pc' = "so1" => pc = "so1"
         /\ \/ UNCHANGED counter
            \/ /\ pc = "so1" /\ caller = "do_write_rpmb"
               /\ counter[job.region] = cnt
               /\ counter'[job.region] = cnt + 1
<1>1. /\ UNCHANGED <<job, caller, cnt, left, addr, inSync, said, foreign, reply>>
      /\ pc \in {"so1", "so2"}
  BY DEF SecurityOut, loopVars
<1>2. /\ pc' \in Sending
      /\ pc' = "so1" => pc = "so1"
  BY <1>1, Sends DEF Sending
<1>3. /\ DevTypeOK /\ frame \in Requests
      /\ caller \in {"do_read_counter", "do_write_rpmb"}
      /\ pc = "so1" => frame = Opening
      /\ pc = "so2" => frame.req = "READ_RESP"
  BY <1>1
  DEF IInv, Inv, OpInv, TypeOK, LoopInv, CallInv, FrameInv, InOp, Sending
<1>4. DevExecute(frame) \/ UNCHANGED devVars
  BY DEF SecurityOut, SoSucceeds, SoVanishes, SoFails
<1>5. frame.req \in {"READ_RESP", "READ_CNT", "WRITE"}
  BY <1>1, <1>3, OpeningParts
<1>6. UNCHANGED <<key, purge>>
  BY <1>4, <1>5, ExecuteKeeps DEF devVars
<1>7. \/ UNCHANGED counter
      \/ /\ pc = "so1" /\ caller = "do_write_rpmb"
         /\ counter[job.region] = cnt
         /\ counter'[job.region] = cnt + 1
  <2>1. CASE frame.req \in {"READ_RESP", "READ_CNT"} \/ UNCHANGED devVars
    BY <1>4, <2>1, ExecuteKeeps DEF devVars
  <2>2. CASE frame.req = "WRITE" /\ DevExecute(frame)
    <3>1. pc = "so1" /\ caller = "do_write_rpmb" /\ frame = WriteRequest
      BY <1>1, <1>3, <2>2, OpeningParts
    <3>2. left > 0 /\ addr <= MaxAddr
      BY <3>1 DEF IInv, LoopInv, InOp, Sending
    <3>3. frame.region = job.region /\ frame.counter = cnt
      BY <3>1, <3>2, WriteRequestParts
    <3>4. QED
      BY <1>3, <2>2, <3>1, <3>3, ExecuteWrite
  <2>3. QED
    BY <1>4, <1>5, <2>1, <2>2
<1>8. QED
  BY <1>1, <1>2, <1>6, <1>7

InWriteLoop == pc = "write" \/ (pc \in InOp /\ caller = "do_write_rpmb")

\* do_write_rpmb with nobody in its way: its counter is the device's.
WriteInv ==
  (Writing /\ Undisturbed) =>
    /\ BeforeLoop =>
         cnt = 0 /\ (key[job.region] = NoKey => counter[job.region] = 0)
    /\ InWriteLoop => inSync
    /\ inSync => counter[job.region] >= cnt
    /\ pc = "write" => counter[job.region] = cnt
    /\ (pc = "exit" /\ said) =>
         /\ inSync /\ counter[job.region] = cnt
         /\ left <= 0 \/ addr > MaxAddr

LEMMA WriteKept ==
  ASSUME IInv, CallInv, TruthInv, WriteInv, [Next]_vars
  PROVE  WriteInv'
<1> DEFINE r == job.region
<1>1. TypeOK /\ job' = job /\ (Writing' <=> Writing)
  BY JobFixed DEF IInv, Inv, Writing
<1> SUFFICES ASSUME Writing, Undisturbed' PROVE WriteInv'
  BY <1>1 DEF WriteInv
<1>2. Undisturbed /\ ~ ForeignWrite
  BY <1>1, DisturbanceStays
<1>3. cnt \in Nat /\ counter[r] \in Nat
  BY BoundsAssumption DEF IInv, Inv, TypeOK, DevTypeOK, Jobs
<1>4. ASSUME UNCHANGED <<cnt, key, counter, inSync, left, addr>>,
             BeforeLoop' => BeforeLoop, InWriteLoop' => InWriteLoop,
             pc' = "write" => pc = "write",
             (pc' = "exit" /\ said') => (pc = "exit" /\ said)
      PROVE  WriteInv'
  BY <1>1, <1>2, <1>4 DEF WriteInv
<1>5. CASE SecurityOut
  <2>1. /\ UNCHANGED <<caller, cnt, left, addr, inSync, said, key>>
        /\ pc \in InOp /\ pc' \in InOp
    BY <1>5, WriteSends DEF InOp, Sending
  <2>2. /\ BeforeLoop' <=> BeforeLoop
        /\ InWriteLoop' <=> InWriteLoop
        /\ pc' \notin {"write", "exit"}
    BY <2>1 DEF BeforeLoop, InWriteLoop, InOp, Sending
  <2>3. CASE UNCHANGED counter
    BY <1>4, <2>1, <2>2, <2>3
  <2>4. CASE /\ caller = "do_write_rpmb" /\ counter'[r] = cnt + 1
    <3>1. ~ BeforeLoop
      BY <2>1, <2>4 DEF BeforeLoop, InOp, Sending
    <3>2. QED
      BY <1>1, <1>2, <1>3, <2>1, <2>2, <2>4, <3>1 DEF WriteInv
  <2>5. QED
    BY <1>5, <2>3, <2>4, WriteSends
<1>6. CASE SecurityIn
  <2>1. /\ UNCHANGED <<caller, cnt, left, addr, inSync, said, devVars>>
        /\ pc \in InOp /\ pc' \in InOp
    BY <1>6
    DEF SecurityIn, SiSucceeds, SiVanishes, SiFails, loopVars, InOp, Sending
  <2>2. /\ BeforeLoop' <=> BeforeLoop
        /\ InWriteLoop' <=> InWriteLoop
        /\ pc' \notin {"write", "exit"}
    BY <2>1 DEF BeforeLoop, InWriteLoop, InOp, Sending
  <2>3. QED
    BY <1>4, <2>1, <2>2 DEF devVars
<1>7. CASE DoRpmb
  <2>1. DoRpmbOp("do_read_counter", Request("READ_CNT", CounterRegion))
    BY <1>7 DEF DoRpmb, FirstCall, Writing
  <2>2. BeforeLoop /\ ~ InWriteLoop' /\ pc' \notin {"write", "exit"}
    BY <1>7, <2>1, CallBegins DEF DoRpmb, BeforeLoop, InWriteLoop, InOp, Sending
  <2>3. QED
    BY <1>4, <1>7, <2>2 DEF DoRpmb, devVars, loopVars, history
<1>8. CASE CounterReturns
  <2>1. /\ pc = "check" /\ caller = "do_read_counter" /\ BeforeLoop /\ ~ inSync
        /\ UNCHANGED <<key, counter, left, addr>>
        /\ cnt' = IF Fine THEN reply.counter ELSE cnt
    BY <1>8
    DEF CounterReturns, Return, BeforeLoop, IInv, LoopInv, InOp, devVars
  <2>2. CASE pc' = "exit" /\ ~ said' /\ inSync' = inSync
    BY <1>1, <2>1, <2>2 DEF WriteInv, BeforeLoop, InWriteLoop, InOp, Sending
  <2>3. CASE pc' = "write" /\ ret = "ok" /\ inSync' = (cnt' = counter[r])
    <3>1. CounterRegion = r
      BY DEF CounterRegion, Writing
    <3>2. IF key[r] = NoKey THEN ~ Fine ELSE Fine /\ reply.counter = counter[r]
      BY <1>2, <2>1, <2>3, <3>1, Told
    <3>3. cnt' = counter[r]
      BY <1>2, <2>1, <3>2 DEF WriteInv
    <3>4. inSync' /\ counter'[r] = cnt'
      BY <2>1, <2>3, <3>3
    <3>5. QED
      BY <1>1, <1>3, <2>1, <2>3, <3>3, <3>4 DEF WriteInv, BeforeLoop, InOp, Sending
  <2>4. QED
    BY <1>8, <2>2, <2>3 DEF CounterReturns, Finish, Writing
<1>9. CASE WriteChunk
  <2>1. DoRpmbOp("do_write_rpmb", WriteRequest) /\ pc = "write"
    BY <1>9 DEF WriteChunk, LoopGoesOn
  <2>2. ~ BeforeLoop' /\ InWriteLoop /\ pc' \notin {"write", "exit"}
    BY <2>1, CallBegins DEF BeforeLoop, InWriteLoop, InOp, Sending
  <2>3. QED
    BY <1>4, <1>9, <2>2 DEF WriteChunk, devVars, loopVars, history
<1>10. CASE WriteReturns
  <2>1. /\ pc = "check" /\ caller = "do_write_rpmb" /\ InWriteLoop
        /\ UNCHANGED <<key, counter, inSync>>
    BY <1>10 DEF WriteReturns, Return, InWriteLoop, InOp, devVars, history
  <2>2. CASE pc' = "exit" /\ ~ said' /\ UNCHANGED loopVars
    BY <1>4, <2>1, <2>2 DEF BeforeLoop, InWriteLoop, InOp, Sending, loopVars
  <2>3. CASE Fine /\ cnt' = cnt + 1 /\ pc' = "write"
    <3>1. counter[r] = cnt + 1
      BY <1>2, <2>1, <2>3, Told DEF Fine
    <3>2. inSync
      BY <1>2, <2>1 DEF WriteInv
    <3>3. QED
      BY <1>1, <1>3, <2>1, <2>3, <3>1, <3>2
      DEF WriteInv, BeforeLoop, InOp, Sending
  <2>4. QED
    BY <1>10, <2>2, <2>3 DEF WriteReturns, Finish, NextCounter
<1>11. CASE OpenFails \/ WriteGivesUp
  <2>1. /\ pc' = "exit" /\ ~ said'
        /\ UNCHANGED <<cnt, key, counter, inSync, left, addr>>
    BY <1>11 DEF OpenFails, WriteGivesUp, Finish, devVars, loopVars, history
  <2>2. QED
    BY <1>4, <2>1 DEF BeforeLoop, InWriteLoop, InOp, Sending
<1>12. CASE LoopEnds("write")
  <2>1. /\ pc = "write" /\ pc' = "exit"
        /\ left <= 0 \/ addr > MaxAddr
        /\ UNCHANGED <<cnt, key, counter, inSync, left, addr>>
    BY <1>12 DEF LoopEnds, Finish, devVars, loopVars, history
  <2>2. ~ BeforeLoop' /\ ~ InWriteLoop' /\ InWriteLoop
    BY <2>1 DEF BeforeLoop, InWriteLoop, InOp, Sending
  <2>3. QED
    BY <1>1, <1>2, <1>12, <2>1, <2>2 DEF WriteInv, LoopEnds
<1>13. CASE PurgeEnds \/ UNCHANGED vars
  <2>1. UNCHANGED <<pc, caller, said, cnt, key, counter, inSync, left, addr>>
    BY <1>13
    DEF PurgeEnds, DevPurgeEnds, toolVars, loopVars, history, vars, devVars
  <2>2. QED
    BY <1>4, <2>1 DEF BeforeLoop, InWriteLoop
<1>14. QED
  BY <1>2, <1>5, <1>6, <1>7, <1>8, <1>9, <1>10, <1>11, <1>12, <1>13, WriteSteps

LEMMA WriteStarts == Init => WriteInv
<1> SUFFICES ASSUME Init, Writing PROVE WriteInv
  BY DEF WriteInv
<1>1. pc = "start" /\ cnt = 0 /\ ~ inSync /\ TypeOK
  BY InitTyped DEF Init
<1>2. job.region \in Regions
  BY <1>1 DEF TypeOK, Jobs
<1>3. key[job.region] = NoKey => counter[job.region] = 0
  BY <1>2 DEF Init, DevInit
<1>4. QED
  BY <1>1, <1>3 DEF WriteInv, InWriteLoop, InOp, Sending

\* do_write_rpmb with no masked error and no other host: it starts with the
\* device's counter, and advances it exactly when the device did.
THEOREM Counted == Spec => []WriteInv
<1>1. /\ IInv /\ CallInv /\ TruthInv /\ WriteInv /\ [Next]_vars => WriteInv'
  BY WriteKept
<1>2. QED
  BY <1>1, WriteStarts, Inductive, Calls, Answered, PTL DEF Spec

\* "Finish to write RPMB data": when no error was masked and no other host
\* wrote, every block of the request that the address space has room for is in
\* the region, at its address.
THEOREM TrueWrites == Spec => []TrueWrite
<1>1. IInv /\ WriteInv => TrueWrite
  <2> SUFFICES ASSUME IInv, WriteInv, pc = "exit", Writing, said, Undisturbed,
                      NEW i \in 1 .. job.num, job.start + i - 1 <= MaxAddr
               PROVE  Here[job.start + i - 1] = i
    BY DEF TrueWrite
  <2>1. /\ inSync /\ counter[job.region] = cnt
        /\ left <= 0 \/ addr > MaxAddr
    BY DEF WriteInv
  <2>2. /\ job.start \in Addrs /\ job.num \in Nat /\ left \in 0 .. job.num
        /\ addr = job.start + Done /\ Done = job.num - left
    BY DEF IInv, LoopInv, Done
  <2>3. applied = Done
    BY <2>1 DEF IInv, CounterInv, Undisturbed
  <2>4. job.start \in Nat /\ i \in Nat /\ i >= 1
    BY <2>2 DEF Addrs
  <2>5. i <= Done
    BY <2>1, <2>2, <2>4, BoundsAssumption
  <2>6. /\ job.start + i - 1 \in Addrs
        /\ job.start + i - 1 \in job.start .. (job.start + applied - 1)
        /\ (job.start + i - 1) - job.start + 1 = i
    BY <2>2, <2>3, <2>4, <2>5, BoundsAssumption DEF Addrs
  <2>7. QED
    BY <2>1, <2>6 DEF IInv, RegionInv, Undisturbed
<1>2. QED
  BY <1>1, Inductive, Counted, PTL

\* An error do_write_rpmb returns, with no masked error and no other host,
\* leaves every chunk counted as done in the region, and at most the chunk
\* under way besides.
THEOREM KnownState == Spec => []ErrorLeavesKnownState
<1>1. IInv /\ WriteInv => ErrorLeavesKnownState
  <2> SUFFICES ASSUME IInv, WriteInv, Writing, inSync, Undisturbed
               PROVE  applied \in {Done, Done + Chunk}
    BY DEF ErrorLeavesKnownState
  <2>1. counter[job.region] >= cnt
    BY DEF WriteInv
  <2>2. /\ counter[job.region] <= cnt + 1
        /\ counter[job.region] = cnt + 1 => applied = Done + Chunk
        /\ counter[job.region] = cnt     => applied = Done
    BY DEF IInv, CounterInv, Undisturbed
  <2>3. counter[job.region] \in Nat /\ cnt \in Nat
    BY BoundsAssumption DEF IInv, Inv, TypeOK, DevTypeOK, Jobs
  <2>4. QED
    BY <2>1, <2>2, <2>3
<1>2. QED
  BY <1>1, Inductive, Counted, PTL

-----------------------------------------------------------------------------
(* The end of a read                                                       *)

\* do_read_rpmb: what it has put into the output file so far.
ReadInv ==
  Reading =>
    /\ pc \in {"start", "read", "exit"} \cup InOp
    /\ pc \in InOp => caller = "do_read_rpmb"
    /\ addr - job.start = job.num - left
    /\ left <= job.num
    /\ (Undisturbed /\ (pc # "exit" \/ said)) =>
         /\ Len(out) = job.num - left
         /\ \A i \in 1 .. Len(out) : out[i] = Here[Wire(job.start + i - 1)]
    /\ (Undisturbed /\ said) => left <= 0 \/ addr > MaxAddr

\* The steps of a run that reads.
LEMMA ReadSteps ==
  ASSUME ReadInv, CallInv, Reading, [Next]_vars
  PROVE  \/ OpenFails \/ SecurityOut \/ SecurityIn \/ ReadBegins \/ ReadChunk
         \/ ReadOutOfMemory \/ ReadReturns \/ LoopEnds("read")
         \/ ForeignWrite \/ PurgeEnds \/ UNCHANGED vars
<1>1. pc # "write" /\ job.cmd = "READ_RPMB"
  BY DEF CallInv, JobInv, Writing, Reading
<1>2. pc = "check" => caller = "do_read_rpmb"
  BY DEF ReadInv, InOp
<1>3. /\ ~ KeyReturns /\ ~ ChangeReturns /\ ~ PurgeStatusReturns
      /\ ~ ConfReadReturns /\ ~ DoRpmb /\ ~ CounterReturns /\ ~ WriteChunk
      /\ ~ WriteGivesUp /\ ~ WriteReturns /\ ~ LoopEnds("write")
  BY <1>1, <1>2
  DEF KeyReturns, ChangeReturns, PurgeStatusReturns, ConfReadReturns,
      DoRpmb, CounterReturns, WriteChunk, WriteGivesUp, WriteReturns, LoopEnds,
      LoopGoesOn, Return
<1>4. QED
  BY <1>3 DEF Next, ToolNext, Terminating

\* The address field wraps at the end of the region, and only there.
LEMMA WireFollows ==
  ASSUME NEW a \in Int, NEW k \in Nat, Wire(a) + k <= MaxAddr
  PROVE  Wire(a + k) = Wire(a) + k
<1>1. ASSUME NEW m \in Nat, m > 0, (a % m) + k < m
      PROVE  (a + k) % m = (a % m) + k
  <2>1. a % m \in 0 .. (m - 1)
    BY <1>1
  <2>2. a = m * (a \div m) + (a % m)
    BY <1>1
  <2>3. QED
    BY <1>1, <2>1, <2>2
<1>2. MaxAddr + 1 \in Nat /\ MaxAddr + 1 > 0
  BY BoundsAssumption
<1>3. (a % (MaxAddr + 1)) + k < MaxAddr + 1
  <2>1. Wire(a) \in Int
    BY WireTyped, BoundsAssumption DEF Addrs
  <2>2. QED
    BY <2>1, BoundsAssumption DEF Wire
<1>4. QED
  BY <1>1, <1>2, <1>3 DEF Wire

LEMMA Appended ==
  ASSUME NEW s \in Seq(Int), NEW t \in Seq(Int)
  PROVE  Len(s \o t) = Len(s) + Len(t)
OBVIOUS

\* What ReadReturns appends to the output file.
LEMMA Appends ==
  ASSUME TypeOK, NEW n \in Nat, reply.blocks \in Seq(Int), Len(reply.blocks) = n
  PROVE  LET s == out \o Received(n) IN
         /\ Len(s) = Len(out) + n
         /\ \A i \in 1 .. Len(out) : s[i] = out[i]
         /\ \A j \in 1 .. n : s[Len(out) + j] = reply.blocks[j]
<1>1. out \in Seq(Int) /\ Len(out) \in Nat
  <2>1. out \in Seq(Int)
    BY DEF TypeOK
  <2>2. QED
    BY <2>1
<1>2. /\ Received(n) \in Seq(Int) /\ Len(Received(n)) = n
      /\ \A j \in 1 .. n : Received(n)[j] = reply.blocks[j]
  <2>1. reply \in Answers
    BY DEF TypeOK
  <2>2. Received(n) \in Seq(Int)
    BY <2>1, ReceivedTyped
  <2>3. Len(Received(n)) = n
    BY DEF Received
  <2>4. \A j \in 1 .. n : Received(n)[j] = reply.blocks[j]
    BY DEF Received
  <2>5. QED
    BY <2>2, <2>3, <2>4
<1>3. Len(out \o Received(n)) = Len(out) + n
  <2>1. Len(out \o Received(n)) = Len(out) + Len(Received(n))
    BY <1>1, <1>2, Appended
  <2>2. QED
    BY <1>2, <2>1
<1>4. \A i \in 1 .. Len(out) : (out \o Received(n))[i] = out[i]
  BY <1>1, <1>2
<1>5. ASSUME NEW j \in 1 .. n
      PROVE  (out \o Received(n))[Len(out) + j] = reply.blocks[j]
  BY <1>1, <1>2
<1>6. QED
  BY <1>3, <1>4, <1>5

LEMMA ReadKept ==
  ASSUME IInv, CallInv, TruthInv, ReadInv, [Next]_vars
  PROVE  ReadInv'
<1>1. TypeOK /\ job' = job /\ (Reading' <=> Reading)
  BY JobFixed DEF IInv, Inv, Reading
<1> SUFFICES ASSUME Reading PROVE ReadInv'
  BY <1>1 DEF ReadInv
<1>2. Undisturbed' => Undisturbed /\ ~ ForeignWrite
  BY <1>1, DisturbanceStays
<1>3. /\ addr \in Int /\ left \in Int /\ job \in Jobs /\ job.num \in Int
      /\ job.start \in Int /\ out \in Seq(Int) /\ reply \in Answers
      /\ job.region \in Regions
  BY DEF IInv, Inv, TypeOK, Jobs
<1>4. ASSUME UNCHANGED <<addr, left, out>>, Undisturbed' => data' = data,
             pc' \in {"start", "read", "exit"} \cup InOp,
             pc' \in InOp => caller' = "do_read_rpmb",
             pc # "exit" \/ UNCHANGED <<pc, said>>,
             said' /\ Undisturbed' => said \/ left <= 0 \/ addr > MaxAddr
      PROVE  ReadInv'
  <2>1. Undisturbed' => Here' = Here
    BY <1>1, <1>4 DEF Here
  <2>2. pc # "exit" \/ said => pc # "exit" \/ said
    OBVIOUS
  <2>3. ASSUME NEW a PROVE Wire(a)' = Wire(a)
    BY DEF Wire
  <2>4. QED
    BY <1>1, <1>2, <1>4, <2>1, <2>3 DEF ReadInv, Wire
<1>5. CASE SecurityOut
  <2>1. /\ pc \in {"so1", "so2"} /\ pc' \in InOp /\ caller' = caller
        /\ UNCHANGED <<addr, left, out, said>>
    BY <1>5, Sends DEF SecurityOut, loopVars, InOp, Sending
  <2>2. caller = "do_read_rpmb"
    BY <2>1 DEF ReadInv, InOp, Sending
  <2>3. Opening.req = "READ" /\ pc = "so1" /\ frame = Opening
    BY <2>1, <2>2, OpeningParts DEF CallInv, FrameInv, InOp, Sending, Changes
  <2>4. data' = data
    <3>1. DevExecute(frame) \/ UNCHANGED devVars
      BY <1>5 DEF SecurityOut, SoSucceeds, SoVanishes, SoFails
    <3>2. QED
      BY <2>3, <3>1, ExecuteKeeps DEF devVars
  <2>5. QED
    BY <1>4, <2>1, <2>2, <2>4
<1>6. CASE SecurityIn
  <2>1. /\ pc = "si" /\ pc' \in InOp /\ caller' = caller
        /\ UNCHANGED <<addr, left, out, said, data>>
    BY <1>6
    DEF SecurityIn, SiSucceeds, SiVanishes, SiFails, loopVars, devVars, InOp,
        Sending
  <2>2. caller = "do_read_rpmb"
    BY <2>1 DEF ReadInv, InOp, Sending
  <2>3. QED
    BY <1>4, <2>1, <2>2
<1>7. CASE OpenFails \/ ReadOutOfMemory
  <2>1. /\ pc' = "exit" /\ pc # "exit" /\ UNCHANGED <<addr, left, out, data>>
        /\ ~ said' \/ masked'
    BY <1>7
    DEF OpenFails, ReadOutOfMemory, LoopGoesOn, Finish, loopVars, devVars
  <2>2. QED
    BY <1>4, <2>1 DEF InOp, Sending, Undisturbed
<1>8. CASE ReadBegins
  BY <1>4, <1>8 DEF ReadBegins, loopVars, devVars, InOp, Sending
<1>9. CASE ReadChunk
  <2>1. DoRpmbOp("do_read_rpmb", ReadRequest)
    BY <1>9 DEF ReadChunk
  <2>2. pc' \in InOp /\ caller' = "do_read_rpmb"
    BY <2>1, CallBegins
  <2>3. QED
    BY <1>4, <1>9, <2>2 DEF ReadChunk, LoopGoesOn, loopVars, devVars
<1>10. CASE LoopEnds("read")
  <2>1. /\ pc' = "exit" /\ pc = "read" /\ UNCHANGED <<addr, left, out, data>>
        /\ left <= 0 \/ addr > MaxAddr
    BY <1>10 DEF LoopEnds, Finish, loopVars, devVars
  <2>2. QED
    BY <1>4, <2>1 DEF InOp, Sending
<1>11. CASE ReadReturns
  <2>1. /\ pc = "check" /\ caller = "do_read_rpmb" /\ data' = data /\ ~ said
        /\ Undisturbed' = Undisturbed
    BY <1>11
    DEF ReadReturns, Return, devVars, history, Undisturbed, CallInv, SaidInv
  <2>2. left > 0 /\ addr <= MaxAddr
    BY <2>1 DEF CallInv, FrameInv, CallFits, InOp
  <2>3. Chunk \in Nat /\ Chunk <= left /\ Chunk \in Int
    BY <1>3, <2>2, ChunkTyped
  <2>s. addr - job.start = job.num - left /\ left <= job.num
    BY DEF ReadInv
  <2>4. CASE pc' = "exit"
    <3>1. ~ said' /\ UNCHANGED <<addr, left>>
      BY <1>11, <2>4 DEF ReadReturns, Finish, loopVars
    <3>2. QED
      BY <1>1, <2>1, <2>4, <3>1 DEF ReadInv, InOp, Sending
  <2>5. CASE pc' # "exit"
    <3>1. /\ Fine /\ ret = "ok" /\ pc' = "read" /\ ~ said'
          /\ out' = out \o Received(Chunk)
          /\ left' = left - Chunk /\ addr' = addr + Chunk
      BY <1>11, <2>1, <2>5 DEF ReadReturns, Finish, NextChunk, Fine
    <3>2. addr' - job.start = job.num - left' /\ left' <= job.num
      <4>1. /\ addr \in Int /\ left \in Int /\ job.num \in Int /\ job.start \in Int
            /\ Chunk \in Nat
        BY <1>3, <2>3
      <4>2. (addr + Chunk) - job.start = job.num - (left - Chunk)
        BY <2>s, <4>1
      <4>3. left - Chunk <= job.num
        BY <2>s, <4>1
      <4>4. QED
        BY <3>1, <4>2, <4>3
    <3>3. ASSUME Undisturbed
          PROVE  /\ Len(out') = job.num - left'
                 /\ \A i \in 1 .. Len(out') :
                      out'[i] = Here[Wire(job.start + i - 1)]
      <4>1. /\ Wire(addr) + Chunk - 1 <= MaxAddr
            /\ reply.blocks = [i \in 1 .. Chunk |-> Here[Wire(addr) + i - 1]]
        BY <2>1, <3>1, <3>3, Told
      <4>2. /\ reply.blocks \in Seq(Int) /\ Len(reply.blocks) = Chunk
        <5>1. reply.blocks \in Seq(Int)
          BY <1>3 DEF Answers
        <5>2. Len(reply.blocks) = Chunk
          BY <2>3, <4>1, <5>1
        <5>3. QED
          BY <5>1, <5>2
      <4>3. /\ Len(out') = Len(out) + Chunk
            /\ \A i \in 1 .. Len(out) : out'[i] = out[i]
            /\ \A j \in 1 .. Chunk : out'[Len(out) + j] = reply.blocks[j]
        BY <1>1, <2>3, <3>1, <4>2, Appends
      <4>4. /\ Len(out) = job.num - left /\ Len(out) \in Nat
            /\ \A i \in 1 .. Len(out) : out[i] = Here[Wire(job.start + i - 1)]
        BY <1>3, <2>1, <3>3 DEF ReadInv
      <4>5. ASSUME NEW j \in 1 .. Chunk
            PROVE  reply.blocks[j] = Here[Wire(job.start + (Len(out) + j) - 1)]
        <5>1. reply.blocks[j] = Here[Wire(addr) + j - 1]
          BY <4>1
        <5>2. Wire(addr) \in Int
          BY <1>3, WireTyped, BoundsAssumption DEF Addrs
        <5>3. j - 1 \in Nat /\ Wire(addr) + (j - 1) <= MaxAddr
          BY <2>3, <4>1, <5>2, BoundsAssumption
        <5>4. Wire(addr + (j - 1)) = Wire(addr) + (j - 1)
          BY <1>3, <5>3, WireFollows
        <5>5. addr + (j - 1) = job.start + (Len(out) + j) - 1
          <6>1. addr \in Int /\ left \in Int /\ job.num \in Int /\ job.start \in Int
            BY <1>3
          <6>2. j \in Int /\ Len(out) \in Int
            BY <2>3, <4>4
          <6>3. addr - job.start = Len(out)
            BY <2>s, <4>4
          <6>4. addr = job.start + Len(out)
            BY <6>1, <6>2, <6>3
          <6>5. QED
            BY <6>1, <6>2, <6>4
        <5>6. Wire(addr) + (j - 1) = Wire(addr) + j - 1
          BY <5>2
        <5>7. QED
          BY <5>1, <5>4, <5>5, <5>6
      <4>6. ASSUME NEW i \in 1 .. Len(out')
            PROVE  out'[i] = Here[Wire(job.start + i - 1)]
        <5>1. CASE i <= Len(out)
          BY <4>3, <4>4, <5>1
        <5>2. CASE i > Len(out)
          <6>1. i - Len(out) \in 1 .. Chunk /\ i = Len(out) + (i - Len(out))
            BY <2>3, <4>3, <4>4, <5>2
          <6>2. QED
            BY <4>3, <4>5, <6>1
        <5>3. QED
          BY <4>4, <5>1, <5>2
      <4>7. Len(out') = job.num - left'
        <5>1. left \in Int /\ job.num \in Int /\ Chunk \in Nat
          BY <1>3, <2>3
        <5>2. Len(out') = Len(out) + Chunk /\ Len(out) = job.num - left
          BY <4>3, <4>4
        <5>3. QED
          BY <3>1, <5>1, <5>2
      <4>8. QED
        BY <4>6, <4>7
    <3>4. Here' = Here /\ pc' \notin InOp
      BY <1>1, <2>1, <3>1 DEF Here, InOp, Sending
    <3>5. QED
      BY <1>1, <2>1, <3>1, <3>2, <3>3, <3>4 DEF ReadInv, Wire
  <2>6. QED
    BY <2>4, <2>5
<1>12. CASE ForeignWrite \/ PurgeEnds \/ UNCHANGED vars
  <2>1. UNCHANGED <<pc, caller, said, addr, left, out>>
    BY <1>12 DEF ForeignWrite, PurgeEnds, toolVars, loopVars, vars
  <2>2. Undisturbed' => data' = data
    BY <1>2, <1>12 DEF PurgeEnds, DevPurgeEnds, vars, devVars
  <2>3. QED
    BY <1>4, <2>1, <2>2 DEF ReadInv
<1>13. QED
  BY <1>5, <1>6, <1>7, <1>8, <1>9, <1>10, <1>11, <1>12, ReadSteps

\* do_read_rpmb with no masked error and no other host: the output file holds
\* the region's blocks, chunk after chunk.
THEOREM Collected == Spec => []ReadInv
<1>1. /\ IInv /\ CallInv /\ TruthInv /\ ReadInv /\ [Next]_vars => ReadInv'
  BY ReadKept
<1>2. Init => ReadInv
  <2> SUFFICES ASSUME Init PROVE ReadInv
    OBVIOUS
  <2>1. /\ pc = "start" /\ addr = job.start /\ left = job.num /\ out = << >>
        /\ said = FALSE
    BY DEF Init
  <2>2. job.start \in Int /\ job.num \in Int
    BY InitTyped DEF TypeOK, Jobs
  <2>3. QED
    BY <2>1, <2>2 DEF ReadInv, InOp, Sending
<1>3. QED
  BY <1>1, <1>2, Inductive, Calls, Answered, PTL DEF Spec

\* "Finish to read RPMB data": when no error was masked and no other host
\* wrote, the output file holds the region's blocks in order, up to the number
\* asked for or the end of the address space.
THEOREM TrueReads == Spec => []TrueRead
<1>1. IInv /\ ReadInv => TrueRead
  <2> SUFFICES ASSUME IInv, ReadInv, pc = "exit", Reading, said, Undisturbed
               PROVE  /\ \A i \in 1 .. Len(out) :
                           out[i] = Here[Wire(job.start + i - 1)]
                      /\ \/ Len(out) >= job.num
                         \/ job.start + Len(out) > MaxAddr
    BY DEF TrueRead
  <2>1. /\ addr - job.start = job.num - left
        /\ Len(out) = job.num - left
        /\ \A i \in 1 .. Len(out) : out[i] = Here[Wire(job.start + i - 1)]
        /\ left <= 0 \/ addr > MaxAddr
    BY DEF ReadInv
  <2>2. addr \in Int /\ left \in Int /\ job.num \in Int /\ job.start \in Int
    BY DEF IInv, Inv, TypeOK, Jobs
  <2>3. QED
    BY <2>1, <2>2, BoundsAssumption
<1>2. QED
  BY <1>1, Inductive, Collected, PTL

-----------------------------------------------------------------------------
(* A write nothing gets in the way of                                      *)

\* Why such a write may be refused all the same.
Reasons ==
  \/ key[job.region] # job.key
  \/ counter[job.region] = CounterMax
  \/ purge[job.region] # "none"
  \/ job.file < job.num
  \/ job.start + job.num > MaxAddr + 1
  \/ job.num = 0 /\ job.geometry = NotGiven

FaultFree ==
  (Writing /\ faults = 0 /\ foreign = 0) =>
    /\ ~ masked
    /\ (pc = "so1" /\ caller = "do_write_rpmb") => counter[job.region] = cnt
    /\ pc = "check" => ret = "ok"
    /\ (pc = "write" /\ ret = "error") => job.geometry = NotGiven /\ left = job.num
    /\ (/\ pc = "so2" \/ Got
        /\ caller = "do_write_rpmb" /\ result[job.region] # "Success") => Reasons
    /\ (pc = "exit" /\ ret = "error") => Reasons

\* No call has failed yet.
LEMMA NoFaultYet ==
  ASSUME TypeOK, [Next]_vars, faults' = 0, foreign' = 0
  PROVE  faults = 0 /\ foreign = 0 /\ ~ Fault /\ ~ ForeignWrite
<1>1. faults \in Nat /\ foreign \in Nat
  BY LimitsAssumption DEF TypeOK
<1>2. ~ Fault /\ ~ ForeignWrite
  BY <1>1 DEF Fault, ForeignWrite
<1>3. UNCHANGED <<faults, foreign>>
  BY <1>2
  DEF Next, ToolNext, Terminating, OpenFails, DoRpmb, SecurityOut, SoSucceeds,
      SoVanishes, SoFails, SecurityIn, SiSucceeds, SiVanishes, SiFails,
      KeyReturns, CounterReturns, ChangeReturns, PurgeStatusReturns,
      ConfReadReturns, ReadBegins, ReadChunk, ReadOutOfMemory, ReadReturns,
      WriteChunk, WriteGivesUp, WriteReturns, LoopEnds, PurgeEnds, vars
<1>4. QED
  BY <1>2, <1>3

\* A chunk of a write is not empty.
LEMMA ChunkNotEmpty ==
  ASSUME job \in Jobs, Writing, left \in Int, left > 0
  PROVE  Chunk > 0
<1>1. job.geometry \in Nat \cup {NotGiven}
  BY DEF Jobs
<1>2. MaxBlocks \in Nat /\ MaxBlocks > 0
  <2>1. CASE job.geometry = NotGiven
    BY <2>1, LimitsAssumption DEF MaxBlocks, NotGiven
  <2>2. CASE job.geometry = 0
    BY <2>2 DEF MaxBlocks, NotGiven, Writing
  <2>3. CASE job.geometry \in Nat \ {0}
    BY <2>3 DEF MaxBlocks, NotGiven
  <2>4. QED
    BY <1>1, <2>1, <2>2, <2>3
<1>3. QED
  BY <1>2 DEF Chunk

\* The device's objections to a chunk whose counter is right.
LEMMA RefusedForReasons ==
  ASSUME IInv, CallInv, Writing, left > 0, addr <= MaxAddr,
         counter[job.region] = cnt,
         NEW why \in Objections(WriteRequest)
  PROVE  Reasons
<1>1. /\ WriteRequest.region = job.region /\ WriteRequest.counter = cnt
      /\ WriteRequest.mac = job.key /\ WriteRequest.count = Chunk
      /\ WriteRequest.addr = addr /\ addr = job.start + Done
      /\ Chunk \in Nat /\ Done \in Nat /\ Done + Chunk <= job.num
      /\ job.num \in Nat
  BY WriteRequestParts
<1>2. /\ job.start \in Addrs /\ counter[job.region] \in 0 .. CounterMax
      /\ job.key # NoKey
  BY DEF IInv, Inv, TypeOK, DevTypeOK, Jobs, LoopInv, CallInv, JobInv, Writing,
         NeedsKey
<1>3. \/ purge[job.region] = "running"
      \/ key[job.region] = NoKey
      \/ key[job.region] # job.key
      \/ counter[job.region] >= CounterMax
      \/ counter[job.region] # cnt
      \/ addr + Chunk - 1 > MaxAddr
  BY <1>1 DEF Objections
<1>4. addr + Chunk - 1 > MaxAddr => job.start + job.num > MaxAddr + 1
  BY <1>1, <1>2, BoundsAssumption DEF Addrs
<1>5. counter[job.region] >= CounterMax => counter[job.region] = CounterMax
  BY <1>2, BoundsAssumption
<1>6. QED
  BY <1>2, <1>3, <1>4, <1>5 DEF Reasons

\* A reason stays one while the region's counter stays.
LEMMA ReasonsStay ==
  ASSUME TypeOK, Reasons, UNCHANGED <<job, key, counter>>,
         UNCHANGED purge \/ PurgeEnds
  PROVE  Reasons'
<1>1. job.region \in Regions /\ purge \in [Regions -> PurgeStates]
  BY DEF TypeOK, DevTypeOK, Jobs
<1>2. purge[job.region] # "none" => purge'[job.region] # "none"
  BY <1>1 DEF PurgeEnds, DevPurgeEnds
<1>3. QED
  BY <1>2 DEF Reasons

LEMMA FaultFreeKept ==
  ASSUME IInv, CallInv, TruthInv, WriteInv, FaultFree, [Next]_vars
  PROVE  FaultFree'
<1> DEFINE r == job.region
<1>1. TypeOK /\ job' = job /\ (Writing' <=> Writing)
  BY JobFixed DEF IInv, Inv, Writing
<1> SUFFICES ASSUME Writing, faults' = 0, foreign' = 0 PROVE FaultFree'
  BY <1>1 DEF FaultFree
<1>2. faults = 0 /\ foreign = 0 /\ ~ Fault /\ ~ ForeignWrite
  BY <1>1, NoFaultYet
<1>3. ~ masked /\ Undisturbed
  BY <1>2 DEF FaultFree, Undisturbed
<1>4. /\ cnt \in Nat /\ counter[r] \in Nat /\ left \in 0 .. job.num
      /\ job.num \in Nat /\ job \in Jobs /\ left \in Int
      /\ DevTypeOK /\ frame \in Requests
      /\ ret \in {"ok", "error"}
  BY BoundsAssumption DEF IInv, Inv, TypeOK, DevTypeOK, Jobs, LoopInv
<1>5. CASE SecurityOut
  <2>1. /\ UNCHANGED <<caller, cnt, left, addr, key, purge>>
        /\ pc \in {"so1", "so2"} /\ pc' \in Sending
    BY <1>5, WriteSends
  <2>2. SoSucceeds
    BY <1>2, <1>5 DEF SecurityOut, SoVanishes, SoFails
  <2>3. ~ masked' /\ pc' \notin {"so1", "check", "write", "exit"}
    BY <1>3, <2>2 DEF SoSucceeds, AfterSO
  <2>4. ASSUME caller = "do_write_rpmb", result'[r] # "Success"
        PROVE  Reasons'
    <3>1. left > 0 /\ addr <= MaxAddr
      BY <1>5, <2>1, <2>4 DEF IInv, LoopInv, InOp, Sending
    <3>2. CASE pc = "so1"
      <4>1. frame = WriteRequest /\ counter[r] = cnt
        BY <1>2, <2>4, <3>2, OpeningParts
        DEF CallInv, FrameInv, FaultFree, InOp, Sending
      <4>2. frame.req = "WRITE" /\ frame.region = r
        BY <3>1, <4>1, WriteRequestParts
      <4>3. DevExecute(frame)
        BY <2>2 DEF SoSucceeds
      <4>4. UNCHANGED <<key, counter, purge>> /\ result'[r] \in Objections(frame)
        BY <1>4, <2>4, <4>2, <4>3, WriteRefused
      <4>5. Reasons
        BY <3>1, <4>1, <4>4, RefusedForReasons
      <4>6. QED
        BY <1>1, <4>4, <4>5, ReasonsStay
    <3>3. CASE pc = "so2"
      <4>1. frame.req = "READ_RESP" /\ DevExecute(frame)
        BY <2>2, <3>3 DEF SoSucceeds, IInv, Inv, OpInv
      <4>2. UNCHANGED <<key, counter, purge, result>>
        BY <1>4, <4>1, ExecuteResult
      <4>3. Reasons
        BY <1>2, <2>4, <3>3, <4>2 DEF FaultFree
      <4>4. QED
        BY <1>1, <4>2, <4>3, ReasonsStay
    <3>4. QED
      BY <2>1, <3>2, <3>3
  <2>5. QED
    BY <1>1, <2>1, <2>3, <2>4 DEF FaultFree, Got
<1>6. CASE SecurityIn
  <2>1. SiSucceeds
    BY <1>2, <1>6 DEF SecurityIn, SiVanishes, SiFails
  <2>2. /\ pc = "si" /\ pc' = "check" /\ ret' = "ok" /\ ~ masked'
        /\ UNCHANGED <<caller, result, key, counter, purge>>
    BY <1>3, <1>6, <2>1 DEF SecurityIn, SiSucceeds, devVars
  <2>3. (caller = "do_write_rpmb" /\ result[r] # "Success") => Reasons'
    BY <1>1, <1>2, <2>2, ReasonsStay DEF FaultFree, Got
  <2>4. QED
    BY <1>1, <2>2, <2>3 DEF FaultFree
<1>7. CASE DoRpmb
  <2>1. DoRpmbOp("do_read_counter", Request("READ_CNT", CounterRegion))
    BY <1>7 DEF DoRpmb, FirstCall, Writing
  <2>2. Request("READ_CNT", CounterRegion).count # 0
    BY RequestParts
  <2>3. pc' = "so1" /\ caller' = "do_read_counter" /\ masked' = masked
    BY <1>7, <2>1, <2>2 DEF DoRpmb, DoRpmbOp, Empty, history
  <2>4. QED
    BY <1>3, <2>3 DEF FaultFree, Got
<1>8. CASE CounterReturns
  <2>1. ret = "ok" /\ pc = "check" /\ caller = "do_read_counter"
    BY <1>2, <1>8 DEF FaultFree, CounterReturns, Return
  <2>2. /\ pc' = "write" /\ UNCHANGED <<left, masked>>
        /\ ret' = "error" => job.geometry = NotGiven
    BY <1>8, <2>1 DEF CounterReturns, Writing
  <2>3. left = job.num
    BY <2>1 DEF IInv, LoopInv, BeforeLoop, InOp
  <2>4. QED
    BY <1>1, <1>3, <2>2, <2>3 DEF FaultFree, Got
<1>9. CASE WriteChunk
  <2>1. /\ DoRpmbOp("do_write_rpmb", WriteRequest) /\ pc = "write"
        /\ left > 0 /\ addr <= MaxAddr /\ UNCHANGED <<counter, cnt, masked>>
    BY <1>9 DEF WriteChunk, LoopGoesOn, devVars, loopVars, history
  <2>2. WriteRequest.count # 0
    <3>1. WriteRequest.count = Chunk /\ Chunk \in Nat
      BY <2>1, WriteRequestParts
    <3>2. Chunk > 0
      BY <1>4, <2>1, ChunkNotEmpty
    <3>3. QED
      BY <3>1, <3>2
  <2>3. pc' = "so1"
    BY <2>1, <2>2 DEF DoRpmbOp, Empty
  <2>4. counter[r] = cnt
    BY <1>3, <2>1 DEF WriteInv
  <2>5. QED
    BY <1>1, <1>3, <2>1, <2>3, <2>4 DEF FaultFree, Got
<1>10. CASE WriteGivesUp
  <2>1. /\ Done + Chunk > job.file /\ left > 0 /\ addr <= MaxAddr
        /\ pc' = "exit" /\ masked' = masked
    BY <1>2, <1>10 DEF WriteGivesUp, LoopGoesOn, Finish, history
  <2>2. /\ Done + Chunk <= job.num /\ Done \in Nat /\ Chunk \in Nat
        /\ job.file \in Nat
    BY <1>4, <2>1, WriteRequestParts DEF Jobs
  <2>3. job.file < job.num
    BY <1>4, <2>1, <2>2
  <2>4. QED
    BY <1>1, <1>3, <2>1, <2>3 DEF FaultFree, Got, Reasons
<1>11. CASE WriteReturns
  <2>1. /\ pc = "check" /\ caller = "do_write_rpmb" /\ ret = "ok"
        /\ UNCHANGED <<key, counter, purge, masked>>
    BY <1>2, <1>11 DEF FaultFree, WriteReturns, Return, devVars, history
  <2>2. CASE Fine
    BY <1>1, <1>3, <1>11, <2>1, <2>2 DEF WriteReturns, Finish, FaultFree, Got
  <2>3. CASE ~ Fine
    <3>1. result[r] # "Success"
      BY <1>3, <2>1, <2>3, Told
    <3>2. Reasons
      BY <1>2, <2>1, <3>1 DEF FaultFree, Got
    <3>3. Reasons' /\ pc' = "exit"
      BY <1>1, <1>11, <2>1, <2>3, <3>2, ReasonsStay DEF WriteReturns, Finish
    <3>4. QED
      BY <1>1, <1>3, <2>1, <3>3 DEF FaultFree, Got
  <2>4. QED
    BY <2>2, <2>3
<1>12. CASE LoopEnds("write")
  <2>1. /\ pc = "write" /\ pc' = "exit" /\ ret' = ret /\ masked' = masked
        /\ left <= 0 \/ addr > MaxAddr
        /\ UNCHANGED <<key, counter, purge>>
    BY <1>12 DEF LoopEnds, Finish, devVars, history
  <2>2. ret = "error" => Reasons
    <3>1. job.start \in Addrs /\ addr = job.start + job.num - left
      BY <1>4 DEF IInv, LoopInv, Done, Addrs
    <3>2. ret = "error" => job.geometry = NotGiven /\ left = job.num
      BY <1>2, <2>1 DEF FaultFree
    <3>3. ret = "error" => job.num = 0
      BY <1>4, <2>1, <3>1, <3>2, BoundsAssumption DEF Addrs
    <3>4. QED
      BY <3>2, <3>3 DEF Reasons
  <2>3. QED
    BY <1>1, <1>3, <2>1, <2>2, ReasonsStay DEF FaultFree, Got
<1>13. CASE OpenFails
  BY <1>2, <1>13 DEF OpenFails
<1>14. CASE PurgeEnds \/ UNCHANGED vars
  <2>1. /\ UNCHANGED <<pc, caller, ret, cnt, left, key, counter, result, masked>>
        /\ UNCHANGED purge \/ PurgeEnds
        /\ Got' <=> Got
    BY <1>14
    DEF PurgeEnds, DevPurgeEnds, toolVars, loopVars, history, vars, devVars, Got
  <2>2. Reasons => Reasons'
    BY <1>1, <2>1, ReasonsStay
  <2>3. QED
    BY <1>1, <1>2, <2>1, <2>2 DEF FaultFree
<1>15. QED
  BY <1>2, <1>5, <1>6, <1>7, <1>8, <1>9, <1>10, <1>11, <1>12, <1>13, <1>14,
     WriteSteps

\* When no call fails and no other host writes, a write is refused only for a
\* reason of the device or of the input: the counters and addresses of the
\* chunks do_write_rpmb sends follow each other.
THEOREM FaultFreeSucceeds == Spec => []FaultFreeWriteSucceeds
<1>1. /\ IInv /\ CallInv /\ TruthInv /\ WriteInv /\ FaultFree /\ [Next]_vars
      => FaultFree'
  BY FaultFreeKept
<1>2. Init => FaultFree
  BY DEF Init, FaultFree, Got
<1>3. FaultFree => FaultFreeWriteSucceeds
  BY DEF FaultFree, FaultFreeWriteSucceeds, Reasons
<1>4. QED
  BY <1>1, <1>2, <1>3, Inductive, Calls, Answered, Counted, PTL DEF Spec

-----------------------------------------------------------------------------
(* A write other hosts get in the way of                                   *)

\* Whether the result of the chunk under way is, or will be, a success.
Succeeded ==
  CASE pc = "so2" -> result[job.region] = "Success"
    [] pc = "si"  -> resp[job.region].result = "Success"
    [] OTHER      -> reply.result = "Success"

\* The chunk under way does not fit into the region.
Outside == addr + Chunk > MaxAddr + 1

\* The device's counter is never behind the tool's.  While they are equal, what
\* the tool has counted is what it has stored; and a result the tool takes for
\* its own, when it was another host's, has moved the device's counter ahead.
OthersInv ==
  (Writing /\ ~ masked /\ purge[job.region] = "none") =>
    LET c == counter[job.region] IN
    /\ BeforeLoop => cnt = 0
    /\ caller = "do_read_counter" =>
         /\ pc = "si" => resp[job.region].counter <= c
         /\ (pc = "check" /\ ret = "ok") => reply.counter <= c
    /\ (key[job.region] = job.key /\ InWriteLoop) =>
         /\ c >= cnt
         /\ (c = cnt /\ addr <= MaxAddr) => applied = Done
         /\ (caller = "do_write_rpmb" /\ (pc = "so2" \/ Got)) =>
              /\ c > cnt \/ c = CounterMax \/ Outside
              /\ Succeeded =>
                   /\ c > cnt
                   /\ c = cnt + 1 => applied = Done + Chunk \/ Outside

\* The region, before the loop and in it.
SharedInv == OthersInv /\ PrefixDespiteOthers

\* A run that writes neither begins nor ends a purge of a region without one.
LEMMA PurgeFixed ==
  ASSUME IInv, CallInv, Writing, [Next]_vars, purge'[job.region] = "none"
  PROVE  purge[job.region] = "none" /\ key' = key
<1>1. job.region \in Regions /\ purge \in [Regions -> PurgeStates]
  BY DEF IInv, Inv, TypeOK, DevTypeOK, Jobs
<1>2. CASE PurgeEnds
  BY <1>1, <1>2 DEF PurgeEnds, DevPurgeEnds
<1>3. CASE SecurityOut
  BY <1>3, WriteSends
<1>4. CASE ForeignWrite
  BY <1>4 DEF ForeignWrite, DevForeignWrite
<1>5. CASE \/ OpenFails \/ DoRpmb \/ SecurityIn \/ CounterReturns \/ WriteChunk
           \/ WriteGivesUp \/ WriteReturns \/ LoopEnds("write")
           \/ UNCHANGED vars
  BY <1>5
  DEF OpenFails, DoRpmb, SecurityIn, CounterReturns, WriteChunk, WriteGivesUp,
      WriteReturns, LoopEnds, vars, devVars
<1>6. QED
  BY <1>2, <1>3, <1>4, <1>5, WriteSteps

\* Steps that leave the region and the bookkeeping alone.
LEMMA SharedStays ==
  ASSUME SharedInv, Writing,
         UNCHANGED <<job, data, counter, purge, key, addr, left, cnt, applied>>,
         ~ masked' => ~ masked,
         BeforeLoop' => BeforeLoop, InWriteLoop' => InWriteLoop,
         pc' \in InOp => ~ Got' /\ pc' # "so2"
  PROVE  SharedInv'
<1>1. Done' = Done /\ Chunk' = Chunk /\ Writing' /\ Here' = Here
  BY DEF Done, Chunk, MaxBlocks, Writing, Here
<1>2. PrefixDespiteOthers'
  BY <1>1 DEF SharedInv, PrefixDespiteOthers, Earlier
<1>3. /\ pc' # "si"
      /\ ~ (pc' = "check" /\ ret' = "ok")
      /\ ~ (pc' = "so2" \/ Got')
  BY DEF Got, InOp, Sending
<1>4. OthersInv'
  BY <1>1, <1>3 DEF SharedInv, OthersInv
<1>5. QED
  BY <1>1, <1>2, <1>4 DEF SharedInv

\* The chunk the device stores goes behind the chunks before.
LEMMA PrefixGrows ==
  ASSUME IInv, PrefixDespiteOthers, Writing, ~ masked,
         purge[job.region] = "none", left > 0, addr <= MaxAddr,
         applied = Done, applied' = Done + Chunk, job' = job,
         data' = AfterWrite(WriteRequest)
  PROVE  PrefixDespiteOthers'
<1> DEFINE r == job.region
<1>1. /\ WriteRequest.region = r /\ WriteRequest.addr = addr
      /\ WriteRequest.count = Chunk /\ WriteRequest.first = Done + 1
      /\ addr = job.start + Done /\ Chunk \in Nat /\ Done \in Nat
      /\ addr \in Addrs
  BY WriteRequestParts
<1>2. r \in Regions /\ DevTypeOK /\ job.start \in Int
  BY DEF IInv, Inv, TypeOK, Jobs
<1> SUFFICES ASSUME NEW a \in Addrs
             PROVE  data'[r][a] \in
                      {Foreign, IF a \in job.start .. (job.start + (Done + Chunk) - 1)
                                  THEN a - job.start + 1 ELSE Earlier(r, a)}
  BY <1>2 DEF PrefixDespiteOthers, Here, Earlier
<1>3. data[r][a] \in {Foreign, IF a \in job.start .. (job.start + Done - 1)
                                 THEN a - job.start + 1 ELSE Earlier(r, a)}
  BY DEF PrefixDespiteOthers, Here
<1>4. data'[r][a] = IF a \in addr .. (addr + Chunk - 1)
                      THEN Done + 1 + (a - addr) ELSE data[r][a]
  BY <1>1, <1>2 DEF AfterWrite, Stored, DevTypeOK
<1>5. a \in Int
  BY DEF Addrs
<1>6. CASE a \in addr .. (addr + Chunk - 1)
  <2>1. /\ a \in job.start .. (job.start + (Done + Chunk) - 1)
        /\ Done + 1 + (a - addr) = a - job.start + 1
    BY <1>1, <1>2, <1>5, <1>6
  <2>2. QED
    BY <1>4, <1>6, <2>1
<1>7. CASE a \notin addr .. (addr + Chunk - 1)
  <2>1. a \in job.start .. (job.start + Done - 1) <=>
        a \in job.start .. (job.start + (Done + Chunk) - 1)
    BY <1>1, <1>2, <1>5, <1>7
  <2>2. QED
    BY <1>3, <1>4, <1>7, <2>1
<1>8. QED
  BY <1>6, <1>7

LEMMA PrefixStays ==
  ASSUME PrefixDespiteOthers, UNCHANGED <<job, data, applied>>,
         (Writing /\ ~ masked' /\ purge'[job.region] = "none") =>
           ~ masked /\ purge[job.region] = "none"
  PROVE  PrefixDespiteOthers'
BY DEF PrefixDespiteOthers, Writing, Here, Earlier

\* An SO of the counter request.
LEMMA SharedCounterSends ==
  ASSUME IInv, CallInv, SharedInv, Writing, SecurityOut,
         caller = "do_read_counter", ~ masked, ~ masked',
         purge[job.region] = "none"
  PROVE  SharedInv'
<1>1. /\ UNCHANGED <<job, caller, cnt, left, addr>> /\ pc \in {"so1", "so2"}
      /\ pc' \in Sending /\ pc \in InOp /\ pc' \in InOp
  BY WriteSends DEF InOp, Sending
<1>2. Opening.req = "READ_CNT" /\ Opening.region = job.region
  BY OpeningParts DEF CounterRegion, Writing
<1>3. pc = "so1" /\ frame = Opening
  BY <1>1, <1>2 DEF CallInv, FrameInv, Changes
<1>4. DevTypeOK /\ frame \in Requests
  BY DEF IInv, Inv, TypeOK
<1>5. \/ DevExecute(frame) /\ NoteApplied
      \/ UNCHANGED <<devVars, applied>>
  BY DEF SecurityOut, SoSucceeds, SoVanishes, SoFails
<1>6. UNCHANGED <<data, counter, applied>>
  BY <1>2, <1>3, <1>5, ExecuteQuery DEF NoteApplied, devVars
<1>7. pc' = "si" => resp'[job.region].counter <= counter[job.region]
  BY <1>2, <1>3, <1>4, CounterShown, GoesOn
<1>8. pc' \in {"so1", "si"}
  BY <1>2, <1>3, Sends DEF Changes
<1>9. PrefixDespiteOthers'
  BY <1>1, <1>6, PrefixStays DEF SharedInv
<1>10. BeforeLoop /\ ~ InWriteLoop'
  BY <1>1 DEF BeforeLoop, InWriteLoop, InOp, Sending
<1>11. cnt = 0
  BY <1>10 DEF SharedInv, OthersInv
<1>12. OthersInv'
  BY <1>1, <1>6, <1>7, <1>8, <1>10, <1>11 DEF OthersInv
<1>13. QED
  BY <1>9, <1>12 DEF SharedInv

\* An SO of a chunk.
LEMMA SharedChunkSends ==
  ASSUME IInv, CallInv, SharedInv, Writing, SecurityOut, pc = "so1",
         caller = "do_write_rpmb", ~ masked, ~ masked',
         purge[job.region] = "none"
  PROVE  SharedInv'
<1> DEFINE r == job.region
<1>1. /\ UNCHANGED <<job, caller, cnt, left, addr, key, purge>>
      /\ pc' \in Sending /\ pc \in InOp /\ pc' \in InOp
  BY WriteSends DEF InOp, Sending
<1>2. frame = WriteRequest /\ left > 0 /\ addr <= MaxAddr /\ frame.req \in Changes
  BY <1>1, OpeningParts DEF CallInv, FrameInv, IInv, LoopInv, Changes
<1>3. /\ WriteRequest.req = "WRITE" /\ WriteRequest.region = r
      /\ WriteRequest.counter = cnt /\ WriteRequest.mac = job.key
      /\ WriteRequest.count = Chunk /\ WriteRequest.first = Done + 1
      /\ WriteRequest.addr = addr
      /\ Chunk \in Nat /\ Done \in Nat /\ addr \in Addrs
  BY <1>2, WriteRequestParts
<1>4. /\ DevTypeOK /\ frame \in Requests /\ cnt \in Nat
      /\ counter[r] \in 0 .. CounterMax /\ addr \in Int
      /\ job.key # NoKey
  BY DEF IInv, Inv, TypeOK, DevTypeOK, Jobs, CallInv, JobInv, Writing, NeedsKey
<1>5. pc' \in {"so1", "so2"}
  <2>1. Opening.req \in Changes
    BY OpeningParts DEF Changes
  <2>2. QED
    BY <2>1, Sends DEF Changes
<1>6. ~ BeforeLoop' /\ InWriteLoop /\ InWriteLoop'
  BY <1>1 DEF BeforeLoop, InWriteLoop, InOp, Sending
<1>7. Done' = Done /\ Chunk' = Chunk /\ (Outside' <=> Outside) /\ Writing'
  BY <1>1 DEF Done, Chunk, MaxBlocks, Outside, Writing
<1>8. CASE UNCHANGED <<devVars, applied>> /\ pc' = "so1"
  <2>1. PrefixDespiteOthers'
    BY <1>1, <1>8, PrefixStays DEF SharedInv, devVars
  <2>2. OthersInv'
    BY <1>1, <1>6, <1>7, <1>8 DEF SharedInv, OthersInv, Got, devVars
  <2>3. QED
    BY <2>1, <2>2 DEF SharedInv
<1>9. CASE DevExecute(frame) /\ NoteApplied
  <2>1. CASE /\ UNCHANGED <<data, counter>>
             /\ result'[r] # "Success"
             /\ result'[r] \in Objections(frame)
    <3>1. applied' = applied
      BY <1>9, <2>1 DEF NoteApplied
    <3>2. PrefixDespiteOthers'
      BY <1>1, <2>1, <3>1, PrefixStays DEF SharedInv
    <3>3. (key[r] = job.key /\ counter[r] >= cnt) =>
            counter[r] > cnt \/ counter[r] = CounterMax \/ Outside
      <4>1. \/ purge[r] = "running" \/ key[r] = NoKey \/ key[r] # job.key
            \/ counter[r] >= CounterMax \/ counter[r] # cnt
            \/ addr + Chunk - 1 > MaxAddr
        BY <1>2, <1>3, <2>1 DEF Objections
      <4>2. addr + Chunk - 1 > MaxAddr => Outside
        BY <1>3, <1>4, BoundsAssumption DEF Outside
      <4>3. QED
        BY <1>4, <4>1, <4>2, BoundsAssumption
    <3>4. pc' = "so2" => ~ Succeeded'
      BY <1>1, <2>1 DEF Succeeded
    <3>5. OthersInv'
      BY <1>1, <1>5, <1>6, <1>7, <2>1, <3>1, <3>3, <3>4
      DEF SharedInv, OthersInv, Got
    <3>6. QED
      BY <3>2, <3>5 DEF SharedInv
  <2>2. CASE /\ counter[r] = cnt /\ counter'[r] = cnt + 1
             /\ counter' # counter /\ data' = AfterWrite(frame)
             /\ key[r] = job.key
    <3>1. applied' = Done + Chunk
      BY <1>2, <1>3, <1>9, <2>2 DEF NoteApplied
    <3>2. applied = Done
      BY <1>2, <1>6, <2>2 DEF SharedInv, OthersInv
    <3>3. PrefixDespiteOthers'
      BY <1>1, <1>2, <2>2, <3>1, <3>2, PrefixGrows DEF SharedInv
    <3>4. counter'[r] > cnt /\ counter'[r] >= cnt /\ counter'[r] # cnt
      BY <1>4, <2>2
    <3>5. OthersInv'
      BY <1>1, <1>5, <1>6, <1>7, <2>2, <3>1, <3>4 DEF OthersInv
    <3>6. QED
      BY <3>3, <3>5 DEF SharedInv
  <2>3. QED
    BY <1>2, <1>3, <1>4, <1>9, <2>1, <2>2, WriteDecided
<1>10. QED
  <2>1. \/ DevExecute(frame) /\ NoteApplied
        \/ UNCHANGED <<devVars, applied>> /\ pc' = "so1"
    BY <1>5 DEF SecurityOut, SoSucceeds, SoVanishes, SoFails
  <2>2. QED
    BY <1>8, <1>9, <2>1

\* An SO of a result request.
LEMMA SharedResultSends ==
  ASSUME IInv, CallInv, SharedInv, Writing, SecurityOut, pc = "so2",
         caller = "do_write_rpmb", ~ masked, ~ masked',
         purge[job.region] = "none"
  PROVE  SharedInv'
<1> DEFINE r == job.region
<1>1. /\ UNCHANGED <<job, caller, cnt, left, addr, key, purge>>
      /\ pc' \in Sending /\ pc \in InOp /\ pc' \in InOp
  BY WriteSends DEF InOp, Sending
<1>2. frame.req = "READ_RESP" /\ frame.region = r
  BY <1>1, OpeningParts, RequestParts DEF CallInv, FrameInv
<1>3. DevTypeOK /\ frame \in Requests
  BY DEF IInv, Inv, TypeOK
<1>4. \/ DevExecute(frame) /\ NoteApplied
      \/ UNCHANGED <<devVars, applied>>
  BY DEF SecurityOut, SoSucceeds, SoVanishes, SoFails
<1>5. UNCHANGED <<data, counter, result, applied>>
  BY <1>2, <1>3, <1>4, ExecuteResult DEF NoteApplied, devVars
<1>6. pc' = "si" => resp'[r].result = result[r]
  BY <1>2, <1>3, ExecuteResult, GoesOn
<1>7. pc' \in {"so2", "si"}
  BY Sends
<1>8. Succeeded' <=> Succeeded
  BY <1>1, <1>5, <1>6, <1>7 DEF Succeeded
<1>9. ~ BeforeLoop' /\ InWriteLoop /\ InWriteLoop'
  BY <1>1 DEF BeforeLoop, InWriteLoop, InOp, Sending
<1>10. Done' = Done /\ Chunk' = Chunk /\ (Outside' <=> Outside) /\ Writing'
  BY <1>1 DEF Done, Chunk, MaxBlocks, Outside, Writing
<1>11. PrefixDespiteOthers'
  BY <1>1, <1>5, PrefixStays DEF SharedInv
<1>12. OthersInv'
  BY <1>1, <1>5, <1>8, <1>9, <1>10 DEF SharedInv, OthersInv
<1>13. QED
  BY <1>11, <1>12 DEF SharedInv

\* Collecting an answer.
LEMMA SharedCollects ==
  ASSUME IInv, CallInv, SharedInv, Writing, SecurityIn, ~ masked, ~ masked',
         purge[job.region] = "none"
  PROVE  SharedInv'
<1> DEFINE r == job.region
<1>1. /\ UNCHANGED <<job, caller, frame, cnt, left, addr, devVars, applied>>
      /\ pc = "si" /\ pc \in InOp /\ pc' \in {"si", "check"} /\ pc' \in InOp
  BY DEF SecurityIn, SiSucceeds, SiVanishes, SiFails, loopVars, InOp, Sending
<1>2. caller \in {"do_read_counter", "do_write_rpmb"}
  BY <1>1 DEF IInv, LoopInv
<1>3. frame.region = r
  BY <1>1, <1>2, OpeningParts, RequestParts
  DEF CallInv, FrameInv, Got, CounterRegion, Writing
<1>4. (pc' = "check" /\ ret' = "ok") => reply' = resp[r]
  BY <1>3 DEF SecurityIn, SiSucceeds, SiVanishes, SiFails
<1>5. /\ BeforeLoop' <=> BeforeLoop
      /\ InWriteLoop' <=> InWriteLoop
  BY <1>1 DEF BeforeLoop, InWriteLoop
<1>6. Done' = Done /\ Chunk' = Chunk /\ (Outside' <=> Outside) /\ Writing'
  BY <1>1 DEF Done, Chunk, MaxBlocks, Outside, Writing
<1>7. UNCHANGED <<key, counter, data, purge, result, resp>>
  BY <1>1 DEF devVars
<1>8. PrefixDespiteOthers'
  BY <1>1, <1>7, PrefixStays DEF SharedInv
<1>9. Got /\ (Got' => (Succeeded' <=> Succeeded))
  BY <1>1, <1>4, <1>7 DEF Got, Succeeded
<1>10. OthersInv'
  BY <1>1, <1>4, <1>5, <1>6, <1>7, <1>9 DEF SharedInv, OthersInv
<1>11. QED
  BY <1>8, <1>10 DEF SharedInv

\* The counter the write begins with is not ahead of the device's.
LEMMA SharedBegins ==
  ASSUME IInv, CallInv, SharedInv, Writing, CounterReturns, ~ masked,
         ~ masked', purge[job.region] = "none"
  PROVE  SharedInv'
<1> DEFINE r == job.region
<1>1. /\ pc = "check" /\ caller = "do_read_counter" /\ BeforeLoop
      /\ left = job.num /\ applied = 0 /\ job.num \in Nat
      /\ UNCHANGED <<job, devVars, addr, left, applied>>
      /\ cnt' = IF Fine THEN reply.counter ELSE cnt
      /\ pc' = "exit" \/ (pc' = "write" /\ ret = "ok")
  BY DEF CounterReturns, Return, Finish, BeforeLoop, IInv, LoopInv, InOp, Writing
<1>2. UNCHANGED <<key, counter, data, purge>>
  BY <1>1 DEF devVars
<1>3. PrefixDespiteOthers'
  BY <1>1, <1>2, PrefixStays DEF SharedInv
<1>4. ~ BeforeLoop' /\ pc' \notin InOp
  BY <1>1 DEF BeforeLoop, InOp, Sending
<1>5. (pc' = "write") => cnt' <= counter[r]
  <2>1. counter[r] \in Nat
    BY BoundsAssumption DEF IInv, Inv, TypeOK, DevTypeOK, Jobs
  <2>2. cnt = 0
    BY <1>1 DEF SharedInv, OthersInv
  <2>3. ret = "ok" => reply.counter <= counter[r]
    BY <1>1 DEF SharedInv, OthersInv
  <2>4. QED
    BY <1>1, <2>1, <2>2, <2>3
<1>6. Done' = 0
  BY <1>1 DEF Done
<1>7. cnt' \in Nat /\ counter[r] \in Nat
  <2>1. counter[r] \in Nat
    BY BoundsAssumption DEF IInv, Inv, TypeOK, DevTypeOK, Jobs
  <2>2. cnt' \in Nat
    BY CounterReturnsTyped DEF IInv, Inv, TypeOK
  <2>3. QED
    BY <2>1, <2>2
<1>8. OthersInv'
  BY <1>1, <1>2, <1>4, <1>5, <1>6, <1>7
  DEF OthersInv, InWriteLoop, Got, InOp, Sending
<1>9. QED
  BY <1>3, <1>8 DEF SharedInv

\* The next chunk of a write.
LEMMA SharedGoesOn ==
  ASSUME IInv, CallInv, SharedInv, Writing, WriteReturns, ~ masked,
         ~ masked', purge[job.region] = "none"
  PROVE  SharedInv'
<1> DEFINE r == job.region
<1>1. /\ pc = "check" /\ caller = "do_write_rpmb" /\ pc \in InOp
      /\ UNCHANGED <<job, devVars, applied>>
  BY DEF WriteReturns, Return, InOp, history
<1>2. UNCHANGED <<key, counter, data, purge>>
  BY <1>1 DEF devVars
<1>3. CASE pc' = "exit" /\ UNCHANGED loopVars
  BY <1>1, <1>2, <1>3, SharedStays
  DEF BeforeLoop, InWriteLoop, InOp, Sending, loopVars
<1>4. CASE Fine /\ NextChunk /\ cnt' = cnt + 1 /\ pc' = "write"
  <2>1. PrefixDespiteOthers'
    BY <1>1, <1>2, PrefixStays DEF SharedInv
  <2>2. ~ BeforeLoop' /\ pc' \notin InOp /\ InWriteLoop
    BY <1>1, <1>4 DEF BeforeLoop, InWriteLoop, InOp, Sending
  <2>3. left > 0 /\ addr <= MaxAddr
    BY <1>1 DEF IInv, LoopInv
  <2>4. Chunk \in Nat /\ Done \in Nat /\ addr \in Addrs /\ job.num \in Int
        /\ left \in Int /\ cnt \in Nat /\ counter[r] \in Nat
    BY <2>3, WriteRequestParts, BoundsAssumption
    DEF IInv, Inv, TypeOK, DevTypeOK, Jobs
  <2>5. Done' = Done + Chunk /\ addr' = addr + Chunk
    BY <1>1, <1>4, <2>4 DEF NextChunk, Done
  <2>6. Got /\ Succeeded
    BY <1>1, <1>4 DEF Got, Succeeded, Fine
  <2>7. key[r] = job.key =>
          /\ counter[r] > cnt
          /\ counter[r] = cnt + 1 => applied = Done + Chunk \/ Outside
    BY <1>1, <2>2, <2>6 DEF SharedInv, OthersInv
  <2>8. Outside => addr' > MaxAddr
    <3>1. addr \in Int
      BY <2>4 DEF Addrs
    <3>2. QED
      BY <2>4, <2>5, <3>1, BoundsAssumption DEF Outside
  <2>9. addr' \in Int
    BY <2>4, <2>5 DEF Addrs
  <2>10. OthersInv'
    <3> SUFFICES ASSUME key[r] = job.key
                 PROVE  /\ counter[r] >= cnt'
                        /\ (counter[r] = cnt' /\ addr' <= MaxAddr) =>
                             applied = Done'
      BY <1>1, <1>2, <1>4, <2>2 DEF OthersInv, Got, InOp, Sending
    <3>1. counter[r] >= cnt + 1
      BY <2>4, <2>7
    <3>2. addr' <= MaxAddr => ~ Outside
      BY <2>8, <2>9, BoundsAssumption
    <3>3. QED
      BY <1>4, <2>5, <2>7, <3>1, <3>2
  <2>11. QED
    BY <2>1, <2>10 DEF SharedInv
<1>5. QED
  BY <1>3, <1>4 DEF WriteReturns, Finish, NextCounter

\* Another host's write moves the counter of the region on.
LEMMA SharedForeign ==
  ASSUME IInv, SharedInv, Writing, ForeignWrite, ~ masked, ~ masked',
         purge[job.region] = "none"
  PROVE  SharedInv'
<1> DEFINE r == job.region
<1>1. UNCHANGED <<job, pc, caller, ret, reply, addr, left, cnt, applied>>
  BY DEF ForeignWrite, toolVars, loopVars, history
<1>2. PICK o \in Regions, a \in Addrs : DevForeignWrite(o, a)
  BY DEF ForeignWrite
<1>3. /\ DevTypeOK /\ r \in Regions /\ cnt \in Nat
      /\ counter[r] \in 0 .. CounterMax
  BY DEF IInv, Inv, TypeOK, DevTypeOK, Jobs
<1>4. UNCHANGED <<key, purge>>
  BY <1>2 DEF DevForeignWrite
<1>5. /\ Done' = Done /\ Chunk' = Chunk /\ (Outside' <=> Outside) /\ Writing'
      /\ BeforeLoop' <=> BeforeLoop
      /\ InWriteLoop' <=> InWriteLoop
      /\ Got' <=> Got
  BY <1>1
  DEF Done, Chunk, MaxBlocks, Outside, Writing, BeforeLoop, InWriteLoop, Got
<1>6. CASE o # r
  <2>1. /\ data'[r] = data[r] /\ counter'[r] = counter[r]
        /\ result'[r] = result[r] /\ resp'[r] = resp[r]
    BY <1>2, <1>3, <1>6 DEF DevForeignWrite, DevTypeOK
  <2>2. PrefixDespiteOthers'
    BY <1>1, <1>4, <1>5, <2>1 DEF SharedInv, PrefixDespiteOthers, Here, Earlier
  <2>3. Succeeded' <=> Succeeded
    BY <1>1, <2>1 DEF Succeeded
  <2>4. OthersInv'
    BY <1>1, <1>4, <1>5, <2>1, <2>3 DEF SharedInv, OthersInv
  <2>5. QED
    BY <2>2, <2>4 DEF SharedInv
<1>7. CASE o = r
  <2>1. /\ \A b \in Addrs : data'[r][b] \in {Foreign, data[r][b]}
        /\ counter'[r] = counter[r] + 1 /\ counter[r] < CounterMax
        /\ resp'[r].counter = counter[r] + 1
    BY <1>2, <1>3, <1>7 DEF DevForeignWrite, DevTypeOK, Answer
  <2>2. PrefixDespiteOthers'
    BY <1>1, <1>4, <1>5, <2>1 DEF SharedInv, PrefixDespiteOthers, Here, Earlier
  <2>3. ASSUME BeforeLoop, caller = "do_read_counter", pc = "check", ret = "ok"
        PROVE  reply.counter <= counter'[r]
    <3>1. reply.counter \in Nat
      BY DEF IInv, Inv, TypeOK, Answers
    <3>2. QED
      BY <1>3, <2>1, <2>3, <3>1 DEF SharedInv, OthersInv
  <2>4. ASSUME key[r] = job.key, InWriteLoop
        PROVE  /\ counter'[r] > cnt
               /\ (/\ caller = "do_write_rpmb"
                   /\ pc = "so2" \/ Got
                   /\ counter'[r] = cnt + 1) => Outside
    <3>1. counter[r] >= cnt
      BY <2>4 DEF SharedInv, OthersInv
    <3>2. (caller = "do_write_rpmb" /\ (pc = "so2" \/ Got)) =>
            counter[r] > cnt \/ counter[r] = CounterMax \/ Outside
      BY <2>4 DEF SharedInv, OthersInv
    <3>3. QED
      BY <1>3, <2>1, <3>1, <3>2, BoundsAssumption
  <2>5. counter'[r] \in Nat
    BY <1>3, <2>1, BoundsAssumption
  <2>6. OthersInv'
    BY <1>1, <1>3, <1>4, <1>5, <2>1, <2>3, <2>4, <2>5
    DEF SharedInv, OthersInv, BeforeLoop, InOp, Sending
  <2>7. QED
    BY <2>2, <2>6 DEF SharedInv
<1>8. QED
  BY <1>6, <1>7

LEMMA SharedKept ==
  ASSUME IInv, CallInv, SharedInv, [Next]_vars
  PROVE  SharedInv'
<1>1. job' = job /\ (Writing' <=> Writing)
  BY JobFixed DEF Writing
<1> SUFFICES ASSUME Writing, ~ masked', purge'[job.region] = "none"
             PROVE  SharedInv'
  BY <1>1 DEF SharedInv, OthersInv, PrefixDespiteOthers
<1>2. ~ masked /\ purge[job.region] = "none" /\ key' = key /\ TypeOK
  BY MaskStays, PurgeFixed DEF IInv, Inv
<1>3. CASE SecurityOut
  <2>1. pc \in {"so1", "so2"} /\ pc \in InOp
    BY <1>3 DEF SecurityOut, InOp, Sending
  <2>2. caller \in {"do_read_counter", "do_write_rpmb"}
    BY <2>1 DEF IInv, LoopInv
  <2>3. QED
    BY <1>2, <1>3, <2>1, <2>2, SharedCounterSends, SharedChunkSends,
       SharedResultSends
<1>4. CASE SecurityIn
  BY <1>2, <1>4, SharedCollects
<1>5. CASE CounterReturns
  BY <1>2, <1>5, SharedBegins
<1>6. CASE WriteReturns
  BY <1>2, <1>6, SharedGoesOn
<1>7. CASE ForeignWrite
  BY <1>2, <1>7, SharedForeign
<1>8. CASE DoRpmb \/ WriteChunk \/ OpenFails \/ WriteGivesUp \/ LoopEnds("write")
  <2>1. /\ UNCHANGED <<data, counter, purge, addr, left, cnt, applied>>
    BY <1>8
    DEF DoRpmb, WriteChunk, OpenFails, WriteGivesUp, LoopEnds, devVars, loopVars,
        history
  <2>2. ~ Got' /\ pc' # "so2"
    BY <1>2, <1>8, NoAnswer
  <2>3. /\ BeforeLoop' => BeforeLoop
        /\ InWriteLoop' => InWriteLoop
    <3>1. CASE DoRpmb
      <4>1. DoRpmbOp("do_read_counter", Request("READ_CNT", CounterRegion))
        BY <3>1 DEF DoRpmb, FirstCall, Writing
      <4>2. QED
        BY <3>1, <4>1, CallBegins
        DEF DoRpmb, BeforeLoop, InWriteLoop, InOp, Sending
    <3>2. CASE WriteChunk
      BY <3>2, CallBegins
      DEF WriteChunk, LoopGoesOn, BeforeLoop, InWriteLoop, InOp, Sending
    <3>3. CASE OpenFails \/ WriteGivesUp \/ LoopEnds("write")
      BY <3>3
      DEF OpenFails, WriteGivesUp, LoopEnds, Finish, BeforeLoop, InWriteLoop,
          InOp, Sending
    <3>4. QED
      BY <1>8, <3>1, <3>2, <3>3
  <2>4. QED
    BY <1>1, <1>2, <2>1, <2>2, <2>3, SharedStays
<1>9. CASE PurgeEnds \/ UNCHANGED vars
  <2>1. UNCHANGED <<pc, caller, ret, reply, addr, left, cnt, data, counter,
                    result, resp, applied>>
    BY <1>9
    DEF PurgeEnds, DevPurgeEnds, toolVars, loopVars, history, vars, devVars
  <2>2. /\ Done' = Done /\ Chunk' = Chunk /\ (Outside' <=> Outside)
        /\ BeforeLoop' <=> BeforeLoop
        /\ InWriteLoop' <=> InWriteLoop
        /\ Got' <=> Got
        /\ Succeeded' <=> Succeeded
    BY <1>1, <2>1
    DEF Done, Chunk, MaxBlocks, Outside, BeforeLoop, InWriteLoop, Got, Succeeded
  <2>3. PrefixDespiteOthers'
    BY <1>1, <1>2, <2>1, PrefixStays DEF SharedInv
  <2>4. OthersInv'
    BY <1>1, <1>2, <2>1, <2>2 DEF SharedInv, OthersInv
  <2>5. QED
    BY <2>3, <2>4 DEF SharedInv
<1>10. QED
  BY <1>3, <1>4, <1>5, <1>6, <1>7, <1>8, <1>9, WriteSteps

\* Whatever calls fail and whatever other hosts write in between: as long as
\* no error is masked and no purge goes on, the blocks of a write that reached
\* the region are the first ones of the file, at their addresses.  A refused
\* chunk is never followed by a stored one, not even when do_write_rpmb takes
\* another host's result for its own.
THEOREM PrefixAmongOthers == Spec => []PrefixDespiteOthers
<1>1. IInv /\ CallInv /\ SharedInv /\ [Next]_vars => SharedInv'
  BY SharedKept
<1>2. Init => SharedInv
  <2> SUFFICES ASSUME Init PROVE SharedInv
    OBVIOUS
  <2>1. /\ RegionInv /\ pc = "start" /\ cnt = 0 /\ caller = "none"
        /\ foreign = 0 /\ BeforeLoop
    BY InitLoop DEF Init, BeforeLoop
  <2>2. PrefixDespiteOthers
    BY <2>1 DEF RegionInv, PrefixDespiteOthers
  <2>3. OthersInv
    BY <2>1 DEF OthersInv, InWriteLoop, InOp, Sending
  <2>4. QED
    BY <2>2, <2>3 DEF SharedInv
<1>3. SharedInv => PrefixDespiteOthers
  BY DEF SharedInv
<1>4. QED
  BY <1>1, <1>2, <1>3, Inductive, Calls, PTL DEF Spec
-----------------------------------------------------------------------------
(* A write command is a run of RpmbPromise                                 *)

\* A chunk the device stores is a portion of the promise.
LEMMA Stores ==
  ASSUME IInv, CallInv, WriteInv, Writing, Undisturbed, SecurityOut,
         ~ UNCHANGED <<data, applied>>
  PROVE  \E n \in 1 .. job.num : Promise!Store(n)
<1> DEFINE r == job.region
<1>1. /\ UNCHANGED <<job, caller, cnt, left, addr, inSync>>
      /\ pc \in {"so1", "so2"} /\ pc' \in Sending
  BY WriteSends
<1>2. /\ DevTypeOK /\ frame \in Requests /\ job \in Jobs /\ r \in Regions
      /\ left \in Int /\ cnt \in Nat
  BY DEF IInv, Inv, TypeOK, Jobs
<1>3. DevExecute(frame) /\ NoteApplied
  BY DEF SecurityOut, SoSucceeds, SoVanishes, SoFails, devVars
<1>4. frame.req \notin {"READ_CNT", "READ_RESP"}
  <2>1. frame.req \in {"READ_CNT", "READ_RESP"} => UNCHANGED <<data, counter>>
    BY <1>3, ExecuteQuery
  <2>2. QED
    BY <1>3, <2>1 DEF NoteApplied
<1>5. /\ pc = "so1" /\ caller = "do_write_rpmb" /\ frame = WriteRequest
      /\ left > 0 /\ addr <= MaxAddr
  BY <1>1, <1>4 DEF IInv, Inv, OpInv, LoopInv, InOp, Sending
<1>6. /\ frame.req = "WRITE" /\ frame.region = r /\ frame.counter = cnt
      /\ frame.addr = addr /\ frame.count = Chunk /\ frame.first = Done + 1
      /\ addr = job.start + Done /\ addr \in Addrs
      /\ Chunk \in Nat /\ Done \in Nat /\ Done + Chunk <= job.num
      /\ job.num \in Nat
  BY <1>5, WriteRequestParts
<1>7. /\ counter[r] = cnt /\ counter' # counter /\ data' = AfterWrite(frame)
      /\ addr + Chunk - 1 <= MaxAddr
  BY <1>2, <1>3, <1>6, WriteDecided DEF NoteApplied
<1>8. applied' = Done + Chunk
  BY <1>3, <1>6, <1>7 DEF NoteApplied
<1>9. applied = Done
  <2>1. inSync
    BY <1>5 DEF WriteInv, InWriteLoop, InOp, Sending
  <2>2. QED
    BY <1>7, <2>1 DEF IInv, CounterInv, Undisturbed
<1>10. Chunk > 0
  BY <1>2, <1>5, ChunkNotEmpty
<1>11. job.start \in Int /\ job.start + applied + Chunk - 1 <= MaxAddr
  BY <1>2, <1>6, <1>7, <1>9 DEF Jobs
<1>12. Verdict = "none" /\ Verdict' = "none"
  <2>1. pc # "exit" /\ pc' # "exit"
    BY <1>1, <1>5 DEF Sending
  <2>2. QED
    BY <2>1 DEF Verdict
<1>13. data'[r] = [a \in 0 .. MaxAddr |->
                    IF a \in (job.start + applied) .. (job.start + applied + Chunk - 1)
                      THEN a - job.start + 1 ELSE data[r][a]]
  <2>1. data'[r] = [a \in Addrs |-> IF a \in addr .. (addr + Chunk - 1)
                                      THEN Done + 1 + (a - addr) ELSE data[r][a]]
    BY <1>2, <1>6, <1>7 DEF AfterWrite, Stored, DevTypeOK
  <2>2. ASSUME NEW a \in Addrs
        PROVE  a \in Int /\ Done + 1 + (a - addr) = a - job.start + 1
    BY <1>6, <1>11 DEF Addrs
  <2>3. addr = job.start + applied
    BY <1>6, <1>9
  <2>4. QED
    BY <2>1, <2>2, <2>3 DEF Addrs
<1>14. Chunk \in 1 .. job.num
  BY <1>6, <1>10
<1>15. Promise!Store(Chunk)
  BY <1>1, <1>6, <1>8, <1>9, <1>11, <1>12, <1>13 DEF Promise!Store
<1>16. QED
  BY <1>14, <1>15

\* A write calls do_rpmb_op for its counter and for every chunk.
LEMMA WriteCalls ==
  ASSUME Writing, DoRpmb \/ WriteChunk
  PROVE  /\ UNCHANGED <<devVars, job, faults, history>>
         /\ pc # "exit" /\ pc' # "exit" /\ tries' = 0
<1>1. \E who, f : DoRpmbOp(who, f)
  BY DEF DoRpmb, FirstCall, Writing, WriteChunk
<1>2. pc' # "exit" /\ tries' = 0
  BY <1>1, DoRpmbOpLeaves DEF DoRpmbOp
<1>3. QED
  BY <1>2 DEF DoRpmb, WriteChunk, LoopGoesOn

\* A write with no masked error and no other host, and the verdict it has not
\* yet or has already given.
LEMMA PromiseKept ==
  ASSUME IInv, CallInv, WriteInv, Writing, Undisturbed, Undisturbed',
         [Next]_vars
  PROVE  [Promise!Next]_Promise!promiseVars
<1>1. job' = job /\ TypeOK /\ ~ ForeignWrite
  BY JobFixed, DisturbanceStays DEF IInv, Inv
<1>2. ASSUME UNCHANGED <<data, applied>>,
             \/ pc # "exit" /\ pc' # "exit"
             \/ pc' = pc /\ ret' = ret
      PROVE  UNCHANGED Promise!promiseVars
  <2>1. Verdict' = Verdict
    BY <1>2 DEF Verdict
  <2>2. QED
    BY <1>1, <1>2, <2>1 DEF Promise!promiseVars
<1>3. ASSUME UNCHANGED <<data, applied>>, pc # "exit", pc' = "exit",
             ret' = "ok" => applied = job.num \/ job.start + applied > MaxAddr
      PROVE  Promise!Next
  <2>1. ret' \in {"ok", "error"}
    BY NextTyped DEF IInv, Inv, TypeOK
  <2>2. Verdict = "none" /\ Verdict' = IF ret' = "ok" THEN "good" ELSE "bad"
    BY <1>3 DEF Verdict
  <2>3. Promise!Conclude
    BY <1>1, <1>3, <2>2 DEF Promise!Conclude, Promise!Good
  <2>4. QED
    BY <2>3 DEF Promise!Next
<1>4. CASE SecurityOut
  <2>1. pc # "exit" /\ pc' # "exit"
    BY <1>4, WriteSends DEF Sending
  <2>2. CASE UNCHANGED <<data, applied>>
    BY <1>2, <2>1, <2>2
  <2>3. CASE ~ UNCHANGED <<data, applied>>
    BY <1>4, <2>3, Stores DEF Promise!Next
  <2>4. QED
    BY <2>2, <2>3
<1>5. CASE SecurityIn
  <2>1. UNCHANGED <<data, applied>> /\ pc = "si" /\ pc' # "exit"
    BY <1>5 DEF SecurityIn, SiSucceeds, SiVanishes, SiFails, devVars
  <2>2. QED
    BY <1>2, <2>1
<1>6. CASE OpenFails \/ WriteGivesUp
  <2>1. /\ UNCHANGED <<data, applied>> /\ pc # "exit"
        /\ pc' = "exit" /\ ret' = "error"
    BY <1>6
    DEF OpenFails, WriteGivesUp, LoopGoesOn, Finish, devVars, history
  <2>2. QED
    BY <1>3, <2>1
<1>7. CASE DoRpmb \/ WriteChunk
  BY <1>2, <1>7, WriteCalls DEF devVars, history
<1>8. CASE CounterReturns
  <2>1. UNCHANGED <<data, applied>> /\ pc = "check"
    BY <1>8 DEF CounterReturns, Return, devVars
  <2>2. pc' = "write" \/ (pc' = "exit" /\ ret' = ret /\ ret # "ok")
    BY <1>8 DEF CounterReturns, Finish, Writing
  <2>3. QED
    BY <1>2, <1>3, <2>1, <2>2
<1>9. CASE WriteReturns
  <2>1. UNCHANGED <<data, applied>> /\ pc = "check"
    BY <1>9 DEF WriteReturns, Return, devVars, history
  <2>2. pc' = "write" \/ (pc' = "exit" /\ ret' = "error")
    BY <1>9 DEF WriteReturns, Finish
  <2>3. QED
    BY <1>2, <1>3, <2>1, <2>2
<1>10. CASE LoopEnds("write")
  <2>1. /\ UNCHANGED <<data, applied>> /\ pc = "write" /\ pc' = "exit"
        /\ left <= 0 \/ addr > MaxAddr
    BY <1>10 DEF LoopEnds, Finish, devVars, history
  <2>2. applied = Done
    <3>1. inSync /\ counter[job.region] = cnt
      BY <2>1 DEF WriteInv, InWriteLoop
    <3>2. QED
      BY <3>1 DEF IInv, CounterInv, Undisturbed
  <2>3. /\ job.num \in Nat /\ left \in 0 .. job.num
        /\ addr = job.start + Done /\ Done = job.num - left
    BY DEF IInv, LoopInv, Done
  <2>4. applied = job.num \/ job.start + applied > MaxAddr
    BY <2>1, <2>2, <2>3
  <2>5. QED
    BY <1>3, <2>1, <2>4
<1>11. CASE PurgeEnds \/ UNCHANGED vars
  <2>1. UNCHANGED <<data, applied, pc, ret>>
    BY <1>11 DEF PurgeEnds, DevPurgeEnds, toolVars, vars, devVars, history
  <2>2. QED
    BY <1>2, <2>1
<1>12. QED
  BY <1>1, <1>4, <1>5, <1>6, <1>7, <1>8, <1>9, <1>10, <1>11, WriteSteps

LEMMA PromiseBegins ==
  ASSUME Init, Writing
  PROVE  Promise!Init
<1>1. TypeOK /\ LoopInv
  BY InitTyped, InitLoop
<1>2. job.start \in Addrs /\ job.num \in Nat /\ job.region \in Regions
  BY <1>1 DEF LoopInv, TypeOK, Jobs
<1>3. Verdict = "none" /\ applied = 0
  BY DEF Init, Verdict
<1>4. DOMAIN data[job.region] = 0 .. MaxAddr
  BY <1>1, <1>2 DEF TypeOK, DevTypeOK, Addrs
<1>5. QED
  BY <1>2, <1>3, <1>4 DEF Promise!Init, Addrs

\* A write command that no masked error and no other host disturbs is a run
\* of the promise, whatever calls fail, executed or not, and are repeated:
\* every step of the tool, the transport and the device is one of its steps
\* or leaves it unchanged (do_rpmb, WRITE_RPMB).
THEOREM Promised ==
  Spec /\ [](Writing /\ Undisturbed) => Promise!Spec
<1>1. Init /\ Writing => Promise!Init
  BY PromiseBegins
<1>2. /\ IInv /\ CallInv /\ WriteInv
      /\ Writing /\ Undisturbed /\ Undisturbed' /\ [Next]_vars
      => [Promise!Next]_Promise!promiseVars
  BY PromiseKept
<1>3. QED
  BY <1>1, <1>2, Inductive, Calls, Counted, PTL DEF Spec, Promise!Spec

-----------------------------------------------------------------------------
\* With fewer failing calls than tries, none of them is the last try.
NothingMasked == ~ masked /\ tries <= faults

\* No error is masked over SG_IO version 4 while fewer calls fail than
\* do_rpmb_op repeats, so a write with one host is never disturbed.
THEOREM NeverDisturbed ==
  ASSUME Commands = {"WRITE_RPMB"}, SgVersions = {4}, MaxForeign = 0,
         MaxFaults < MaxRetry
  PROVE  Spec => [](Writing /\ Undisturbed)
<1> DEFINE J == Writing /\ job.sg = 4 /\ NothingMasked
<1>1. Init => J
  <2> SUFFICES ASSUME Init PROVE J
    OBVIOUS
  <2>1. PICK o \in CommandLines : job = Verified(o)
    BY DEF Init
  <2>2. o.cmd = "WRITE_RPMB" /\ o.sg = 4
    BY <2>1 DEF CommandLines
  <2>3. job.cmd = "WRITE_RPMB" /\ job.sg = 4
    BY <2>1, <2>2 DEF Verified, CommandLines
  <2>4. QED
    BY <2>3 DEF Init, Writing, NothingMasked
<1>2. IInv /\ CallInv /\ J /\ [Next]_vars => J'
  <2> SUFFICES ASSUME IInv, CallInv, J, [Next]_vars PROVE J'
    OBVIOUS
  <2>1. /\ Writing' /\ job'.sg = 4 /\ TypeOK
    BY JobFixed DEF Writing, IInv, Inv
  <2>2. /\ tries \in Nat /\ faults \in Nat /\ MaxFaults \in Nat
        /\ MaxRetry \in Nat
    BY <2>1, LimitsAssumption DEF TypeOK
  <2>3. Fault => ~ Masks /\ faults' = faults + 1
    BY <2>2 DEF Fault, Masks, NothingMasked
  <2>4. CASE SecurityOut
    <3>1. CASE SoSucceeds
      BY <2>1, <2>2, <3>1 DEF SoSucceeds, AfterSO, NothingMasked
    <3>2. CASE SoFails
      <4>1. /\ Fault /\ tries' \in {tries, tries + 1}
            /\ masked' \in {masked, masked \/ Masks}
        BY <2>3, <3>2 DEF SoFails
      <4>2. ~ masked'
        BY <2>3, <4>1, Zenon DEF NothingMasked
      <4>3. QED
        BY <2>1, <2>2, <2>3, <4>1, <4>2 DEF NothingMasked
    <3>3. QED
      BY <2>4, <3>1, <3>2 DEF SecurityOut, SoVanishes
  <2>5. CASE SecurityIn
    <3>1. CASE SiSucceeds
      BY <2>1, <3>1 DEF SiSucceeds, NothingMasked, SecurityIn
    <3>2. CASE SiFails
      BY <2>1, <2>2, <2>3, <3>2 DEF SiFails, NothingMasked
    <3>3. QED
      BY <2>5, <3>1, <3>2 DEF SecurityIn, SiVanishes
  <2>6. CASE DoRpmb \/ WriteChunk
    BY <2>1, <2>2, <2>6, WriteCalls DEF NothingMasked, history
  <2>7. CASE OpenFails \/ WriteGivesUp
    <3>1. UNCHANGED <<masked, tries>> /\ faults' \in {faults, faults + 1}
      BY <2>7 DEF OpenFails, WriteGivesUp, Finish, Fault, opVars, history
    <3>2. QED
      BY <2>1, <2>2, <3>1 DEF NothingMasked
  <2>8. CASE CounterReturns \/ WriteReturns \/ LoopEnds("write")
    <3>1. UNCHANGED <<masked, tries, faults>>
      BY <2>8
      DEF CounterReturns, WriteReturns, LoopEnds, Finish, opVars, history, Writing
    <3>2. QED
      BY <2>1, <3>1 DEF NothingMasked
  <2>9. CASE ForeignWrite \/ PurgeEnds \/ UNCHANGED vars
    <3>1. UNCHANGED <<masked, tries, faults>>
      BY <2>9 DEF ForeignWrite, PurgeEnds, toolVars, history, vars
    <3>2. QED
      BY <2>1, <3>1 DEF NothingMasked
  <2>10. QED
    BY <2>4, <2>5, <2>6, <2>7, <2>8, <2>9, WriteSteps
<1>3. IInv /\ J => Writing /\ Undisturbed
  <2> SUFFICES ASSUME IInv, J PROVE Writing /\ Undisturbed
    OBVIOUS
  <2>1. foreign \in 0 .. 0
    BY DEF IInv, Inv, TypeOK
  <2>2. QED
    BY <2>1 DEF NothingMasked, Undisturbed
<1>4. QED
  BY <1>1, <1>2, <1>3, Inductive, Calls, PTL DEF Spec

\* Hence every write command keeps the promise, in the configuration in which
\* nothing can disturb it.
THEOREM KeepsPromiseSafely ==
  ASSUME Commands = {"WRITE_RPMB"}, SgVersions = {4}, MaxForeign = 0,
         MaxFaults < MaxRetry
  PROVE  Spec => Promise!Spec
BY Promised, NeverDisturbed, PTL
=============================================================================

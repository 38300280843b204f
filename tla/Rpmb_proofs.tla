----------------------------- MODULE Rpmb_proofs -----------------------------
(***************************************************************************)
(* Theorems about Rpmb for every number of regions, keys, blocks, retries, *)
(* faults and other hosts.                                                 *)
(***************************************************************************)
EXTENDS Rpmb, RpmbDevice_proofs

Sending == {"so1", "so2", "si"}
InOp    == Sending \cup {"check"}

\* Where do_rpmb_op is, and what it sends.
OpInv ==
  /\ (pc \in InOp /\ caller = "do_read_rpmb") => left > 0
  /\ pc = "so2" => frame.req = "READ_RESP"

Inv == TypeOK /\ OpInv

\* Before do_write_rpmb's loop nothing has been sent that stores a block.
BeforeLoop ==
  \/ pc = "start"
  \/ pc \in InOp /\ caller = "do_read_counter"

\* The bookkeeping of do_write_rpmb.
LoopInv ==
  Writing =>
    /\ job.start \in Addrs /\ job.num \in Nat
    /\ left \in 0 .. job.num
    /\ addr = job.start + Done
    /\ pc = "read" => FALSE
    /\ pc \in InOp => caller \in {"do_read_counter", "do_write_rpmb"}
    /\ (pc = "so1" /\ caller = "do_read_counter") => frame.req = "READ_CNT"
    /\ (pc \in InOp /\ caller = "do_write_rpmb") => left > 0 /\ addr <= MaxAddr
    /\ (pc = "so1" /\ caller = "do_write_rpmb") => frame = WriteRequest
    /\ BeforeLoop => ~ inSync /\ left = job.num /\ applied = 0

\* The device's counter against the tool's, while there is one host: the
\* counter says whether the chunk under way is stored.
CounterInv ==
  (Writing /\ inSync /\ foreign = 0) =>
    /\ counter[job.region] <= cnt + 1
    /\ counter[job.region] = cnt + 1 => left > 0 /\ applied = Done + Chunk
    /\ counter[job.region] = cnt     => applied = Done
    /\ counter[job.region] < cnt     => applied <= Done

\* The region, before the loop and in it.
RegionInv ==
  (Writing /\ foreign = 0 /\ (inSync \/ BeforeLoop)) =>
    \A a \in Addrs :
      Here[a] = IF a \in job.start .. (job.start + applied - 1)
                  THEN a - job.start + 1 ELSE Earlier(job.region, a)

IInv == Inv /\ LoopInv /\ CounterInv /\ RegionInv

-----------------------------------------------------------------------------
(* The frames the tool sends                                               *)

LEMMA WireTyped ==
  ASSUME NEW a \in Int
  PROVE  Wire(a) \in Addrs /\ (a \in Addrs => Wire(a) = a)
<1>1. MaxAddr + 1 \in Nat /\ MaxAddr + 1 > 0
  BY BoundsAssumption
<1>2. ASSUME NEW m \in Nat, m > 0 PROVE a % m \in 0 .. (m - 1)
  BY <1>2
<1>3. ASSUME NEW m \in Nat, m > 0, a \in 0 .. (m - 1) PROVE a % m = a
  BY <1>3
<1>4. QED
  BY <1>1, <1>2, <1>3, BoundsAssumption DEF Wire, Addrs

LEMMA FrameTyped ==
  ASSUME NEW type \in RequestTypes, NEW region \in Regions, NEW a \in Addrs,
         NEW n \in Nat, NEW c \in Nat, NEW mac \in Keys \cup {NoKey},
         NEW block \in Int
  PROVE  Frame(type, region, a, n, c, mac, block) \in Requests
<1>1. a \in Nat
  BY BoundsAssumption DEF Addrs
<1>2. QED
  BY <1>1 DEF Frame, Requests

LEMMA RequestTyped ==
  ASSUME NEW type \in RequestTypes, NEW region \in Regions
  PROVE  Request(type, region) \in Requests
<1>1. 0 \in Addrs /\ NoKey \in Keys \cup {NoKey}
  BY BoundsAssumption DEF Addrs
<1>2. QED
  BY <1>1, FrameTyped DEF Request

LEMMA AuthenticatedTyped ==
  ASSUME job \in Jobs, NEW type \in RequestTypes, NEW region \in Regions,
         NEW c \in Nat
  PROVE  Authenticated(type, region, c) \in Requests
<1>1. 0 \in Addrs
  BY BoundsAssumption DEF Addrs
<1>2. job.key \in Keys \cup {NoKey}
  BY DEF Jobs
<1>3. 1 \in Nat /\ 1 \in Int
  OBVIOUS
<1>4. QED
  BY <1>1, <1>2, <1>3, FrameTyped, Zenon DEF Authenticated

LEMMA MaxBlocksTyped ==
  ASSUME job \in Jobs
  PROVE  MaxBlocks \in Nat
<1>1. job.geometry \in Nat \cup {NotGiven}
  BY DEF Jobs
<1>2. CASE job.geometry = NotGiven
  BY <1>2, LimitsAssumption DEF MaxBlocks, NotGiven
<1>3. CASE job.geometry = 0
  BY <1>3 DEF MaxBlocks, NotGiven
<1>4. CASE job.geometry \in Nat \ {0}
  BY <1>4 DEF MaxBlocks, NotGiven
<1>5. QED
  BY <1>1, <1>2, <1>3, <1>4

LEMMA ChunkTyped ==
  ASSUME job \in Jobs, left \in Int, left >= 0
  PROVE  Chunk \in Nat /\ Chunk <= left
BY MaxBlocksTyped DEF Chunk

LEMMA ReadRequestTyped ==
  ASSUME job \in Jobs, left \in Int, left > 0, addr \in Int
  PROVE  ReadRequest \in Requests
<1>1. job.region \in Regions
  BY DEF Jobs
<1>2. Chunk \in Nat /\ Wire(addr) \in Addrs
  BY ChunkTyped, WireTyped
<1>3. "READ" \in RequestTypes /\ NoKey \in Keys \cup {NoKey}
  BY DEF RequestTypes
<1>4. 0 \in Nat /\ 0 \in Int
  OBVIOUS
<1>5. QED
  BY <1>1, <1>2, <1>3, <1>4, FrameTyped, Zenon DEF ReadRequest

LEMMA WriteRequestTyped ==
  ASSUME job \in Jobs, left \in Int, left > 0, addr \in Int, cnt \in Nat
  PROVE  WriteRequest \in Requests
<1>1. job.region \in Regions /\ job.num \in Int /\ job.key \in Keys \cup {NoKey}
  BY DEF Jobs
<1>2. Chunk \in Nat /\ Wire(addr) \in Addrs
  BY ChunkTyped, WireTyped
<1>3. Done + 1 \in Int
  BY <1>1 DEF Done
<1>4. "WRITE" \in RequestTypes
  BY DEF RequestTypes
<1>5. QED
  BY <1>1, <1>2, <1>3, <1>4, FrameTyped DEF WriteRequest

LEMMA ReceivedTyped ==
  ASSUME reply \in Answers, NEW n \in Nat
  PROVE  Received(n) \in Seq(Int)
<1>1. reply.blocks \in Seq(Int)
  BY DEF Answers
<1>2. ASSUME NEW i \in 1 .. n
      PROVE  (IF i \in 1 .. Len(reply.blocks) THEN reply.blocks[i]
                                               ELSE ZeroFrame) \in Int
  BY <1>1 DEF ZeroFrame
<1>3. QED
  BY <1>2 DEF Received

\* A call of do_rpmb_op.
LEMMA DoRpmbOpTyped ==
  ASSUME ret \in {"ok", "error"}, NEW who \in Callers, NEW f \in Requests,
         DoRpmbOp(who, f)
  PROVE  /\ caller' = who /\ caller' \in Callers
         /\ frame' = f /\ frame' \in Requests
         /\ tries' \in 0 .. MaxRetry /\ tries' < MaxRetry
         /\ reply' \in Answers
         /\ pc' \in {"so1", "check"} /\ pc' \in Places
         /\ ret' \in {"ok", "error"}
<1>1. NoReply \in Answers
  <2>1. << >> \in Seq(Int) /\ "Success" \in Results
    BY DEF Results
  <2>2. QED
    BY <2>1, AnswerTyped DEF NoReply
<1>2. QED
  BY <1>1, LimitsAssumption DEF DoRpmbOp, Places

-----------------------------------------------------------------------------
(* Type correctness                                                        *)

LEMMA FaultTyped ==
  ASSUME faults \in 0 .. MaxFaults, Fault
  PROVE  faults' \in 0 .. MaxFaults
BY LimitsAssumption DEF Fault

LEMMA AfterSOTyped ==
  ASSUME TypeOK, OpInv, AfterSO
  PROVE  /\ pc' \in {"so2", "si"} /\ frame' \in Requests
         /\ tries' \in 0 .. MaxRetry /\ tries' < MaxRetry
         /\ pc' = "so2" => frame'.req = "READ_RESP"
<1>1. frame.region \in Regions
  BY DEF TypeOK, Requests
<1>2. ResultRequest \in Requests /\ ResultRequest.req = "READ_RESP"
  <2>1. "READ_RESP" \in RequestTypes
    BY DEF RequestTypes
  <2>2. ResultRequest \in Requests
    BY <1>1, <2>1, RequestTyped DEF ResultRequest
  <2>3. QED
    BY <2>2 DEF ResultRequest, Request, Frame
<1>3. QED
  BY <1>2, LimitsAssumption DEF AfterSO, TypeOK

LEMMA SecurityOutTyped ==
  ASSUME TypeOK, OpInv, SecurityOut
  PROVE  TypeOK' /\ OpInv'
<1>1. frame \in Requests /\ DevTypeOK
  BY DEF TypeOK
<1>2. DevTypeOK'
  BY <1>1, ExecuteTyped, DevUntouched
  DEF SecurityOut, SoSucceeds, SoVanishes, SoFails
<1>3. applied' \in Int
  <2>1. applied \in Int /\ frame.first \in Int /\ frame.count \in Int
    BY <1>1 DEF TypeOK, Requests
  <2>2. NoteApplied => applied' \in Int
    BY <2>1 DEF NoteApplied
  <2>3. QED
    BY <2>1, <2>2 DEF SecurityOut, SoSucceeds, SoVanishes, SoFails
<1>4. /\ pc' \in Sending /\ frame' \in Requests
      /\ tries' \in 0 .. MaxRetry /\ tries' < MaxRetry
      /\ pc' = "so2" => frame'.req = "READ_RESP"
  <2>1. CASE AfterSO
    BY <2>1, AfterSOTyped DEF Sending
  <2>2. CASE ~ Masks /\ tries' = tries + 1 /\ UNCHANGED <<pc, frame>>
    <3>1. pc \in Sending /\ tries \in 0 .. MaxRetry /\ tries < MaxRetry
      BY DEF SecurityOut, Sending, TypeOK, OpInv
    <3>2. tries + 1 # MaxRetry
      BY <2>2 DEF Masks
    <3>3. QED
      BY <1>1, <2>2, <3>1, <3>2, LimitsAssumption DEF OpInv
  <2>3. CASE UNCHANGED <<tries, pc, frame>>
    BY <1>1, <2>3 DEF SecurityOut, Sending, TypeOK, OpInv
  <2>4. QED
    BY <2>1, <2>2, <2>3 DEF SecurityOut, SoSucceeds, SoVanishes, SoFails
<1>5. /\ masked' \in BOOLEAN /\ ret' \in {"ok", "error"}
      /\ faults' \in 0 .. MaxFaults
  BY FaultTyped DEF SecurityOut, SoSucceeds, SoVanishes, SoFails, TypeOK
<1>6. UNCHANGED <<job, caller, reply, loopVars, said, foreign, inSync>>
  BY DEF SecurityOut
<1>7. pc \in Sending
  BY DEF SecurityOut, Sending
<1>8. TypeOK'
  BY <1>2, <1>3, <1>4, <1>5, <1>6 DEF TypeOK, loopVars, Sending, Places
<1>9. QED
  BY <1>4, <1>6, <1>7, <1>8 DEF OpInv, loopVars, Sending, InOp

LEMMA SecurityInTyped ==
  ASSUME TypeOK, OpInv, SecurityIn
  PROVE  TypeOK' /\ OpInv'
<1>1. DevTypeOK'
  BY DevUntouched DEF SecurityIn, TypeOK
<1>2. UNCHANGED <<job, caller, frame, loopVars, said, foreign, inSync, applied>>
  BY DEF SecurityIn
<1>3. resp[frame.region] \in Answers
  BY DEF TypeOK, DevTypeOK, Requests
<1>4. /\ reply' \in Answers /\ ret' \in {"ok", "error"}
      /\ masked' \in BOOLEAN /\ faults' \in 0 .. MaxFaults
  BY <1>3, FaultTyped DEF SecurityIn, SiSucceeds, SiVanishes, SiFails, TypeOK
<1>5. /\ pc = "si" /\ pc' \in {"si", "check"}
      /\ tries' \in 0 .. MaxRetry /\ (pc' = "si" => tries' < MaxRetry)
  <2>1. tries \in 0 .. MaxRetry /\ (pc = "si" => tries < MaxRetry)
    BY DEF TypeOK, OpInv, Sending
  <2>2. QED
    BY <2>1, LimitsAssumption
    DEF SecurityIn, SiSucceeds, SiVanishes, SiFails, Masks
<1>6. TypeOK'
  BY <1>1, <1>2, <1>4, <1>5 DEF TypeOK, loopVars, Places
<1>7. QED
  BY <1>2, <1>5, <1>6 DEF OpInv, loopVars, Sending, InOp

LEMMA FinishTyped ==
  ASSUME TypeOK, NEW rc \in {"ok", "error"}, NEW message \in BOOLEAN,
         Finish(rc, message)
  PROVE  /\ pc' = "exit" /\ ret' \in {"ok", "error"} /\ said' \in BOOLEAN
         /\ caller' \in Callers /\ frame' \in Requests
         /\ tries' \in 0 .. MaxRetry /\ reply' \in Answers
BY DEF Finish, opVars, TypeOK

\* A step that leaves the device alone and ends the run.
LEMMA ExitTyped ==
  ASSUME TypeOK, NEW rc \in {"ok", "error"}, NEW message \in BOOLEAN,
         Finish(rc, message), UNCHANGED <<devVars, job, foreign, applied>>,
         addr' \in Int, left' \in Int, cnt' \in Nat, out' \in Seq(Int),
         faults' \in 0 .. MaxFaults, masked' \in BOOLEAN, inSync' \in BOOLEAN
  PROVE  TypeOK' /\ OpInv'
<1>1. DevTypeOK'
  BY DevUntouched DEF TypeOK
<1>2. TypeOK'
  BY <1>1, FinishTyped DEF TypeOK, Places
<1>3. QED
  BY <1>2, FinishTyped DEF OpInv, Sending, InOp

\* A step that leaves the device alone and calls do_rpmb_op.
LEMMA CallTyped ==
  ASSUME TypeOK, NEW who \in Callers, NEW f \in Requests, DoRpmbOp(who, f),
         who = "do_read_rpmb" => left > 0,
         UNCHANGED <<devVars, job, addr, left, out, said, faults, foreign,
                     masked, applied>>,
         cnt' \in Nat, inSync' \in BOOLEAN
  PROVE  TypeOK' /\ OpInv'
<1>1. DevTypeOK'
  BY DevUntouched DEF TypeOK
<1>2. ret \in {"ok", "error"}
  BY DEF TypeOK
<1>3. TypeOK'
  BY <1>1, <1>2, DoRpmbOpTyped DEF TypeOK
<1>4. QED
  BY <1>2, <1>3, DoRpmbOpTyped DEF OpInv, Sending, InOp

LEMMA DoRpmbTyped ==
  ASSUME TypeOK, OpInv, DoRpmb
  PROVE  TypeOK' /\ OpInv'
<1>1. /\ job \in Jobs /\ job.cmd \in AllCommands /\ job.region \in Regions
      /\ 0 \in Regions
  BY RegionsAssumption DEF TypeOK, Jobs
<1>2. UNCHANGED <<devVars, job, addr, left, out, said, faults, foreign, masked,
                  applied, cnt, inSync>>
  BY DEF DoRpmb, loopVars, history
<1>3. cnt' \in Nat /\ inSync' \in BOOLEAN
  BY <1>2 DEF TypeOK
<1>4. CounterRegion \in Regions
  BY <1>1 DEF CounterRegion
<1>5. {"WRITE_KEY", "READ_CNT", "SEC_CONF_READ", "PURGE_STATUS"}
         \subseteq RequestTypes
  BY DEF RequestTypes
<1>6. {"do_key", "do_read_counter", "do_read_conf_block",
       "do_read_rpmb_purge_status"} \subseteq Callers \ {"do_read_rpmb"}
  BY DEF Callers
<1>7. CASE job.cmd = "AUTHENTICATION_KEY"
  <2>1. DoRpmbOp("do_key", Authenticated("WRITE_KEY", job.region, 0))
    BY <1>7 DEF DoRpmb, FirstCall
  <2>2. Authenticated("WRITE_KEY", job.region, 0) \in Requests
    BY <1>1, <1>5, AuthenticatedTyped
  <2>3. QED
    BY <1>2, <1>3, <1>6, <2>1, <2>2, CallTyped
<1>8. CASE job.cmd \in {"READ_WRITE_COUNTER", "WRITE_RPMB",
                        "WRITE_SEC_RPMB_CONF_BLOCK", "PURGE_ENABLE"}
  <2>1. DoRpmbOp("do_read_counter", Request("READ_CNT", CounterRegion))
    BY <1>8 DEF DoRpmb, FirstCall
  <2>2. Request("READ_CNT", CounterRegion) \in Requests
    BY <1>4, <1>5, RequestTyped
  <2>3. QED
    BY <1>2, <1>3, <1>6, <2>1, <2>2, CallTyped
<1>9. CASE job.cmd = "READ_SEC_RPMB_CONF_BLOCK"
  <2>1. DoRpmbOp("do_read_conf_block", Request("SEC_CONF_READ", 0))
    BY <1>9 DEF DoRpmb, FirstCall
  <2>2. Request("SEC_CONF_READ", 0) \in Requests
    BY <1>1, <1>5, RequestTyped
  <2>3. QED
    BY <1>2, <1>3, <1>6, <2>1, <2>2, CallTyped
<1>10. CASE job.cmd = "READ_PURGE_STATUS"
  <2>1. DoRpmbOp("do_read_rpmb_purge_status",
                 Request("PURGE_STATUS", job.region))
    BY <1>10 DEF DoRpmb, FirstCall
  <2>2. Request("PURGE_STATUS", job.region) \in Requests
    BY <1>1, <1>5, RequestTyped
  <2>3. QED
    BY <1>2, <1>3, <1>6, <2>1, <2>2, CallTyped
<1>11. QED
  BY <1>1, <1>7, <1>8, <1>9, <1>10 DEF AllCommands, DoRpmb

LEMMA CounterReturnsTyped ==
  ASSUME TypeOK, OpInv, CounterReturns
  PROVE  TypeOK' /\ OpInv'
<1>1. cnt' \in Nat
  BY DEF CounterReturns, TypeOK, Answers
<1>2. UNCHANGED <<devVars, job, addr, left, out, faults, foreign, masked,
                  applied>>
  BY DEF CounterReturns
<1>3. /\ addr' \in Int /\ left' \in Int /\ out' \in Seq(Int)
      /\ faults' \in 0 .. MaxFaults /\ masked' \in BOOLEAN
      /\ job \in Jobs /\ job.region \in Regions /\ ret \in {"ok", "error"}
      /\ 0 \in Regions /\ inSync \in BOOLEAN
  BY <1>2, RegionsAssumption DEF TypeOK, Jobs
<1>4. {"PURGE_ENABLE", "SEC_CONF_WRITE"} \subseteq RequestTypes
  BY DEF RequestTypes
<1>5. {"do_rpmb_purge_enable", "do_write_conf_block"}
         \subseteq Callers \ {"do_read_rpmb"}
  BY DEF Callers
<1>6. ASSUME Finish(ret, job.cmd = "READ_WRITE_COUNTER" /\ Fine), UNCHANGED inSync
      PROVE  TypeOK' /\ OpInv'
  BY <1>1, <1>2, <1>3, <1>6, ExitTyped
<1>7. ASSUME pc' = "write", ret' \in {"ok", "error"}, inSync' \in BOOLEAN,
             UNCHANGED <<opVars, said>>
      PROVE  TypeOK' /\ OpInv'
  <2>1. DevTypeOK'
    BY <1>2, DevUntouched DEF TypeOK
  <2>2. TypeOK'
    BY <1>1, <1>2, <1>7, <2>1 DEF TypeOK, opVars, Places
  <2>3. QED
    BY <1>7, <2>2 DEF OpInv, Sending, InOp
<1>8. ASSUME UNCHANGED <<said, inSync>>,
             DoRpmbOp("do_rpmb_purge_enable",
                      Authenticated("PURGE_ENABLE", job.region, cnt'))
      PROVE  TypeOK' /\ OpInv'
  <2>1. Authenticated("PURGE_ENABLE", job.region, cnt') \in Requests
    BY <1>1, <1>3, <1>4, AuthenticatedTyped
  <2>2. inSync' \in BOOLEAN
    BY <1>3, <1>8
  <2>3. QED
    BY <1>1, <1>2, <1>5, <1>8, <2>1, <2>2, CallTyped
<1>9. ASSUME UNCHANGED inSync, Finish("error", FALSE)
      PROVE  TypeOK' /\ OpInv'
  BY <1>1, <1>2, <1>3, <1>9, ExitTyped
<1>10. ASSUME UNCHANGED <<said, inSync>>,
              DoRpmbOp("do_write_conf_block",
                       Authenticated("SEC_CONF_WRITE", 0, cnt'))
       PROVE  TypeOK' /\ OpInv'
  <2>1. Authenticated("SEC_CONF_WRITE", 0, cnt') \in Requests
    BY <1>1, <1>3, <1>4, AuthenticatedTyped
  <2>2. inSync' \in BOOLEAN
    BY <1>3, <1>10
  <2>3. QED
    BY <1>1, <1>2, <1>5, <1>10, <2>1, <2>2, CallTyped
<1>11. QED
  BY <1>6, <1>7, <1>8, <1>9, <1>10 DEF CounterReturns

\* The actions that end the run.
LEMMA EndingTyped ==
  ASSUME TypeOK, OpInv,
         \/ OpenFails \/ KeyReturns \/ ChangeReturns \/ PurgeStatusReturns
         \/ ConfReadReturns \/ ReadOutOfMemory \/ WriteGivesUp
         \/ \E loop \in {"read", "write"} : LoopEnds(loop)
  PROVE  TypeOK' /\ OpInv'
<1>1. /\ reply \in Answers /\ Received(1) \in Seq(Int)
      /\ {"ok", "error"} = {"ok", "error"} \cup {ret}
  BY ReceivedTyped DEF TypeOK
<1>2. /\ addr' \in Int /\ left' \in Int /\ cnt' \in Nat /\ out' \in Seq(Int)
      /\ faults' \in 0 .. MaxFaults /\ masked' \in BOOLEAN
      /\ inSync' \in BOOLEAN
  BY <1>1, FaultTyped
  DEF OpenFails, KeyReturns, ChangeReturns, PurgeStatusReturns,
      ConfReadReturns, ReadOutOfMemory, WriteGivesUp, LoopEnds, loopVars,
      history, TypeOK
<1>3. UNCHANGED <<devVars, job, foreign, applied>>
  BY DEF OpenFails, KeyReturns, ChangeReturns, PurgeStatusReturns,
      ConfReadReturns, ReadOutOfMemory, WriteGivesUp, LoopEnds, history
<1>4. \E rc \in {"ok", "error"}, message \in BOOLEAN : Finish(rc, message)
  <2>1. {ret, "ok", "error"} \subseteq {"ok", "error"} /\ Fine \in BOOLEAN
        /\ (ret = "ok") \in BOOLEAN
    BY <1>1 DEF Fine
  <2>2. QED
    BY <2>1
    DEF OpenFails, KeyReturns, ChangeReturns, PurgeStatusReturns,
        ConfReadReturns, ReadOutOfMemory, WriteGivesUp, LoopEnds
<1>5. PICK rc \in {"ok", "error"}, message \in BOOLEAN : Finish(rc, message)
  BY <1>4
<1>6. QED
  BY <1>2, <1>3, <1>5, ExitTyped

LEMMA ReadingTyped ==
  ASSUME TypeOK, OpInv, ReadBegins \/ ReadChunk \/ ReadReturns
  PROVE  TypeOK' /\ OpInv'
<1>1. DevTypeOK'
  BY DevUntouched DEF ReadBegins, ReadChunk, ReadReturns, TypeOK
<1>2. job \in Jobs /\ left \in Int /\ addr \in Int
  BY DEF TypeOK
<1>3. CASE ReadBegins
  <2>1. TypeOK'
    BY <1>1, <1>3 DEF ReadBegins, TypeOK, Places, loopVars, opVars, history
  <2>2. QED
    BY <1>3, <2>1 DEF ReadBegins, OpInv, Sending, InOp
<1>4. CASE ReadChunk
  <2>1. left > 0
    BY <1>4 DEF ReadChunk, LoopGoesOn
  <2>2. ReadRequest \in Requests /\ "do_read_rpmb" \in Callers
    BY <1>2, <2>1, ReadRequestTyped DEF Callers
  <2>3. DoRpmbOp("do_read_rpmb", ReadRequest)
    BY <1>4 DEF ReadChunk
  <2>4. UNCHANGED <<devVars, job, addr, left, out, said, faults, foreign,
                    masked, applied, cnt, inSync>>
    BY <1>4 DEF ReadChunk, loopVars, history
  <2>5. cnt' \in Nat /\ inSync' \in BOOLEAN
    BY <2>4 DEF TypeOK
  <2>6. QED
    BY <2>1, <2>2, <2>3, <2>4, <2>5, CallTyped
<1>5. CASE ReadReturns
  <2>1. left > 0
    BY <1>5 DEF ReadReturns, Return, OpInv, InOp
  <2>2. Chunk \in Nat
    BY <1>2, <2>1, ChunkTyped
  <2>3. UNCHANGED <<devVars, job, foreign, masked, inSync, applied>>
    BY <1>5 DEF ReadReturns, history
  <2>4. reply \in Answers /\ out \in Seq(Int)
    BY DEF TypeOK
  <2>5. ASSUME NEW n \in Nat PROVE out \o Received(n) \in Seq(Int)
    BY <2>4, ReceivedTyped
  <2>6. out' \in Seq(Int)
    <3>1. \A k \in 0 .. Chunk - 1 : k \in Nat
      BY <2>2
    <3>2. \/ out' = out
          \/ out' = out \o Received(Chunk)
          \/ \E k \in 0 .. Chunk - 1 : out' = out \o Received(k)
      BY <1>5 DEF ReadReturns, loopVars
    <3>3. QED
      BY <2>2, <2>4, <2>5, <3>1, <3>2
  <2>7. /\ addr' \in Int /\ left' \in Int /\ cnt' \in Nat
        /\ faults' \in 0 .. MaxFaults /\ masked' \in BOOLEAN
        /\ inSync' \in BOOLEAN
    <3>1. \/ UNCHANGED <<addr, left, cnt>>
          \/ left' = left - Chunk /\ addr' = addr + Chunk /\ cnt' = cnt
      BY <1>5 DEF ReadReturns, NextChunk, loopVars
    <3>2. faults' = faults \/ Fault
      BY <1>5 DEF ReadReturns
    <3>3. /\ addr' \in Int /\ left' \in Int /\ cnt' \in Nat
      BY <2>2, <3>1 DEF TypeOK
    <3>4. faults' \in 0 .. MaxFaults
      BY <3>2, FaultTyped DEF TypeOK
    <3>5. QED
      BY <2>3, <3>3, <3>4 DEF TypeOK
  <2>8. CASE Finish("error", FALSE)
    BY <2>3, <2>6, <2>7, <2>8, ExitTyped
  <2>9. CASE pc' = "read" /\ UNCHANGED <<opVars, ret, said>>
    <3>1. TypeOK'
      BY <1>1, <2>3, <2>6, <2>7, <2>9 DEF TypeOK, opVars, Places
    <3>2. QED
      BY <2>9, <3>1 DEF OpInv, Sending, InOp
  <2>10. QED
    BY <1>5, <2>8, <2>9 DEF ReadReturns
<1>6. QED
  BY <1>3, <1>4, <1>5

LEMMA WritingTyped ==
  ASSUME TypeOK, OpInv, WriteChunk \/ WriteReturns
  PROVE  TypeOK' /\ OpInv'
<1>1. DevTypeOK'
  BY DevUntouched DEF WriteChunk, WriteReturns, TypeOK
<1>2. job \in Jobs /\ left \in Int /\ addr \in Int /\ cnt \in Nat
  BY DEF TypeOK
<1>3. CASE WriteChunk
  <2>1. left > 0
    BY <1>3 DEF WriteChunk, LoopGoesOn
  <2>2. WriteRequest \in Requests
        /\ "do_write_rpmb" \in Callers \ {"do_read_rpmb"}
    BY <1>2, <2>1, WriteRequestTyped DEF Callers
  <2>3. DoRpmbOp("do_write_rpmb", WriteRequest)
    BY <1>3 DEF WriteChunk
  <2>4. UNCHANGED <<devVars, job, addr, left, out, said, faults, foreign,
                    masked, applied, cnt, inSync>>
    BY <1>3 DEF WriteChunk, loopVars, history
  <2>5. cnt' \in Nat /\ inSync' \in BOOLEAN
    BY <2>4 DEF TypeOK
  <2>6. QED
    BY <2>2, <2>3, <2>4, <2>5, CallTyped
<1>4. CASE WriteReturns
  <2>1. MaxBlocks \in Nat
    BY <1>2, MaxBlocksTyped
  <2>2. Chunk \in Int
    BY <1>2, <2>1 DEF Chunk
  <2>3. UNCHANGED <<devVars, job, faults, foreign, masked, inSync, applied>>
    BY <1>4 DEF WriteReturns, history
  <2>4. /\ addr' \in Int /\ left' \in Int /\ cnt' \in Nat /\ out' \in Seq(Int)
        /\ faults' \in 0 .. MaxFaults /\ masked' \in BOOLEAN
        /\ inSync' \in BOOLEAN
    <3>1. \/ UNCHANGED <<addr, left, cnt, out>>
          \/ /\ left' = left - Chunk /\ addr' = addr + Chunk
             /\ cnt' = cnt + 1 /\ out' = out
      BY <1>4 DEF WriteReturns, NextChunk, NextCounter, loopVars
    <3>2. /\ addr' \in Int /\ left' \in Int /\ cnt' \in Nat
          /\ out' \in Seq(Int)
      BY <2>2, <3>1 DEF TypeOK
    <3>3. QED
      BY <2>3, <3>2 DEF TypeOK
  <2>5. CASE Finish("error", FALSE)
    BY <2>3, <2>4, <2>5, ExitTyped
  <2>6. CASE pc' = "write" /\ UNCHANGED <<opVars, ret, said>>
    <3>1. TypeOK'
      BY <1>1, <2>3, <2>4, <2>6 DEF TypeOK, opVars, Places
    <3>2. QED
      BY <2>6, <3>1 DEF OpInv, Sending, InOp
  <2>7. QED
    BY <1>4, <2>5, <2>6 DEF WriteReturns
<1>5. QED
  BY <1>3, <1>4

\* The steps of the device and of another host.
LEMMA OthersTyped ==
  ASSUME TypeOK, OpInv, ForeignWrite \/ PurgeEnds
  PROVE  TypeOK' /\ OpInv'
<1>1. UNCHANGED <<toolVars, faults, history>>
  BY DEF ForeignWrite, PurgeEnds
<1>2. foreign' \in 0 .. MaxForeign
  BY LimitsAssumption DEF ForeignWrite, PurgeEnds, TypeOK
<1>3. DevTypeOK'
  BY PurgeEndsTyped, ForeignWriteTyped DEF ForeignWrite, PurgeEnds, TypeOK
<1>4. TypeOK'
  BY <1>1, <1>2, <1>3 DEF TypeOK, toolVars, loopVars, history
<1>5. QED
  BY <1>1, <1>4 DEF OpInv, toolVars, loopVars, Sending, InOp

LEMMA InitTyped == Init => TypeOK /\ OpInv
<1> SUFFICES ASSUME Init PROVE TypeOK /\ OpInv
  OBVIOUS
<1>1. DevTypeOK
  BY DevInitTyped DEF Init
<1>2. job \in Jobs
  <2>1. PICK o \in CommandLines : job = Verified(o)
    BY DEF Init
  <2>2. /\ o.cmd \in AllCommands /\ o.region \in Regions
        /\ o.key \in Keys \cup {NoKey} /\ o.start \in Int /\ o.num \in Int
        /\ o.file \in Nat /\ o.geometry \in Nat \cup {NotGiven}
        /\ o.sg \in {3, 4}
    <3>1. /\ o.cmd \in Commands /\ o.region \in Regions
          /\ o.key \in Keys \cup {NoKey} /\ o.start \in StartBlocks
          /\ o.num \in BlockCounts /\ o.file \in FileBlocks
          /\ o.geometry \in Geometries /\ o.sg \in SgVersions
      BY DEF CommandLines
    <3>2. /\ Addrs \cup {NotGiven} \subseteq Int
          /\ Nat \cup {NotGiven} \subseteq Int
      BY DEF Addrs, NotGiven
    <3>3. QED
      BY <3>1, <3>2, CommandsAssumption, OptionsAssumption
  <2>3. o \in Jobs
    BY <2>2 DEF Jobs, CommandLines
  <2>4. Default(o.num, 1) \in Int /\ Default(o.start, 0) \in Int
    BY <2>2 DEF Default
  <2>5. QED
    BY <2>1, <2>3, <2>4 DEF Verified, Jobs
<1>3. job.region \in Regions /\ job.start \in Int /\ job.num \in Int
  BY <1>2 DEF Jobs
<1>4. Request("READ_RESP", job.region) \in Requests
  BY <1>3, RequestTyped DEF RequestTypes
<1>5. NoReply \in Answers
  <2>1. << >> \in Seq(Int) /\ "Success" \in Results
    BY DEF Results
  <2>2. QED
    BY <2>1, AnswerTyped DEF NoReply
<1>6. TypeOK
  <2>1. /\ pc = "start" /\ caller = "none" /\ ret = "error" /\ said = FALSE
        /\ frame = Request("READ_RESP", job.region) /\ tries = 0
        /\ reply = NoReply /\ addr = job.start /\ left = job.num /\ cnt = 0
        /\ out = << >> /\ faults = 0 /\ foreign = 0
        /\ masked = FALSE /\ inSync = FALSE /\ applied = 0
    BY DEF Init
  <2>2. out \in Seq(Int) /\ pc \in Places /\ caller \in Callers
    BY <2>1 DEF Places, Callers
  <2>3. tries \in 0 .. MaxRetry /\ faults \in 0 .. MaxFaults
        /\ foreign \in 0 .. MaxForeign
    BY <2>1, LimitsAssumption
  <2>4. QED
    <3>1. /\ addr \in Int /\ left \in Int /\ cnt \in Nat /\ applied \in Int
          /\ frame \in Requests /\ reply \in Answers
      BY <1>3, <1>4, <1>5, <2>1
    <3>2. /\ said \in BOOLEAN /\ masked \in BOOLEAN /\ inSync \in BOOLEAN
          /\ ret \in {"ok", "error"}
      BY <2>1
    <3>3. pc \in {"so1", "so2", "si"} => tries < MaxRetry
      BY <2>1
    <3>4. QED
      BY <1>1, <1>2, <2>2, <2>3, <3>1, <3>2, <3>3 DEF TypeOK
<1>7. QED
  BY <1>6 DEF Init, OpInv, Sending, InOp

LEMMA NextTyped == TypeOK /\ OpInv /\ [Next]_vars => TypeOK' /\ OpInv'
<1> SUFFICES ASSUME TypeOK, OpInv, [Next]_vars PROVE TypeOK' /\ OpInv'
  OBVIOUS
<1>1. ASSUME UNCHANGED vars PROVE TypeOK' /\ OpInv'
  <2>1. DevTypeOK'
    BY <1>1, DevUntouched DEF vars, TypeOK
  <2>2. TypeOK'
    BY <1>1, <2>1 DEF TypeOK, vars, toolVars, loopVars, history
  <2>3. QED
    BY <1>1, <2>2 DEF OpInv, vars, toolVars, loopVars, Sending, InOp
<1>2. CASE SecurityOut
  BY <1>2, SecurityOutTyped
<1>3. CASE SecurityIn
  BY <1>3, SecurityInTyped
<1>4. CASE DoRpmb
  BY <1>4, DoRpmbTyped
<1>5. CASE CounterReturns
  BY <1>5, CounterReturnsTyped
<1>6. CASE ReadBegins \/ ReadChunk \/ ReadReturns
  BY <1>6, ReadingTyped
<1>7. CASE WriteChunk \/ WriteReturns
  BY <1>7, WritingTyped
<1>8. CASE ForeignWrite \/ PurgeEnds
  BY <1>8, OthersTyped
<1>9. CASE \/ OpenFails \/ KeyReturns \/ ChangeReturns \/ PurgeStatusReturns
           \/ ConfReadReturns \/ ReadOutOfMemory \/ WriteGivesUp
           \/ \E loop \in {"read", "write"} : LoopEnds(loop)
  BY <1>9, EndingTyped
<1>10. QED
  BY <1>1, <1>2, <1>3, <1>4, <1>5, <1>6, <1>7, <1>8, <1>9
  DEF Next, ToolNext, Terminating

\* Every reachable state of a run is well typed, for all values of the
\* constants: do_rpmb_op's try counter never passes MAX_RETRY and every frame
\* it sends has a legal type, region and address field.
THEOREM TypeCorrect == Spec => []TypeOK
<1>1. TypeOK /\ OpInv /\ [Next]_vars => (TypeOK /\ OpInv)'
  BY NextTyped
<1>2. Init => TypeOK /\ OpInv
  BY InitTyped
<1>3. QED
  BY <1>1, <1>2, PTL DEF Spec

-----------------------------------------------------------------------------
(* The write loop                                                          *)

\* Steps that touch neither the region nor the bookkeeping.
LEMMA Quiet ==
  ASSUME CounterInv, RegionInv,
         UNCHANGED <<job, data, counter, addr, left, cnt, foreign, inSync,
                     applied>>,
         BeforeLoop' => BeforeLoop
  PROVE  CounterInv' /\ RegionInv'
<1>1. CounterInv'
  BY DEF CounterInv, Writing, Done, Chunk, MaxBlocks
<1>2. RegionInv'
  BY DEF RegionInv, Writing, Here, Earlier
<1>3. QED
  BY <1>1, <1>2

LEMMA SecurityOutLoop ==
  ASSUME IInv, SecurityOut
  PROVE  LoopInv' /\ CounterInv' /\ RegionInv'
<1> DEFINE r == job.region
<1>1. /\ TypeOK /\ OpInv /\ LoopInv /\ CounterInv /\ RegionInv /\ DevTypeOK
      /\ frame \in Requests /\ job \in Jobs /\ r \in Regions
  BY DEF IInv, Inv, TypeOK, Jobs
<1>2. UNCHANGED <<job, caller, reply, addr, left, cnt, out, said, foreign, inSync>>
  BY DEF SecurityOut, loopVars
<1>3. pc \in {"so1", "so2"} /\ pc \in Sending /\ pc \in InOp
  BY DEF SecurityOut, Sending, InOp
<1>4. /\ pc' \in Sending /\ pc' \in InOp
      /\ pc' = "so1" => pc = "so1" /\ frame' = frame
  <2>1. AfterSO => pc' \in {"so2", "si"}
    BY DEF AfterSO
  <2>2. QED
    BY <1>3, <2>1
    DEF SecurityOut, SoSucceeds, SoVanishes, SoFails, Sending, InOp
<1>5. BeforeLoop' <=> BeforeLoop
  BY <1>2, <1>3, <1>4 DEF BeforeLoop, InOp, Sending
<1>6. CASE ~ Writing
  BY <1>2, <1>6 DEF LoopInv, CounterInv, RegionInv, Writing
<1>7. CASE Writing
  <2>1. CASE UNCHANGED <<data, counter, applied>>
    <3>1. LoopInv'
      BY <1>1, <1>2, <1>3, <1>4, <1>5, <1>7, <2>1
      DEF LoopInv, Writing, Done, Chunk, MaxBlocks, WriteRequest, Sending, InOp
    <3>2. QED
      BY <1>1, <1>2, <1>5, <2>1, <3>1, Quiet
  <2>2. CASE ~ UNCHANGED <<data, counter, applied>>
    <3>1. DevExecute(frame) /\ NoteApplied
      BY <2>2 DEF SecurityOut, SoSucceeds, SoVanishes, SoFails, devVars
    <3>2. frame.req \notin {"READ_CNT", "READ_RESP"}
      <4>1. frame.req \in {"READ_CNT", "READ_RESP"} =>
              UNCHANGED <<data, counter>>
        BY <3>1, ExecuteQuery
      <4>2. QED
        BY <2>2, <3>1, <4>1 DEF NoteApplied
    <3>3. /\ pc = "so1" /\ caller = "do_write_rpmb" /\ frame = WriteRequest
          /\ left > 0 /\ addr <= MaxAddr
      BY <1>1, <1>3, <1>7, <3>2 DEF OpInv, LoopInv
    <3>4. /\ job.num \in Nat /\ left \in 0 .. job.num /\ job.start \in Addrs
          /\ addr = job.start + Done /\ cnt \in Nat
      BY <1>1, <1>7 DEF LoopInv, TypeOK
    <3>5. Chunk \in Nat /\ Done \in Nat
      BY <1>1, <3>3, <3>4, ChunkTyped DEF Done
    <3>6. addr \in Addrs /\ Wire(addr) = addr
      <4>1. addr \in Addrs
        BY <3>3, <3>4, <3>5, BoundsAssumption DEF Addrs
      <4>2. QED
        BY <4>1, WireTyped, BoundsAssumption DEF Addrs
    <3>7. /\ frame.req = "WRITE" /\ frame.region = r /\ frame.counter = cnt
          /\ frame.addr = addr /\ frame.count = Chunk /\ frame.first = Done + 1
      BY <3>3, <3>6 DEF WriteRequest, Frame
    <3>8. /\ counter[r] = cnt /\ counter'[r] = cnt + 1 /\ counter' # counter
          /\ data' = AfterWrite(frame)
      BY <1>1, <2>2, <3>1, <3>7, ExecuteWrite DEF NoteApplied
    <3>9. applied' = Done + Chunk
      BY <3>1, <3>5, <3>7, <3>8 DEF NoteApplied
    <3>10. ~ BeforeLoop
      BY <3>3 DEF BeforeLoop
    <3>11. LoopInv'
      BY <1>1, <1>2, <1>3, <1>4, <1>5, <1>7, <3>3, <3>10
      DEF LoopInv, Writing, Done, Chunk, MaxBlocks, WriteRequest, Sending, InOp
    <3>12. Chunk' = Chunk /\ Done' = Done
      BY <1>2 DEF Chunk, Done, MaxBlocks
    <3>13. CounterInv'
      BY <1>2, <3>3, <3>4, <3>8, <3>9, <3>12 DEF CounterInv
    <3>14. RegionInv'
      <4> SUFFICES ASSUME inSync, foreign = 0, NEW a \in Addrs
                   PROVE  data'[r][a] =
                            IF a \in job.start .. (job.start + Done + Chunk - 1)
                              THEN a - job.start + 1 ELSE Earlier(r, a)
        BY <1>2, <1>5, <3>5, <3>9, <3>10, <3>4 DEF RegionInv, Here, Earlier, Addrs
      <4>1. applied = Done
        BY <1>1, <1>7, <3>8 DEF CounterInv
      <4>2. data[r][a] = IF a \in job.start .. (job.start + Done - 1)
                           THEN a - job.start + 1 ELSE Earlier(r, a)
        BY <1>1, <1>7, <4>1 DEF RegionInv, Here
      <4>3. data'[r][a] = IF a \in addr .. (addr + Chunk - 1)
                            THEN Done + 1 + (a - addr) ELSE data[r][a]
        BY <1>1, <3>7, <3>8 DEF AfterWrite, Stored, DevTypeOK
      <4>4. a \in Int /\ job.start \in Int
        BY <3>4 DEF Addrs
      <4>5. CASE a \in addr .. (addr + Chunk - 1)
        BY <3>4, <3>5, <4>3, <4>4, <4>5
      <4>6. CASE a \notin addr .. (addr + Chunk - 1)
        <5>1. a \in job.start .. (job.start + Done - 1) <=>
              a \in job.start .. (job.start + Done + Chunk - 1)
          BY <3>4, <3>5, <4>4, <4>6
        <5>2. QED
          BY <4>2, <4>3, <4>6, <5>1
      <4>7. QED
        BY <4>5, <4>6
    <3>15. QED
      BY <3>11, <3>13, <3>14
  <2>3. QED
    BY <2>1, <2>2
<1>8. QED
  BY <1>6, <1>7

\* Steps after which the tool has left, or still is, where it does not matter.
LEMMA ExitLoop ==
  ASSUME IInv, pc' = "exit", pc' # pc,
         UNCHANGED <<job, data, counter, addr, left, cnt, foreign, inSync,
                     applied>>
  PROVE  LoopInv' /\ CounterInv' /\ RegionInv'
<1>1. ~ BeforeLoop' /\ pc' \notin InOp
  BY DEF BeforeLoop, InOp, Sending
<1>2. LoopInv'
  BY <1>1 DEF IInv, LoopInv, Writing, Done
<1>3. QED
  BY <1>1, <1>2, Quiet DEF IInv

LEMMA EndingLoop ==
  ASSUME IInv,
         \/ OpenFails \/ KeyReturns \/ ChangeReturns \/ PurgeStatusReturns
         \/ ConfReadReturns \/ ReadOutOfMemory \/ WriteGivesUp
         \/ \E loop \in {"read", "write"} : LoopEnds(loop)
  PROVE  LoopInv' /\ CounterInv' /\ RegionInv'
<1>1. pc' = "exit" /\ pc' # pc
  BY DEF OpenFails, KeyReturns, ChangeReturns, PurgeStatusReturns,
         ConfReadReturns, ReadOutOfMemory, WriteGivesUp, LoopEnds, Finish,
         Return, LoopGoesOn
<1>2. UNCHANGED <<job, data, counter, addr, left, cnt, foreign, inSync, applied>>
  BY DEF OpenFails, KeyReturns, ChangeReturns, PurgeStatusReturns,
         ConfReadReturns, ReadOutOfMemory, WriteGivesUp, LoopEnds, loopVars,
         history, devVars
<1>3. QED
  BY <1>1, <1>2, ExitLoop

LEMMA ReadingLoop ==
  ASSUME IInv, ReadBegins \/ ReadChunk \/ ReadReturns
  PROVE  LoopInv' /\ CounterInv' /\ RegionInv'
<1>1. job' = job
  BY DEF ReadBegins, ReadChunk, ReadReturns
<1>2. ~ Writing
  BY DEF ReadBegins, ReadChunk, ReadReturns, LoopGoesOn, Return, IInv, LoopInv,
         Writing, InOp
<1>3. QED
  BY <1>1, <1>2 DEF LoopInv, CounterInv, RegionInv, Writing

LEMMA DoRpmbLoop ==
  ASSUME IInv, DoRpmb
  PROVE  LoopInv' /\ CounterInv' /\ RegionInv'
<1>1. UNCHANGED <<job, data, counter, addr, left, cnt, foreign, inSync, applied>>
  BY DEF DoRpmb, loopVars, history, devVars
<1>2. CASE ~ Writing
  BY <1>1, <1>2 DEF LoopInv, CounterInv, RegionInv, Writing
<1>3. CASE Writing
  <2>1. DoRpmbOp("do_read_counter", Request("READ_CNT", CounterRegion))
    BY <1>3 DEF DoRpmb, FirstCall, Writing
  <2>2. /\ caller' = "do_read_counter" /\ pc' \in {"so1", "check"}
        /\ frame'.req = "READ_CNT"
    BY <2>1 DEF DoRpmbOp, Request, Frame
  <2>3. BeforeLoop
    BY DEF DoRpmb, BeforeLoop
  <2>4. LoopInv'
    BY <1>1, <1>3, <2>2, <2>3
    DEF IInv, LoopInv, Writing, Done, BeforeLoop, InOp, Sending
  <2>5. QED
    BY <1>1, <2>3, <2>4, Quiet DEF IInv
<1>4. QED
  BY <1>2, <1>3

LEMMA CounterReturnsLoop ==
  ASSUME IInv, CounterReturns
  PROVE  LoopInv' /\ CounterInv' /\ RegionInv'
<1>1. UNCHANGED <<job, data, counter, addr, left, foreign, applied>>
  BY DEF CounterReturns, devVars
<1>2. CASE ~ Writing
  BY <1>1, <1>2 DEF LoopInv, CounterInv, RegionInv, Writing
<1>3. CASE Writing
  <2>1. /\ BeforeLoop /\ ~ inSync /\ left = job.num /\ applied = 0
        /\ job.num \in Nat /\ left \in 0 .. job.num /\ job.start \in Addrs
        /\ addr = job.start + Done
    BY <1>3 DEF CounterReturns, Return, IInv, LoopInv, BeforeLoop, InOp
  <2>2. CASE pc' = "exit" /\ UNCHANGED inSync
    <3>1. ~ BeforeLoop' /\ ~ inSync' /\ pc' \notin InOp
      BY <2>1, <2>2 DEF BeforeLoop, InOp, Sending
    <3>2. LoopInv'
      BY <1>1, <1>3, <2>1, <2>2, <3>1 DEF LoopInv, Writing, Done
    <3>3. QED
      BY <3>1, <3>2 DEF CounterInv, RegionInv
  <2>3. CASE pc' = "write" /\ inSync' = (cnt' = counter[job.region])
    <3>1. ~ BeforeLoop' /\ pc' \notin InOp
      BY <2>3 DEF BeforeLoop, InOp, Sending
    <3>2. LoopInv'
      BY <1>1, <1>3, <2>1, <2>3, <3>1 DEF LoopInv, Writing, Done
    <3>3. cnt' \in Nat
      BY CounterReturnsTyped DEF IInv, Inv, TypeOK
    <3>4. CounterInv'
      <4>1. inSync' => counter'[job.region] = cnt'
        BY <1>1, <2>3
      <4>2. Done' = 0 /\ applied' = 0
        BY <1>1, <2>1 DEF Done
      <4>3. QED
        BY <1>1, <3>3, <4>1, <4>2 DEF CounterInv
    <3>5. RegionInv'
      BY <1>1, <2>1 DEF IInv, RegionInv, Here, Earlier, Writing
    <3>6. QED
      BY <3>2, <3>4, <3>5
  <2>4. QED
    BY <1>3, <2>2, <2>3 DEF CounterReturns, Finish, Writing
<1>4. QED
  BY <1>2, <1>3

LEMMA WritingLoop ==
  ASSUME IInv, WriteChunk \/ WriteReturns
  PROVE  LoopInv' /\ CounterInv' /\ RegionInv'
<1>1. UNCHANGED <<job, data, counter, foreign, inSync, applied>>
  BY DEF WriteChunk, WriteReturns, devVars, history
<1>2. CASE ~ Writing
  BY <1>1, <1>2 DEF LoopInv, CounterInv, RegionInv, Writing
<1>3. CASE Writing
  <2>1. /\ job.num \in Nat /\ left \in 0 .. job.num /\ job.start \in Addrs
        /\ addr = job.start + Done /\ job \in Jobs /\ cnt \in Nat
        /\ left \in Int /\ addr \in Int
    BY <1>3 DEF IInv, Inv, TypeOK, LoopInv
  <2>2. CASE WriteChunk
    <3>1. /\ left > 0 /\ addr <= MaxAddr /\ UNCHANGED <<addr, left, cnt>>
          /\ DoRpmbOp("do_write_rpmb", WriteRequest)
      BY <2>2 DEF WriteChunk, LoopGoesOn, loopVars
    <3>2. caller' = "do_write_rpmb" /\ frame' = WriteRequest
          /\ pc' \in {"so1", "check"}
      BY <3>1 DEF DoRpmbOp
    <3>3. ~ BeforeLoop'
      BY <3>2 DEF BeforeLoop
    <3>4. WriteRequest' = WriteRequest
      BY <1>1, <3>1 DEF WriteRequest, Done, Chunk, MaxBlocks
    <3>5. LoopInv'
      BY <1>1, <2>1, <3>1, <3>2, <3>3, <3>4 DEF LoopInv, Writing, Done
    <3>6. QED
      BY <1>1, <3>1, <3>3, <3>5, Quiet DEF IInv
  <2>3. CASE WriteReturns
    <3>1. pc = "check" /\ caller = "do_write_rpmb" /\ left > 0
      BY <1>3, <2>3 DEF WriteReturns, Return, IInv, LoopInv, InOp
    <3>2. Chunk \in Nat /\ Chunk <= left
      BY <2>1, <3>1, ChunkTyped
    <3>3. CASE Finish("error", FALSE) /\ UNCHANGED loopVars
      BY <1>1, <3>1, <3>3, ExitLoop DEF Finish, loopVars
    <3>4. CASE NextChunk /\ cnt' = cnt + 1 /\ pc' = "write"
      <4>1. /\ left' \in 0 .. job.num /\ Done' = Done + Chunk
            /\ addr' = job.start + Done'
        <5>1. job.start \in Int /\ left' = left - Chunk /\ addr' = addr + Chunk
          BY <2>1, <3>4 DEF NextChunk, Addrs
        <5>2. Done' = job.num - left' /\ Done = job.num - left
          BY <1>1 DEF Done
        <5>3. QED
          BY <2>1, <3>1, <3>2, <5>1, <5>2
      <4>2. ~ BeforeLoop' /\ pc' \notin InOp
        BY <3>4 DEF BeforeLoop, InOp, Sending
      <4>3. LoopInv'
        BY <1>1, <2>1, <3>4, <4>1, <4>2 DEF LoopInv, Writing
      <4>4. CounterInv'
        <5> SUFFICES ASSUME inSync, foreign = 0
                     PROVE  LET c == counter[job.region]
                            IN  /\ c <= cnt' + 1 /\ c # cnt' + 1
                                /\ c = cnt' => applied = Done'
                                /\ c < cnt' => applied <= Done'
          BY <1>1 DEF CounterInv
        <5>1. counter[job.region] \in Nat /\ applied \in Int /\ Done \in Int
          BY <2>1, BoundsAssumption DEF IInv, Inv, TypeOK, DevTypeOK, Jobs, Done
        <5>2. QED
          BY <1>3, <2>1, <3>2, <3>4, <4>1, <5>1 DEF IInv, CounterInv
      <4>5. RegionInv'
        BY <1>1, <1>3, <4>2 DEF IInv, RegionInv, Here, Earlier, Writing
      <4>6. QED
        BY <4>3, <4>4, <4>5
    <3>5. QED
      BY <2>3, <3>3, <3>4 DEF WriteReturns, NextCounter
  <2>4. QED
    BY <2>2, <2>3
<1>4. QED
  BY <1>2, <1>3

LEMMA OthersLoop ==
  ASSUME IInv, SecurityIn \/ ForeignWrite \/ PurgeEnds \/ UNCHANGED vars
  PROVE  LoopInv' /\ CounterInv' /\ RegionInv'
<1>1. CASE SecurityIn
  <2>1. /\ pc = "si" /\ pc' \in {"si", "check"}
        /\ UNCHANGED <<job, caller, frame, data, counter, addr, left, cnt,
                       foreign, inSync, applied>>
    BY <1>1 DEF SecurityIn, SiSucceeds, SiVanishes, SiFails, loopVars, devVars
  <2>2. BeforeLoop' <=> BeforeLoop
    BY <2>1 DEF BeforeLoop, InOp, Sending
  <2>3. LoopInv'
    BY <2>1, <2>2 DEF IInv, LoopInv, Writing, Done, InOp, Sending
  <2>4. QED
    BY <2>1, <2>2, <2>3, Quiet DEF IInv
<1>2. CASE ForeignWrite
  <2>1. UNCHANGED <<job, pc, caller, frame, addr, left, cnt, inSync, applied>>
    BY <1>2 DEF ForeignWrite, toolVars, loopVars, history
  <2>2. foreign' # 0
    BY <1>2 DEF ForeignWrite, IInv, Inv, TypeOK
  <2>3. LoopInv'
    BY <2>1
    DEF IInv, LoopInv, Writing, Done, Chunk, MaxBlocks, WriteRequest, BeforeLoop
  <2>4. QED
    BY <2>2, <2>3 DEF CounterInv, RegionInv
<1>3. CASE PurgeEnds \/ UNCHANGED vars
  <2>1. UNCHANGED <<job, pc, caller, frame, data, counter, addr, left, cnt,
                    foreign, inSync, applied>>
    BY <1>3 DEF PurgeEnds, DevPurgeEnds, toolVars, loopVars, history, vars,
                devVars
  <2>2. BeforeLoop' <=> BeforeLoop
    BY <2>1 DEF BeforeLoop
  <2>3. LoopInv'
    BY <2>1, <2>2
    DEF IInv, LoopInv, Writing, Done, Chunk, MaxBlocks, WriteRequest
  <2>4. QED
    BY <2>1, <2>2, <2>3, Quiet DEF IInv
<1>4. QED
  BY <1>1, <1>2, <1>3

LEMMA InitLoop == Init => LoopInv /\ CounterInv /\ RegionInv
<1> SUFFICES ASSUME Init PROVE LoopInv /\ CounterInv /\ RegionInv
  OBVIOUS
<1>1. /\ pc = "start" /\ ~ inSync /\ applied = 0 /\ left = job.num
      /\ addr = job.start /\ job \in Jobs
  BY InitTyped DEF Init, TypeOK
<1>2. job.region \in Regions
  BY <1>1 DEF Jobs
<1>3. Writing => job.start \in Addrs /\ job.num \in Nat
  <2>1. PICK o \in CommandLines : job = Verified(o)
    BY DEF Init
  <2>2. o.start \in Addrs \cup {NotGiven} /\ o.num \in Nat \cup {NotGiven}
    <3>1. o.start \in StartBlocks /\ o.num \in BlockCounts
      BY DEF CommandLines
    <3>2. QED
      BY <3>1, OptionsAssumption
  <2>3. Default(o.start, 0) \in Addrs /\ Default(o.num, 1) \in Nat
    BY <2>2, BoundsAssumption DEF Default, Addrs
  <2>4. o.cmd = "WRITE_RPMB" =>
          job.start = Default(o.start, 0) /\ job.num = Default(o.num, 1)
    BY <2>1 DEF Verified, CommandLines
  <2>5. Writing => o.cmd = "WRITE_RPMB"
    BY <2>1 DEF Writing, Verified
  <2>6. QED
    BY <2>3, <2>4, <2>5
<1>4. LoopInv
  <2>1. Writing => left \in 0 .. job.num /\ addr = job.start + Done
    BY <1>1, <1>3 DEF Done, Addrs
  <2>2. QED
    BY <1>1, <1>3, <2>1 DEF LoopInv, InOp, Sending
<1>5. CounterInv
  BY <1>1 DEF CounterInv
<1>6. RegionInv
  <2> SUFFICES ASSUME Writing, NEW a \in Addrs
               PROVE  Here[a] = IF a \in job.start .. (job.start + applied - 1)
                                  THEN a - job.start + 1
                                  ELSE Earlier(job.region, a)
    BY DEF RegionInv
  <2>1. job.start .. (job.start + applied - 1) = {}
    BY <1>1, <1>3 DEF Addrs
  <2>2. Here[a] = Earlier(job.region, a)
    BY <1>2 DEF Init, DevInit, Here
  <2>3. QED
    BY <2>1, <2>2
<1>7. QED
  BY <1>4, <1>5, <1>6

\* The inductive invariant: types, the frames do_rpmb_op sends, the loop's
\* bookkeeping, and what the device's counter says about the region.
THEOREM Inductive == Spec => []IInv
<1>1. Init => IInv
  BY InitTyped, InitLoop DEF IInv, Inv
<1>2. IInv /\ [Next]_vars => IInv'
  <2> SUFFICES ASSUME IInv, [Next]_vars PROVE IInv'
    OBVIOUS
  <2>1. Inv'
    BY NextTyped DEF IInv, Inv
  <2>2. LoopInv' /\ CounterInv' /\ RegionInv'
    <3>1. CASE SecurityOut
      BY <3>1, SecurityOutLoop
    <3>2. CASE DoRpmb
      BY <3>2, DoRpmbLoop
    <3>3. CASE CounterReturns
      BY <3>3, CounterReturnsLoop
    <3>4. CASE ReadBegins \/ ReadChunk \/ ReadReturns
      BY <3>4, ReadingLoop
    <3>5. CASE WriteChunk \/ WriteReturns
      BY <3>5, WritingLoop
    <3>6. CASE SecurityIn \/ ForeignWrite \/ PurgeEnds \/ UNCHANGED vars
      BY <3>6, OthersLoop
    <3>7. CASE \/ OpenFails \/ KeyReturns \/ ChangeReturns
               \/ PurgeStatusReturns \/ ConfReadReturns \/ ReadOutOfMemory
               \/ WriteGivesUp
               \/ \E loop \in {"read", "write"} : LoopEnds(loop)
      BY <3>7, EndingLoop
    <3>8. QED
      BY <3>1, <3>2, <3>3, <3>4, <3>5, <3>6, <3>7
      DEF Next, ToolNext, Terminating
  <2>3. QED
    BY <2>1, <2>2 DEF IInv
<1>3. QED
  BY <1>1, <1>2, PTL DEF Spec

\* However many calls fail or vanish, the blocks a single host's write has
\* put into the region are the first ones of the input file, at their own
\* addresses: do_write_rpmb never leaves a hole.
THEOREM WritesPrefix == Spec => []PrefixOnly
<1>1. IInv => PrefixOnly
  BY DEF IInv, RegionInv, PrefixOnly
<1>2. QED
  BY <1>1, Inductive, PTL

\* A chunk costs one counter value, however often do_rpmb_op sends it again.
THEOREM WritesOnce == Spec => []OneCounterPerChunk
<1>1. IInv => OneCounterPerChunk
  <2> SUFFICES ASSUME IInv, Writing, inSync, foreign = 0
               PROVE  /\ counter[job.region] <= cnt + 1
                      /\ counter[job.region] = cnt + 1 => left > 0
                      /\ applied <= Done + Chunk
    BY DEF OneCounterPerChunk
  <2>1. /\ counter[job.region] \in Nat /\ cnt \in Nat /\ applied \in Int
        /\ left \in 0 .. job.num /\ job.num \in Nat /\ job \in Jobs
    BY BoundsAssumption DEF IInv, Inv, TypeOK, DevTypeOK, Jobs, LoopInv
  <2>2. Chunk \in Nat /\ Done \in Nat
    BY <2>1, ChunkTyped DEF Done
  <2>3. QED
    BY <2>1, <2>2 DEF IInv, CounterInv
<1>2. QED
  BY <1>1, Inductive, PTL
=============================================================================

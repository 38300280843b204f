-------------------------------- MODULE Rpmb --------------------------------
(***************************************************************************)
(* One run of "ufs-utils rpmb" (ufs_rpmb.c) against the device, over a     *)
(* transport that may lose a request or its completion, while another host *)
(* may write to the same RPMB.  Every step of the tool is one ioctl, or    *)
(* the code between two of them: do_rpmb chooses the calls, do_rpmb_op     *)
(* sends a request (SO), where needed asks for its result (SO 2), and      *)
(* collects the answer (SI), each up to MAX_RETRY times.                   *)
(*                                                                         *)
(* Left out: the key file's contents, messages, the data's encoding.       *)
(***************************************************************************)
EXTENDS RpmbDevice

CONSTANTS
  Commands,        \* the commands (-t) the user may give
  StartBlocks,     \* the start addresses (-s) the user may give
  BlockCounts,     \* the block counts (-n) the user may give
  FileBlocks,      \* how many blocks the input file may hold
  Geometries,      \* bRPMB_ReadWriteSize, or NotGiven: it cannot be read
  SgVersions,      \* the SG_IO interfaces (-g), 3 or 4
  DefaultBlocks,   \* DEFAULT_RPMB_NUM_BLOCKS
  MaxRetry,        \* MAX_RETRY
  MaxFaults,       \* bound: how many calls may fail in a run
  MaxForeign       \* bound: how many blocks another host may write

NotGiven == -1     \* INVALID, as initialized_options leaves it

AllCommands == {"AUTHENTICATION_KEY", "READ_WRITE_COUNTER", "READ_RPMB",
                "WRITE_RPMB", "WRITE_SEC_RPMB_CONF_BLOCK",
                "READ_SEC_RPMB_CONF_BLOCK", "PURGE_ENABLE",
                "READ_PURGE_STATUS"}

ASSUME CommandsAssumption == Commands \subseteq AllCommands
ASSUME OptionsAssumption ==
  /\ StartBlocks \subseteq Addrs \cup {NotGiven}
  /\ BlockCounts \subseteq Nat \cup {NotGiven}
  /\ FileBlocks \subseteq Nat
  /\ Geometries \subseteq Nat \cup {NotGiven}
  /\ SgVersions \subseteq {3, 4}
ASSUME LimitsAssumption ==
  /\ DefaultBlocks \in Nat \ {0}
  /\ MaxRetry \in Nat \ {0}
  /\ MaxFaults \in Nat
  /\ MaxForeign \in Nat

VARIABLES
  job,       \* struct tool_options, as verify_rpmb_arg leaves it
  pc,        \* where the tool is
  caller,    \* the function do_rpmb_op returns to
  frame,     \* the request do_rpmb_op is sending (frame_in)
  tries,     \* try_again
  reply,     \* frame_out
  ret,       \* the return code, "ok" for 0
  addr,      \* start_addr
  left,      \* num_blocks: blocks still to transfer
  cnt,       \* the write counter the tool believes in
  out,       \* the blocks written to the output file
  said,      \* whether the tool printed that the command succeeded
  faults,    \* calls that failed so far
  foreign,   \* blocks another host wrote so far
  masked,    \* history: an error never reached the return code (see Masks)
  inSync,    \* history: the write began with the device's own counter
  applied    \* history: the input block the device stored last

loopVars == <<addr, left, cnt, out>>
history  == <<masked, inSync, applied>>
toolVars == <<job, pc, caller, frame, tries, reply, ret, loopVars, said>>
vars     == <<devVars, toolVars, faults, foreign, history>>

-----------------------------------------------------------------------------
(* The command line                                                        *)

NeedsKey == {"AUTHENTICATION_KEY", "WRITE_RPMB", "WRITE_SEC_RPMB_CONF_BLOCK",
             "PURGE_ENABLE"}
Region0Only == {"WRITE_SEC_RPMB_CONF_BLOCK", "READ_SEC_RPMB_CONF_BLOCK"}

CommandLines ==
  [cmd : Commands, region : Regions, key : Keys \cup {NoKey},
   start : StartBlocks, num : BlockCounts, file : FileBlocks,
   geometry : Geometries, sg : SgVersions]

\* verify_rpmb_arg's refusals.
Legal(o) ==
  /\ o.cmd \in NeedsKey => o.key # NoKey
  /\ o.cmd \in Region0Only => o.region = 0

\* What a command does not look at has one value for all of them.
Any(S) == CHOOSE x \in S : TRUE

Distinct(o) ==
  /\ o.cmd \notin {"READ_RPMB", "WRITE_RPMB"} =>
       /\ o.start = Any(StartBlocks) /\ o.num = Any(BlockCounts)
       /\ o.geometry = Any(Geometries)
  /\ o.cmd \notin {"WRITE_RPMB", "WRITE_SEC_RPMB_CONF_BLOCK"} =>
       o.file = Any(FileBlocks)
  /\ o.cmd \notin NeedsKey => o.key = NoKey

Default(given, value) == IF given = NotGiven THEN value ELSE given

\* verify_rpmb_arg's defaults.
Verified(o) ==
  IF o.cmd = "WRITE_RPMB"
    THEN [o EXCEPT !.num = Default(@, 1), !.start = Default(@, 0)]
    ELSE o

-----------------------------------------------------------------------------
(* Frames                                                                  *)

\* start_addr as the 16-bit address field carries it.
Wire(a) == a % (MaxAddr + 1)

Frame(type, region, a, n, c, mac, block) ==
  [req |-> type, region |-> region, addr |-> a, count |-> n, counter |-> c,
   mac |-> mac, first |-> block]

Request(type, region) == Frame(type, region, 0, 1, 0, NoKey, 0)

\* Input block 1 is the configuration block, when there is one.
Authenticated(type, region, c) == Frame(type, region, 0, 1, c, job.key, 1)

\* The counter is read from region 0 for the configuration block and the purge.
CounterRegion ==
  IF job.cmd \in {"WRITE_SEC_RPMB_CONF_BLOCK", "PURGE_ENABLE"}
    THEN 0 ELSE job.region

NoReply == Answer("Success", 0, << >>)     \* frame_out = { 0 }

\* max_num_blocks, as the read and the write loop compute it.
MaxBlocks ==
  CASE job.geometry = NotGiven -> DefaultBlocks
    [] job.geometry = 0 -> IF job.cmd = "WRITE_RPMB" THEN 1 ELSE 0
    [] OTHER -> job.geometry

\* num_read_blocks and num_write_blocks.
Chunk == IF left > MaxBlocks THEN MaxBlocks ELSE left

Done == job.num - left

\* Mutant: every chunk is read from the start address.
FirstReadRequest ==
  Frame("READ", job.region, Wire(job.start), Chunk, 0, NoKey, 0)

ReadRequest == Frame("READ", job.region, Wire(addr), Chunk, 0, NoKey, 0)

\* Mutant: every chunk starts again with the first block of the file.
RewoundRequest ==
  Frame("WRITE", job.region, Wire(addr), Chunk, cnt, job.key, 1)

WriteRequest ==
  Frame("WRITE", job.region, Wire(addr), Chunk, cnt, job.key, Done + 1)

\* The data of n received frames; frames the device did not fill stay zero.
Received(n) ==
  [i \in 1 .. n |-> IF i \in 1 .. Len(reply.blocks) THEN reply.blocks[i]
                                                    ELSE ZeroFrame]
-----------------------------------------------------------------------------
(* do_rpmb_op                                                              *)

\* Mutant: no parameter check.
NeverEmpty(f) == FALSE

\* An empty transfer is refused before anything is sent.
Empty(f) == f.count = 0

DoRpmbOp(who, f) ==
  /\ caller' = who
  /\ frame' = f
  /\ tries' = 0
  /\ reply' = NoReply
  /\ IF Empty(f) THEN pc' = "check" /\ ret' = "error"
                 ELSE pc' = "so1" /\ UNCHANGED ret

Changes == {"WRITE", "WRITE_KEY", "SEC_CONF_WRITE"}

\* The frame of the 2nd SO, in the buffer of the first.
ResultRequest == Request("READ_RESP", frame.region)

\* After an SO that succeeded, or failed for the last time.
AfterSO ==
  /\ tries' = 0
  /\ IF pc = "so1" /\ frame.req \in Changes
       THEN pc' = "so2" /\ frame' = ResultRequest
       ELSE pc' = "si" /\ UNCHANGED frame

\* The failure of the last try is logged and overwritten by the next call.
Masks == tries + 1 = MaxRetry

Fault == faults < MaxFaults /\ faults' = faults + 1

\* The input block the device has now stored, if this SO made it store one.
NoteApplied ==
  applied' = IF frame.req = "WRITE" /\ counter' # counter
               THEN frame.first + frame.count - 1 ELSE applied

SoSucceeds ==
  /\ DevExecute(frame)
  /\ NoteApplied
  /\ ret' = "ok"
  /\ AfterSO
  /\ UNCHANGED <<faults, masked>>

\* SG_IO version 3: only the SCSI status is looked at, so a command the host
\* adapter never delivered counts as done.
SoVanishes ==
  /\ job.sg = 3
  /\ Fault
  /\ masked' = TRUE
  /\ ret' = "ok"
  /\ AfterSO
  /\ UNCHANGED <<devVars, applied>>

\* The call fails; the device may have executed the request all the same.  When
\* the ioctl was interrupted, send_scsi_cmd does it again, and no try is used.
SoFails ==
  /\ Fault
  /\ \/ DevExecute(frame) /\ NoteApplied
     \/ UNCHANGED <<devVars, applied>>
  /\ \/ /\ ret' = "error"
        /\ masked' = (masked \/ Masks)
        /\ IF Masks THEN AfterSO ELSE tries' = tries + 1 /\ UNCHANGED <<pc, frame>>
     \/ UNCHANGED <<ret, masked, tries, pc, frame>>

SecurityOut ==
  /\ pc \in {"so1", "so2"}
  /\ SoSucceeds \/ SoVanishes \/ SoFails
  /\ UNCHANGED <<job, caller, reply, loopVars, said, foreign, inSync>>

SiSucceeds ==
  /\ reply' = resp[frame.region]
  /\ ret' = "ok"
  /\ pc' = "check"
  /\ UNCHANGED <<tries, faults, masked>>

SiVanishes ==
  /\ job.sg = 3
  /\ Fault
  /\ masked' = TRUE
  /\ ret' = "ok"
  /\ pc' = "check"
  /\ UNCHANGED <<reply, tries>>

SiFails ==
  /\ Fault
  /\ ret' = "error"
  /\ tries' = tries + 1
  /\ pc' = IF Masks THEN "check" ELSE "si"
  /\ UNCHANGED <<reply, masked>>

SecurityIn ==
  /\ pc = "si"
  /\ SiSucceeds \/ SiVanishes \/ SiFails
  /\ UNCHANGED <<devVars, job, caller, frame, loopVars, said, foreign, inSync,
                 applied>>
-----------------------------------------------------------------------------
(* The commands                                                            *)

opVars == <<caller, frame, tries, reply>>

Finish(rc, message) ==
  /\ pc' = "exit"
  /\ ret' = rc
  /\ said' = message
  /\ UNCHANGED opVars

Return(who) == pc = "check" /\ caller = who

\* Mutant: the result field of the answer is not looked at.
Delivered == ret = "ok"

Fine == ret = "ok" /\ reply.result = "Success"

\* The device, the key file or the data file cannot be opened.
OpenFails ==
  /\ pc = "start"
  /\ Fault
  /\ Finish("error", FALSE)
  /\ UNCHANGED <<devVars, job, loopVars, foreign, history>>

FirstCall ==
  CASE job.cmd = "AUTHENTICATION_KEY" ->
         DoRpmbOp("do_key", Authenticated("WRITE_KEY", job.region, 0))
    [] job.cmd \in {"READ_WRITE_COUNTER", "WRITE_RPMB",
                    "WRITE_SEC_RPMB_CONF_BLOCK", "PURGE_ENABLE"} ->
         DoRpmbOp("do_read_counter", Request("READ_CNT", CounterRegion))
    [] job.cmd = "READ_SEC_RPMB_CONF_BLOCK" ->
         DoRpmbOp("do_read_conf_block", Request("SEC_CONF_READ", 0))
    [] job.cmd = "READ_PURGE_STATUS" ->
         DoRpmbOp("do_read_rpmb_purge_status",
                  Request("PURGE_STATUS", job.region))

DoRpmb ==
  /\ pc = "start"
  /\ job.cmd # "READ_RPMB"
  /\ FirstCall
  /\ UNCHANGED <<devVars, job, loopVars, said, faults, foreign, history>>

\* do_key: a refusal is printed and 0 returned.
KeyReturns ==
  /\ Return("do_key")
  /\ Finish(ret, Fine)
  /\ UNCHANGED <<devVars, job, loopVars, faults, foreign, history>>

\* do_read_counter: a refusal is printed, 0 returned and the counter kept.
CounterReturns ==
  /\ Return("do_read_counter")
  /\ cnt' = IF Fine THEN reply.counter ELSE cnt
  /\ \/ /\ job.cmd = "READ_WRITE_COUNTER" \/ ret # "ok"
        /\ Finish(ret, job.cmd = "READ_WRITE_COUNTER" /\ Fine)
        /\ UNCHANGED inSync
     \/ /\ job.cmd = "WRITE_RPMB" /\ ret = "ok"
        /\ pc' = "write"
        /\ ret' = IF job.geometry = NotGiven THEN "error" ELSE "ok"
        /\ inSync' = (cnt' = counter[job.region])
        /\ UNCHANGED <<opVars, said>>
     \/ /\ job.cmd = "PURGE_ENABLE" /\ ret = "ok"
        /\ DoRpmbOp("do_rpmb_purge_enable",
                    Authenticated("PURGE_ENABLE", job.region, cnt'))
        /\ UNCHANGED <<said, inSync>>
     \/ /\ job.cmd = "WRITE_SEC_RPMB_CONF_BLOCK" /\ ret = "ok"
        /\ IF job.file = 0
             THEN Finish("error", FALSE)
             ELSE /\ DoRpmbOp("do_write_conf_block",
                              Authenticated("SEC_CONF_WRITE", 0, cnt'))
                  /\ UNCHANGED said
        /\ UNCHANGED inSync
  /\ UNCHANGED <<devVars, job, addr, left, out, faults, foreign, masked,
                 applied>>

\* do_write_conf_block and do_rpmb_purge_enable report a refusal.
ChangeReturns ==
  /\ Return("do_write_conf_block") \/ Return("do_rpmb_purge_enable")
  /\ Finish(IF Fine THEN "ok" ELSE "error", Fine)
  /\ UNCHANGED <<devVars, job, loopVars, faults, foreign, history>>

PurgeStatusReturns ==
  /\ Return("do_read_rpmb_purge_status")
  /\ Finish(IF Fine THEN "ok" ELSE "error", Fine)
  /\ out' = IF Fine THEN Received(1) ELSE out
  /\ UNCHANGED <<devVars, job, addr, left, cnt, faults, foreign, history>>

\* do_read_conf_block returns 0 when the device refuses.
ConfReadReturns ==
  /\ Return("do_read_conf_block")
  /\ \/ Fine /\ out' = Received(1) /\ Finish("ok", TRUE) /\ UNCHANGED faults
     \/ Fine /\ Fault /\ UNCHANGED out /\ Finish("error", FALSE)
     \/ ~ Fine /\ Finish(ret, FALSE) /\ UNCHANGED <<out, faults>>
  /\ UNCHANGED <<devVars, job, addr, left, cnt, foreign, history>>
-----------------------------------------------------------------------------
(* do_read_rpmb                                                            *)

ReadBegins ==
  /\ pc = "start"
  /\ job.cmd = "READ_RPMB"
  /\ pc' = "read"
  /\ ret' = IF job.geometry = NotGiven THEN "error" ELSE "ok"
  /\ UNCHANGED <<devVars, job, opVars, loopVars, said, faults, foreign,
                 history>>

\* Nothing left, or past the last address: ret is whatever it was.
LoopEnds(loop) ==
  /\ pc = loop
  /\ left <= 0 \/ addr > MaxAddr
  /\ Finish(ret, ret = "ok")
  /\ UNCHANGED <<devVars, job, loopVars, faults, foreign, history>>

LoopGoesOn(loop) == pc = loop /\ left > 0 /\ addr <= MaxAddr

ReadChunk ==
  /\ LoopGoesOn("read")
  /\ DoRpmbOp("do_read_rpmb", ReadRequest)
  /\ UNCHANGED <<devVars, job, loopVars, said, faults, foreign, history>>

\* calloc fails: the read loop leaves with the ret of the chunk before.
ReadOutOfMemory ==
  /\ LoopGoesOn("read")
  /\ Fault
  /\ masked' = TRUE
  /\ Finish(ret, ret = "ok")
  /\ UNCHANGED <<devVars, job, loopVars, foreign, inSync, applied>>

NextChunk ==
  /\ left' = left - Chunk
  /\ addr' = addr + Chunk

ReadReturns ==
  /\ Return("do_read_rpmb")
  /\ \/ /\ ~ Fine
        /\ Finish("error", FALSE)
        /\ UNCHANGED <<loopVars, faults>>
     \/ /\ Fine
        /\ out' = out \o Received(Chunk)
        /\ NextChunk
        /\ pc' = "read"
        /\ UNCHANGED <<opVars, ret, said, cnt, faults>>
     \/ /\ Fine                       \* write() to the output file fails
        /\ Fault
        /\ \E k \in 0 .. Chunk - 1 : out' = out \o Received(k)
        /\ Finish("error", FALSE)
        /\ UNCHANGED <<addr, left, cnt>>
  /\ UNCHANGED <<devVars, job, foreign, history>>
-----------------------------------------------------------------------------
(* do_write_rpmb                                                           *)

WriteChunk ==
  /\ LoopGoesOn("write")
  /\ Done + Chunk <= job.file
  /\ DoRpmbOp("do_write_rpmb", WriteRequest)
  /\ UNCHANGED <<devVars, job, loopVars, said, faults, foreign, history>>

\* The input file ends inside the chunk, or calloc fails.
WriteGivesUp ==
  /\ LoopGoesOn("write")
  /\ \/ Done + Chunk > job.file /\ UNCHANGED faults
     \/ Fault
  /\ Finish("error", FALSE)
  /\ UNCHANGED <<devVars, job, loopVars, foreign, history>>

\* Mutants: the counter is not advanced; the counter the answer shows is used.
SameCounter == cnt
ShownCounter == reply.counter

NextCounter == cnt + 1

WriteReturns ==
  /\ Return("do_write_rpmb")
  /\ \/ /\ ~ Fine
        /\ Finish("error", FALSE)
        /\ UNCHANGED loopVars
     \/ /\ Fine
        /\ NextChunk
        /\ cnt' = NextCounter
        /\ pc' = "write"
        /\ UNCHANGED <<opVars, ret, said, out>>
  /\ UNCHANGED <<devVars, job, faults, foreign, history>>
-----------------------------------------------------------------------------
(* The other parties                                                       *)

ForeignWrite ==
  /\ pc # "exit"
  /\ foreign < MaxForeign
  /\ foreign' = foreign + 1
  /\ \E r \in Regions, a \in Addrs : DevForeignWrite(r, a)
  /\ UNCHANGED <<toolVars, faults, history>>

PurgeEnds ==
  /\ \E r \in Regions : DevPurgeEnds(r)
  /\ UNCHANGED <<toolVars, faults, foreign, history>>

Terminating == pc = "exit" /\ UNCHANGED vars

ToolNext ==
  \/ OpenFails \/ DoRpmb \/ SecurityOut \/ SecurityIn
  \/ KeyReturns \/ CounterReturns \/ ChangeReturns \/ PurgeStatusReturns
  \/ ConfReadReturns
  \/ ReadBegins \/ ReadChunk \/ ReadOutOfMemory \/ ReadReturns
  \/ WriteChunk \/ WriteGivesUp \/ WriteReturns
  \/ LoopEnds("read") \/ LoopEnds("write")

Next == ToolNext \/ ForeignWrite \/ PurgeEnds \/ Terminating

Init ==
  /\ DevInit
  /\ \E o \in CommandLines : Legal(o) /\ Distinct(o) /\ job = Verified(o)
  /\ pc = "start" /\ caller = "none" /\ ret = "error" /\ said = FALSE
  /\ frame = Request("READ_RESP", job.region) /\ tries = 0 /\ reply = NoReply
  /\ addr = job.start /\ left = job.num /\ cnt = 0 /\ out = << >>
  /\ faults = 0 /\ foreign = 0
  /\ masked = FALSE /\ inSync = FALSE /\ applied = 0

Spec     == Init /\ [][Next]_vars
FairSpec == Spec /\ WF_vars(ToolNext /\ UNCHANGED faults)
-----------------------------------------------------------------------------
(* Properties                                                              *)

Jobs == [cmd : AllCommands, region : Regions, key : Keys \cup {NoKey},
         start : Int, num : Int, file : Nat,
         geometry : Nat \cup {NotGiven}, sg : {3, 4}]

Callers == {"none", "do_key", "do_read_counter", "do_write_conf_block",
            "do_rpmb_purge_enable", "do_read_rpmb_purge_status",
            "do_read_conf_block", "do_read_rpmb", "do_write_rpmb"}

Places == {"start", "read", "write", "so1", "so2", "si", "check", "exit"}

\* Every variable stays in its type; while do_rpmb_op is sending, fewer than
\* MAX_RETRY tries have failed.
TypeOK ==
  /\ DevTypeOK
  /\ job \in Jobs
  /\ pc \in Places
  /\ caller \in Callers
  /\ frame \in Requests
  /\ tries \in 0 .. MaxRetry
  /\ pc \in {"so1", "so2", "si"} => tries < MaxRetry
  /\ reply \in Answers
  /\ ret \in {"ok", "error"}
  /\ addr \in Int /\ left \in Int /\ cnt \in Nat
  /\ out \in Seq(Int)
  /\ said \in BOOLEAN
  /\ faults \in 0 .. MaxFaults /\ foreign \in 0 .. MaxForeign
  /\ masked \in BOOLEAN /\ inSync \in BOOLEAN
  /\ applied \in Int

Writing == job.cmd = "WRITE_RPMB"
Reading == job.cmd = "READ_RPMB"
Here    == data[job.region]

\* The transport and the other hosts did nothing the tool cannot notice.
Undisturbed == ~ masked /\ foreign = 0

\* Whatever calls fail, are repeated, or vanish: as long as no other host
\* writes and the counter was read right, the blocks of a write that reached
\* the device (do_write_rpmb) are the first ones of the input file, at their
\* addresses, and nothing else in the region changed.  A lost chunk can
\* therefore never be followed by a stored one.
PrefixOnly ==
  (Writing /\ inSync /\ foreign = 0) =>
    \A a \in Addrs :
      Here[a] = IF a \in job.start .. (job.start + applied - 1)
                  THEN a - job.start + 1 ELSE Earlier(job.region, a)

\* And whatever other hosts write in between: as long as no error is masked
\* and no purge made the device refuse for a while, the blocks that reached
\* the device are still the first ones of the file.  Another host's write
\* moves the counter ahead of the tool's, which never catches up, even when
\* its result is taken for the tool's own (do_write_rpmb's cnt++).
PrefixDespiteOthers ==
  (Writing /\ ~ masked /\ purge[job.region] = "none") =>
    \A a \in Addrs :
      Here[a] \in {Foreign, IF a \in job.start .. (job.start + applied - 1)
                              THEN a - job.start + 1
                              ELSE Earlier(job.region, a)}

\* However often do_rpmb_op repeats an SO the device already executed, a
\* chunk costs one counter value and is stored once: the device is never
\* more than the chunk under way ahead of what do_write_rpmb has counted.
OneCounterPerChunk ==
  (Writing /\ inSync /\ foreign = 0) =>
    /\ counter[job.region] <= cnt + 1
    /\ counter[job.region] = cnt + 1 => left > 0
    /\ applied <= Done + Chunk

\* "Finish to write RPMB data": if no error was masked, the device holds
\* every block of the request the address space has room for.
TrueWrite ==
  (pc = "exit" /\ Writing /\ said /\ Undisturbed) =>
    \A i \in 1 .. job.num :
      job.start + i - 1 <= MaxAddr => Here[job.start + i - 1] = i

\* "Finish to read RPMB data": if no error was masked, the output file holds
\* the region's blocks in order, from the start address, up to the requested
\* number or the end of the address space (do_read_rpmb).  From a start that
\* was not given, chunks of one block go from the last address on to 0.
TrueRead ==
  (pc = "exit" /\ Reading /\ said /\ Undisturbed) =>
    /\ \A i \in 1 .. Len(out) : out[i] = Here[Wire(job.start + i - 1)]
    /\ \/ Len(out) >= job.num
       \/ job.start + Len(out) > MaxAddr

\* The message of every other command is true when no error was masked, even
\* if the device executed a request whose completion was lost and do_rpmb_op
\* then sent it again.
TrueMessage ==
  (pc = "exit" /\ said /\ Undisturbed) =>
    CASE job.cmd = "AUTHENTICATION_KEY" -> key[job.region] = job.key
      [] job.cmd = "READ_WRITE_COUNTER" -> cnt = counter[job.region]
      [] job.cmd = "WRITE_SEC_RPMB_CONF_BLOCK" -> conf = 1
      [] job.cmd = "READ_SEC_RPMB_CONF_BLOCK" -> out = <<conf>>
      [] job.cmd = "PURGE_ENABLE" -> purge[job.region] # "none"
      [] job.cmd = "READ_PURGE_STATUS" ->
           out[1] <= PurgeCode(purge[job.region])
      [] OTHER -> TRUE

\* An error the tool returns from a write leaves the device at a point the
\* user can resume from: every chunk counted as done is stored, and at most
\* the chunk under way besides (do_write_rpmb's bookkeeping of num_blocks).
ErrorLeavesKnownState ==
  (pc = "exit" /\ Writing /\ inSync /\ Undisturbed) =>
    applied \in {Done, Done + Chunk}

\* With no failing call and no other host, a write is refused only for a
\* reason of the device or of the input: counters and addresses of all the
\* chunks do follow each other.
FaultFreeWriteSucceeds ==
  (pc = "exit" /\ Writing /\ ret = "error" /\ faults = 0 /\ foreign = 0) =>
    \/ key[job.region] # job.key
    \/ counter[job.region] = CounterMax
    \/ purge[job.region] # "none"
    \/ job.file < job.num
    \/ job.start + job.num > MaxAddr + 1
    \/ job.num = 0 /\ job.geometry = NotGiven

\* The tool comes to its end: every retry loop is bounded and the two block
\* loops progress by a whole chunk each time.
Terminates == <>(pc = "exit")

\* The exit status of the tool.
Verdict ==
  IF pc # "exit" THEN "none" ELSE IF ret = "ok" THEN "good" ELSE "bad"

Promise == INSTANCE RpmbPromise WITH
  LastAddr <- MaxAddr,
  area     <- data[job.region],
  stored   <- applied,
  verdict  <- Verdict,
  start    <- job.start,
  goal     <- job.num

\* When fewer calls fail than do_rpmb_op repeats, over SG_IO version 4, with
\* one host, a write command is a run of the promise, though the calls that
\* fail may have been executed or not: every step of the tool, the transport
\* and the device is one of its steps or leaves it unchanged, and the verdict
\* is always reached (do_rpmb, WRITE_RPMB).
KeepsPromise == Promise!FairSpec

\* The message at the end of a write taken at its word, whatever happened.
FinishMeansWritten ==
  (pc = "exit" /\ Writing /\ said) =>
    \A i \in 1 .. job.num :
      job.start + i - 1 <= MaxAddr => Here[job.start + i - 1] = i
=============================================================================

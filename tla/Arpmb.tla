------------------------------- MODULE Arpmb -------------------------------
(***************************************************************************)
(* One run of "ufs-utils arpmb" (ufs_arpmb.c), Advanced RPMB: a request    *)
(* and its answer travel in the same command.  The tool repeats none, but  *)
(* send_bsg_scsi_trs sends a command again that was interrupted.  Every    *)
(* step of the tool is one command and the code up to the next.  The       *)
(* device is that of Rpmb; blocks are those of RpmbDevice too.             *)
(*                                                                         *)
(* Left out: the key file's contents, the check of the MAC of data read    *)
(* (a mismatch is a warning), messages other than those a property reads.  *)
(***************************************************************************)
EXTENDS RpmbDevice

CONSTANTS
  Commands,        \* the commands (-t) the user may give
  StartBlocks,     \* the start addresses (-s) the user may give
  BlockCounts,     \* the block counts (-n) the user may give
  FileBlocks,      \* how many blocks the input file may hold
  Geometries,      \* bRPMB_ReadWriteSize, or NotGiven: it cannot be read
  DefaultBlocks,   \* DEFAULT_RPMB_NUM_BLOCKS
  MaxFaults,       \* bound: how many calls may fail or be interrupted in a run
  MaxForeign       \* bound: how many blocks another host may write

NotGiven == -1     \* INVALID, as initialized_options leaves it

\* "OTHER" is any command do_arpmb does not support.
AllCommands == {"AUTHENTICATION_KEY", "READ_WRITE_COUNTER", "READ_RPMB",
                "WRITE_RPMB", "OTHER"}

\* verify_and_set_start_addr allows more than ARPMB_MAX_ADDRESS.
ASSUME CommandsAssumption == Commands \subseteq AllCommands
ASSUME OptionsAssumption ==
  /\ StartBlocks \subseteq Nat \cup {NotGiven}
  /\ BlockCounts \subseteq Nat \cup {NotGiven}
  /\ FileBlocks \subseteq Nat
  /\ Geometries \subseteq Nat \cup {NotGiven}
ASSUME LimitsAssumption ==
  /\ DefaultBlocks \in Nat \ {0}
  /\ MaxFaults \in Nat
  /\ MaxForeign \in Nat

VARIABLES
  job,       \* struct tool_options, as verify_rpmb_arg leaves it
  pc,        \* the call the tool makes next, or the loop it is in
  ret,       \* the return code, "ok" for 0
  addr,      \* start_addr
  left,      \* num_blocks: blocks still to transfer
  cnt,       \* the write counter the tool believes in
  buff,      \* the pointer buff of do_write_arpmb, between two chunks
  out,       \* the blocks written to the output file
  resend,    \* {}, or {zero}: the command made next was sent, executed and
             \* interrupted, with a MAC over zero bytes or over others
  printed,   \* "done", or the result print_operation_error was called with
  faults,    \* calls that failed so far
  foreign,   \* blocks another host wrote so far
  zeros,     \* history: all MACs were computed over the right padding
  inSync,    \* history: the write began with the device's own counter
  applied    \* history: the input block the device stored last

history  == <<zeros, inSync, applied>>
loopVars == <<addr, left, cnt, buff, out, resend>>
toolVars == <<job, pc, ret, loopVars, printed>>
vars     == <<devVars, toolVars, faults, foreign, history>>

-----------------------------------------------------------------------------
(* The command line                                                        *)

CommandLines ==
  [cmd : Commands, region : Regions, key : Keys \cup {NoKey},
   start : StartBlocks, num : BlockCounts, file : FileBlocks,
   geometry : Geometries]

\* verify_rpmb_arg: the commands that need a key, and the defaults of a write.
Legal(o) == o.cmd \in {"AUTHENTICATION_KEY", "WRITE_RPMB"} <=> o.key # NoKey

\* What a command does not look at has one value for all of them.
Any(S) == CHOOSE x \in S : TRUE

Distinct(o) ==
  /\ o.cmd \notin {"READ_RPMB", "WRITE_RPMB"} =>
       /\ o.start = Any(StartBlocks) /\ o.num = Any(BlockCounts)
       /\ o.geometry = Any(Geometries)
  /\ o.cmd # "WRITE_RPMB" => o.file = Any(FileBlocks)

Default(given, value) == IF given = NotGiven THEN value ELSE given

Verified(o) ==
  IF o.cmd = "WRITE_RPMB"
    THEN [o EXCEPT !.num = Default(@, 1), !.start = Default(@, 0)]
    ELSE o

Writing == job.cmd = "WRITE_RPMB"
Reading == job.cmd = "READ_RPMB"

-----------------------------------------------------------------------------
(* Requests                                                                *)

\* max_num_blocks; only the write loop corrects a size of 0.
MaxBlocks ==
  CASE job.geometry = NotGiven -> DefaultBlocks
    [] job.geometry = 0 -> IF Writing THEN 1 ELSE 0
    [] OTHER -> job.geometry

\* Mutant: every chunk is a full one.
FullChunk == MaxBlocks

\* num_read_blocks and num_write_blocks.
Chunk == IF left > MaxBlocks THEN MaxBlocks ELSE left

Done == job.num - left

\* start_addr in a 16-bit field; -1 becomes 0xFFFF, which is no address.
Wire(a) == IF a = NotGiven THEN MaxAddr + 1 ELSE a

Request(type, a, n, c, mac, block) ==
  [req |-> type, region |-> job.region, addr |-> a, count |-> n,
   counter |-> c, mac |-> mac, first |-> block]

KeyRequest     == Request("WRITE_KEY", 0, 1, 0, job.key, 0)
CounterRequest == Request("READ_CNT", 0, 1, 0, NoKey, 0)

\* Mutant: every chunk is read from the start address.
FirstReadRequest == Request("READ", Wire(job.start), Chunk, 0, NoKey, 0)

ReadRequest == Request("READ", Wire(addr), Chunk, 0, NoKey, 0)

\* Mutant: every chunk starts again with the first block of the file.
RewoundRequest(mac) == Request("WRITE", Wire(addr), Chunk, cnt, mac, 1)

WriteRequest(mac) == Request("WRITE", Wire(addr), Chunk, cnt, mac, Done + 1)

\* arpmb_calc_hmac_sha256 computes the MAC over four uninitialised bytes: it
\* is right if they happen to be zero.
Mac(zero) == IF zero THEN job.key ELSE NoKey

-----------------------------------------------------------------------------
(* do_arpmb_op                                                             *)

Fault == faults < MaxFaults /\ faults' = faults + 1

Answered(f) == DevExecute(f) /\ UNCHANGED faults

\* The call fails; the device may have executed the request all the same.
Failed(f) == Fault /\ (DevExecute(f) \/ UNCHANGED devVars)

\* The result in the answer of a request that was executed.
Outcome(f) == IF f.req \in {"WRITE_KEY", "WRITE"}
                THEN result'[f.region] ELSE resp'[f.region].result

\* Mutant: the result is not looked at.
Delivered(f) == TRUE

Fine(f) == Outcome(f) = "Success"

Exit(rc, text) == pc' = "exit" /\ ret' = rc /\ printed' = text

-----------------------------------------------------------------------------
(* do_arpmb, do_arpmb_key and do_arpmb_read_counter                        *)

\* The device, the key file or the data file cannot be opened.
OpenFails ==
  /\ pc = "start"
  /\ Fault
  /\ Exit("error", "none")
  /\ UNCHANGED <<devVars, job, loopVars, foreign, history>>

\* The return code when a block loop begins is that of do_read_desc.
Begun(place) ==
  pc' = place /\ ret' = IF job.geometry = NotGiven THEN "error" ELSE "ok"

DoArpmb ==
  /\ pc = "start"
  /\ \/ job.cmd = "AUTHENTICATION_KEY" /\ pc' = "key" /\ UNCHANGED <<ret, printed>>
     \/ /\ job.cmd \in {"READ_WRITE_COUNTER", "WRITE_RPMB"}
        /\ pc' = "counter" /\ UNCHANGED <<ret, printed>>
     \/ Reading /\ Begun("read") /\ UNCHANGED printed
     \/ job.cmd = "OTHER" /\ Exit("error", "none")
  /\ UNCHANGED <<devVars, job, loopVars, faults, foreign, history>>

\* A refusal is printed and 0 returned.
DoKey ==
  /\ pc = "key"
  /\ \/ /\ Answered(KeyRequest)
        /\ Exit("ok", IF Fine(KeyRequest) THEN "done" ELSE Outcome(KeyRequest))
     \/ Failed(KeyRequest) /\ Exit("error", "none")
  /\ UNCHANGED <<job, loopVars, foreign, history>>

\* A refusal is printed and 0 returned: a write then begins with counter 0.
DoReadCounter ==
  /\ pc = "counter"
  /\ \/ /\ Answered(CounterRequest)
        /\ cnt' = IF Fine(CounterRequest) THEN resp'[job.region].counter ELSE cnt
        /\ inSync' = (Writing /\ cnt' = counter[job.region])
        /\ \/ Writing /\ Begun("write") /\ UNCHANGED printed
           \/ ~ Writing /\ Exit("ok", IF Fine(CounterRequest) THEN "done"
                                        ELSE Outcome(CounterRequest))
     \/ Failed(CounterRequest) /\ Exit("error", "none") /\ UNCHANGED <<cnt, inSync>>
  /\ resend' = {}
  /\ UNCHANGED <<job, addr, left, buff, out, foreign, zeros, applied>>

-----------------------------------------------------------------------------
(* do_read_arpmb                                                           *)

\* Mutant: the loops go on with nothing left.
NoneOwed == left < 0 \/ addr > MaxAddr

\* Nothing left, or past the last address.
LoopOver == left <= 0 \/ addr > MaxAddr

\* ret is whatever it was, 0 after a chunk that went well.
Returned == Exit(ret, IF ret = "ok" THEN "done" ELSE "none")

ReadEnds ==
  /\ pc = "read"
  /\ LoopOver
  /\ Returned
  /\ UNCHANGED <<devVars, job, loopVars, faults, foreign, history>>

\* calloc fails: ret is whatever it was here as well.
ReadOutOfMemory ==
  /\ pc = "read" /\ ~ LoopOver /\ resend = {}
  /\ Fault
  /\ Returned
  /\ UNCHANGED <<devVars, job, loopVars, foreign, history>>

NextChunk == left' = left - Chunk /\ addr' = addr + Chunk

ReadChunk ==
  /\ pc = "read" /\ ~ LoopOver
  /\ \/ /\ Answered(ReadRequest) /\ Fine(ReadRequest)
        /\ out' = out \o resp'[job.region].blocks
        /\ NextChunk
        /\ ret' = "ok" /\ UNCHANGED <<pc, printed>>
     \/ /\ Answered(ReadRequest) /\ ~ Fine(ReadRequest)
        /\ Exit("error", Outcome(ReadRequest)) /\ UNCHANGED <<addr, left, out>>
     \/ /\ Failed(ReadRequest)
        /\ Exit("error", "none") /\ UNCHANGED <<addr, left, out>>
     \/ /\ DevExecute(ReadRequest) /\ Fine(ReadRequest)
        /\ Fault                        \* write() to the output file fails
        /\ \E k \in 0 .. Len(resp'[job.region].blocks) - 1 :
             out' = out \o SubSeq(resp'[job.region].blocks, 1, k)
        /\ Exit("error", "none") /\ UNCHANGED <<addr, left>>
  /\ resend' = {}
  /\ UNCHANGED <<job, cnt, buff, foreign, history>>

-----------------------------------------------------------------------------
(* do_write_arpmb                                                          *)

\* free(buff) at the end: a pointer no chunk has set may be anything.
WriteEnds ==
  /\ pc = "write"
  /\ LoopOver
  /\ \/ Returned
     \/ buff # "null" /\ pc' = "crashed" /\ UNCHANGED <<ret, printed>>
  /\ UNCHANGED <<devVars, job, loopVars, faults, foreign, history>>

\* The input file ends inside the chunk, or calloc fails.
WriteGivesUp ==
  /\ pc = "write" /\ ~ LoopOver /\ resend = {}
  /\ \/ Done + Chunk > job.file /\ UNCHANGED faults
     \/ Fault
  /\ Exit("error", "none")
  /\ buff' = "null"
  /\ UNCHANGED <<devVars, job, addr, left, cnt, out, resend, foreign, history>>

\* Mutants: the counter is not advanced; the buffer freed is kept.
SameCounter == cnt
Kept == "dangling"

NextCounter == cnt + 1

Freed == "null"

\* The input block the device has now stored.
NoteApplied(f) ==
  applied' = IF counter' # counter THEN f.first + f.count - 1 ELSE applied

\* The MAC is computed once: a command sent again is the same.
SameFrame(zero) == resend \subseteq {zero}

\* After an error, resend still tells whether the chunk was sent before.
WriteChunk(zero) ==
  LET f == WriteRequest(Mac(zero)) IN
  /\ pc = "write" /\ ~ LoopOver
  /\ Done + Chunk <= job.file
  /\ SameFrame(zero)
  /\ \/ /\ Answered(f) /\ Fine(f)
        /\ NextChunk /\ cnt' = NextCounter /\ resend' = {}
        /\ ret' = "ok" /\ UNCHANGED <<pc, printed>>
     \/ /\ Answered(f) /\ ~ Fine(f)
        /\ Exit("error", Outcome(f)) /\ UNCHANGED <<addr, left, cnt, resend>>
     \/ /\ Failed(f)
        /\ Exit("error", "none") /\ UNCHANGED <<addr, left, cnt, resend>>
  /\ buff' = Freed
  /\ zeros' = (zeros /\ zero)
  /\ NoteApplied(f)
  /\ UNCHANGED <<job, out, foreign, inSync>>

-----------------------------------------------------------------------------
(* send_bsg_scsi_trs                                                       *)

\* The tool is inside a command.
Calling ==
  \/ pc \in {"key", "counter"}
  \/ pc = "read" /\ ~ LoopOver
  \/ pc = "write" /\ ~ LoopOver /\ Done + Chunk <= job.file

Sent(zero) == CASE pc = "key"     -> KeyRequest
                [] pc = "counter" -> CounterRequest
                [] pc = "read"    -> ReadRequest
                [] pc = "write"   -> WriteRequest(Mac(zero))

\* EINTR or EAGAIN: the device executed the command and the answer is lost.
\* The command is sent again, perhaps after another host's; one that was
\* interrupted without being executed leaves nothing behind.
Interrupted(zero) ==
  /\ Calling
  /\ zero \/ pc = "write"
  /\ SameFrame(zero)
  /\ Fault /\ DevExecute(Sent(zero))
  /\ resend' = {zero}
  /\ zeros' = (zeros /\ zero)
  /\ NoteApplied(Sent(zero))
  /\ UNCHANGED <<job, pc, ret, addr, left, cnt, buff, out, printed, foreign,
                 inSync>>

-----------------------------------------------------------------------------
(* The other parties                                                       *)

Stopped == pc \in {"exit", "crashed"}

ForeignWrite ==
  /\ ~ Stopped
  /\ foreign < MaxForeign
  /\ foreign' = foreign + 1
  /\ \E r \in Regions, a \in Addrs : DevForeignWrite(r, a)
  /\ UNCHANGED <<toolVars, faults, history>>

PurgeEnds ==
  /\ \E r \in Regions : DevPurgeEnds(r)
  /\ UNCHANGED <<toolVars, faults, foreign, history>>

Terminating == Stopped /\ UNCHANGED vars

ToolNext ==
  \/ OpenFails \/ DoArpmb \/ DoKey \/ DoReadCounter
  \/ ReadEnds \/ ReadOutOfMemory \/ ReadChunk
  \/ WriteEnds \/ WriteGivesUp
  \/ \E zero \in BOOLEAN : WriteChunk(zero) \/ Interrupted(zero)

Next == ToolNext \/ ForeignWrite \/ PurgeEnds \/ Terminating

Init ==
  /\ DevInit
  /\ \E o \in CommandLines : Legal(o) /\ Distinct(o) /\ job = Verified(o)
  /\ pc = "start" /\ ret = "error" /\ printed = "none"
  /\ addr = job.start /\ left = job.num /\ cnt = 0 /\ buff = "unset" /\ out = << >>
  /\ resend = {}
  /\ faults = 0 /\ foreign = 0
  /\ zeros = TRUE /\ inSync = FALSE /\ applied = 0

Spec     == Init /\ [][Next]_vars
FairSpec == Spec /\ WF_vars(ToolNext /\ UNCHANGED faults)

-----------------------------------------------------------------------------
(* Properties                                                              *)

Jobs == [cmd : AllCommands, region : Regions, key : Keys \cup {NoKey},
         start : Int, num : Int, file : Nat, geometry : Nat \cup {NotGiven}]

Places == {"start", "key", "counter", "read", "write", "exit", "crashed"}

\* Every variable stays in its type; the block loops never count below zero,
\* where only an option that was not given begins.
TypeOK ==
  /\ DevTypeOK
  /\ job \in Jobs
  /\ pc \in Places
  /\ ret \in {"ok", "error"}
  /\ addr \in Int /\ addr >= NotGiven /\ cnt \in Nat
  /\ left \in Int /\ (left < 0 => left = job.num)
  /\ buff \in {"unset", "null", "dangling"}
  /\ out \in Seq(Int)
  /\ resend \subseteq BOOLEAN
  /\ printed \in {"none", "done"} \cup Failures
  /\ faults \in 0 .. MaxFaults /\ foreign \in 0 .. MaxForeign
  /\ zeros \in BOOLEAN /\ inSync \in BOOLEAN
  /\ applied \in Int

Here == data[job.region]

\* Whatever call fails, with its request executed or not, and whatever other
\* hosts write in between: the blocks of a write that reached the device
\* (do_write_arpmb) are the first ones of the input file, at their addresses,
\* and the tool itself changed nothing else.
PrefixOnly ==
  Writing =>
    \A a \in Addrs :
      Here[a] \in {Foreign, IF a \in job.start .. (job.start + applied - 1)
                              THEN a - job.start + 1
                              ELSE Earlier(job.region, a)}

\* The counter of do_write_arpmb is the device's: a chunk costs one value, and
\* only a chunk whose answer was lost, because the run ended with its command
\* or because the command will be sent again, is not counted.
CountersAgree ==
  (Writing /\ inSync /\ foreign = 0) =>
    IF pc = "write" /\ resend = {}
      THEN counter[job.region] = cnt /\ applied = Done
      ELSE counter[job.region] - cnt = IF applied = Done THEN 0 ELSE 1

\* A write that ends with an error leaves the device with the chunks counted
\* as done and at most the one under way besides.  An error that names the
\* device's refusal leaves the first only, unless the refused chunk had been
\* executed, interrupted and sent again: then the refusal is one the device's
\* own step of the counter causes, and never another.
ErrorLeavesKnownState ==
  (Writing /\ pc \in {"exit", "crashed"}) =>
    /\ applied \in {Done, Done + Chunk}
    /\ (printed # "none" /\ applied # Done) =>
         resend # {} /\ printed \in {"Counter failure", "Write failure"}

\* "Finish to write ARPMB data": the device holds every block of the request
\* the address space has room for.
TrueWrite ==
  (Writing /\ printed = "done") =>
    \A i \in 1 .. job.num :
      job.start + i - 1 <= MaxAddr => Here[job.start + i - 1] \in {i, Foreign}

\* "Finish to read ARPMB data" when no call failed: the output file holds the
\* region's blocks in order, up to the number or the end of the address space.
\* Without -n that number is -1 and nothing is read: HelpDefaults of
\* HelpDefaults.tla says what the help makes of that.
TrueRead ==
  (Reading /\ printed = "done" /\ faults = 0) =>
    /\ \A i \in 1 .. Len(out) : Here[job.start + i - 1] \in {out[i], Foreign}
    /\ Len(out) >= job.num \/ job.start + Len(out) > MaxAddr

\* With no failing call, no other host and the right padding, a write or a
\* read from an address the user gave ends with an error only for a reason of
\* the device or of the input.  A read without -s, which the help allows and
\* the device refuses, is a case of HelpDefaults in HelpDefaults.tla.
RefusedForAReason ==
  (pc = "exit" /\ (Reading \/ Writing) /\ ret = "error" /\
   faults = 0 /\ foreign = 0 /\ zeros /\ job.start # NotGiven) =>
    \/ key[job.region] = NoKey
    \/ purge[job.region] # "none"
    \/ Writing /\ (key[job.region] # job.key \/ counter[job.region] = CounterMax
                     \/ job.file < job.num)
    \/ job.start + job.num > MaxAddr + 1
    \/ job.num < 1 /\ job.geometry = NotGiven

\* The free of a pointer nobody set can only hit a run that has transferred
\* nothing: one that starts beyond the last address, or with no blocks.
CrashOnlyAtTheStart ==
  pc = "crashed" =>
    /\ applied = 0
    /\ job.start > MaxAddr \/ job.num = 0

\* The tool comes to its end, except that do_read_arpmb asks for no blocks for
\* ever when bRPMB_ReadWriteSize is 0 and the device grants that.
EndsUnlessEmpty ==
  \/ <>Stopped
  \/ <>[](Reading /\ job.geometry = 0 /\ left > 0)

\* arpmb_calc_hmac_sha256: "After this, four 00h bytes are input into the MAC
\* calculation".  A request with the region's key is then authentic.
AuthenticMac ==
  (Writing /\ key[job.region] = job.key) => printed # "Authentication failure"
=============================================================================

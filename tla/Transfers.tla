----------------------------- MODULE Transfers -----------------------------
(***************************************************************************)
(* "ufs-utils ffu", "vendor" and "err_hist" (ufs_ffu.c, ufs_vendor.c,      *)
(* ufs_err_hist.c): any number of runs after each other against one        *)
(* device, each of which may be killed between any two calls.  A step is   *)
(* one ioctl and the code up to the next.                                  *)
(*                                                                         *)
(* send_scsi_cmd repeats an interrupted call.  All requests here name the  *)
(* place they read or write, so a call the device executed twice leaves    *)
(* what it leaves when executed once, and is not told apart.               *)
(***************************************************************************)
EXTENDS BufferDevice

CONSTANTS
  Align,        \* ALIGNMENT_CHUNK_SIZE, 4 KB
  MaxIo,        \* MAX_IOCTL_BUF_SIZE, 256 KB
  Word,         \* 2^32
  ByteSpan,     \* 2^8
  EntrySize,    \* sizeof(struct ehs_directory_entry)
  MaxEntries,   \* EHS_MAX_ENTRIES
  BlockSize,    \* BLOCK_SIZE, the default length of the vendor command
  SizeOptions,  \* arguments of -s of ffu
  Offsets, Lengths,   \* arguments of -O and -L of vendor
  Directories,  \* what the device may answer for the directory
  MaxRuns,      \* bound: how often the tool is started
  MaxFaults     \* bound: calls that fail, get lost or come back short

NotGiven == -1

ASSUME SizesAssumption ==
  /\ Align \in Nat \ {0} /\ MaxIo \in Nat \ {0} /\ Word \in Nat
  /\ MaxIo % Align = 0 /\ Span % MaxIo = 0 /\ MaxIo < Word
  /\ \A f \in Files : FileSize[f] < Word
ASSUME OptionsAssumption ==
  /\ SizeOptions \subseteq Int
  /\ Offsets \subseteq Nat /\ Lengths \subseteq Nat /\ BlockSize \in Nat
ASSUME HistoryAssumption ==
  /\ EntrySize \in Nat \ {0} /\ MaxEntries \in Nat /\ ByteSpan \in Nat
  /\ MaxEntries < ByteSpan
  /\ Directories \subseteq
       [length : Nat,
        entries : [1 .. MaxEntries -> [id : Names, len : Nat]]]
ASSUME TransferBounds == MaxRuns \in Nat /\ MaxFaults \in Nat

VARIABLES
  cmd,          \* the options of this run
  pc,           \* the call the tool makes next
  off,          \* buf_offset of flash_ffu, sent of log_ehs_buffer
  left,         \* file_size of flash_ffu
  listed,       \* ehs_dir->entries
  cnt, entry,   \* buffers_cnt and i of log_error_history
  buf,          \* the buffer of log_ehs_buffer
  rc,           \* what the command function returns
  said,         \* the message of success
  saved,        \* error_history.dat, a part for every buffer begun
  vfile,        \* read_vendor_buffer.dat
  runs, faults,
  trouble,      \* history: what went wrong with the calls of this run
  holes,        \* history: a read of what error_history.dat holds was short
  base,         \* history: the image when the run started
  header        \* history: the directory read last

flashVars   == <<off, left>>
historyVars == <<listed, cnt, entry, buf, saved, holes, header>>
endVars     == <<pc, rc, said>>
envVars     == <<runs, faults, trouble>>
vars == <<devVars, cmd, flashVars, historyVars, endVars, envVars, vfile, base>>

MinOf(a, b) == IF a < b THEN a ELSE b

\* A call or a file operation goes wrong; how is remembered.
Fault(kind) ==
  /\ faults < MaxFaults
  /\ faults' = faults + 1
  /\ trouble' = trouble \cup {kind}
  /\ UNCHANGED runs

Quiet == UNCHANGED envVars

Leave(code, message) == pc' = "idle" /\ rc' = code /\ said' = message
Fails(code) == Leave(code, "none")
Goes(place) == pc' = place /\ UNCHANGED <<rc, said>>

-----------------------------------------------------------------------------
(* ffu                                                                     *)

\* options->size is an int; -s is multiplied by 1024 without a check.
AsInt(s) == ((s + Word \div 2) % Word) - Word \div 2

\* Mutant: -s 0 is accepted.
AnySize(s) == AsInt(s) <= MaxIo /\ AsInt(s) % Align = 0

\* verify_and_set_ffu_chunk_size: negative sizes pass, and a product of 2^32,
\* which is 0 as an int.
SizeAccepted(s) == s # 0 /\ AsInt(s) <= MaxIo /\ AsInt(s) % Align = 0

\* uint32_t chunk_size = opt->size
ChunkSize(s) == s % Word

FlashSizes == {MaxIo} \cup {s \in SizeOptions : SizeAccepted(s)}

FlashOptions ==
  {[op |-> "flash", file |-> f, sg |-> g, size |-> s, chunk |-> ChunkSize(s)] :
     f \in Files, g \in {3, 4}, s \in FlashSizes}

FileFlashable(f) == FileSize[f] > 0 /\ FileSize[f] % Align = 0

Begin(c) ==
  /\ pc = "idle" /\ runs < MaxRuns
  /\ runs' = runs + 1
  /\ cmd' = c /\ base' = image

\* Opening the device, a file or allocating memory fails.
NotStarted(c, code) ==
  /\ Begin(c)
  /\ faults < MaxFaults /\ faults' = faults + 1 /\ trouble' = {"failed"}
  /\ Fails(code)
  /\ off' = 0 /\ left' = 0
  /\ UNCHANGED <<devVars, historyVars, vfile>>

Started(c, place, size) ==
  /\ Begin(c)
  /\ trouble' = {} /\ UNCHANGED faults
  /\ pc' = place /\ rc' = "INVALID" /\ said' = "none"
  /\ off' = 0 /\ left' = size
  /\ UNCHANGED <<devVars, historyVars, vfile>>

\* A run that ends before its first call: the input file is refused.
Refused(c) ==
  /\ Begin(c)
  /\ trouble' = {} /\ UNCHANGED faults
  /\ Fails("INVALID")
  /\ off' = 0 /\ left' = 0
  /\ UNCHANGED <<devVars, historyVars, vfile>>

StartFlash ==
  \E c \in FlashOptions :
    \/ FileFlashable(c.file) /\ Started(c, "flash", FileSize[c.file])
    \/ ~ FileFlashable(c.file) /\ Refused(c)
    \/ NotStarted(c, "INVALID")

\* Mutant: the last portion is as long as the others.
WholeChunks == cmd.chunk

WriteCount == MinOf(left, cmd.chunk)

\* The device takes the portion.
TakesPortion ==
  DevFlash(cmd.file, off, WriteCount) /\ UNCHANGED vendor

NextPortion ==
  /\ off' = off + WriteCount
  /\ left' = left - WriteCount
  /\ IF left' > 0 THEN Goes("flash") ELSE Leave("OK", "flashed")

WritePortion ==
  /\ pc = "flash"
  /\ \/ WriteCount <= HostMax /\ TakesPortion /\ NextPortion /\ Quiet
     \/ cmd.sg = 3 /\ Fault("lost") /\ NextPortion /\ UNCHANGED devVars
     \/ /\ Fault("failed")
        /\ TakesPortion \/ UNCHANGED devVars
        /\ Fails("EINVAL") /\ UNCHANGED flashVars
     \/ /\ WriteCount > HostMax /\ Quiet
        /\ Fails("EINVAL") /\ UNCHANGED <<devVars, flashVars>>
  /\ UNCHANGED <<cmd, historyVars, vfile, base>>

\* check_ffu_status: one attribute, then the device descriptor.
StatusOptions == [op : {"status"}]

StartStatus ==
  \E c \in StatusOptions : Started(c, "status", 0) \/ NotStarted(c, "ERROR")

ReadStatus ==
  /\ pc \in {"status", "version"}
  /\ \/ /\ IF pc = "status" THEN Goes("version") ELSE Leave("OK", "status")
        /\ Quiet
     \/ Fault("failed") /\ Fails("ERROR")
  /\ UNCHANGED <<devVars, cmd, flashVars, historyVars, vfile, base>>

-----------------------------------------------------------------------------
(* vendor                                                                  *)

\* verify_arg_and_set_default gives -L a default, and -O none.
Defaulted(l) == IF l = NotGiven THEN BlockSize ELSE l

VendorLengths == {Defaulted(l) : l \in Lengths \cup {NotGiven}}

ReadOptions ==
  [op : {"vread"}, id : VendorIds, offset : Offsets \cup {NotGiven},
   len : VendorLengths]
WriteOptions ==
  [op : {"vwrite"}, id : VendorIds, offset : Offsets \cup {NotGiven},
   len : VendorLengths, file : Files, sg : {3, 4}]

LongEnough(c) == FileSize[c.file] > 0 /\ FileSize[c.file] >= c.len

StartVendorRead ==
  \E c \in ReadOptions : Started(c, "vread", 0) \/ NotStarted(c, "INVALID")

StartVendorWrite ==
  \E c \in WriteOptions :
    \/ LongEnough(c) /\ Started(c, "vwrite", 0)
    \/ ~ LongEnough(c) /\ Refused(c)
    \/ NotStarted(c, "ERROR")

\* The host adapter and the device accept the transfer.
Acceptable == cmd.len <= HostMax /\ InVendorBuffer(cmd.offset, cmd.len)

StoreVendor ==
  DevVendorWrite(cmd.id, cmd.file, cmd.offset, cmd.len) /\ UNCHANGED image

VendorWrite ==
  /\ pc = "vwrite"
  /\ \/ Acceptable /\ StoreVendor /\ Quiet /\ Leave("OK", "vwritten")
     \/ /\ cmd.sg = 3 /\ Fault("lost")
        /\ UNCHANGED devVars /\ Leave("OK", "vwritten")
     \/ /\ Fault("failed")
        /\ (Acceptable /\ StoreVendor) \/ UNCHANGED devVars
        /\ Fails("EINVAL")
     \/ ~ Acceptable /\ Quiet /\ UNCHANGED devVars /\ Fails("EINVAL")
  /\ UNCHANGED <<cmd, flashVars, historyVars, vfile, base>>

\* malloc
JunkOf(n) == [j \in 1 .. n |-> Junk]

\* Mutant: the whole buffer is taken for the device's data from its beginning.
AnswerFromStart(k) == Received(JunkOf(cmd.len), VendorAnswer(cmd.id, 0, k))

\* p_data after a read that brought k units.
VendorData(k) ==
  Received(JunkOf(cmd.len), VendorAnswer(cmd.id, cmd.offset, k))

\* The result of write_file is not looked at.
WriteVendorFile(k) ==
  \/ vfile' = VendorData(k) /\ Quiet
  \/ Fault("file") /\ vfile' \in {vfile, <<>>}

VendorRead ==
  /\ pc = "vread"
  /\ \/ Acceptable /\ WriteVendorFile(cmd.len) /\ Leave("OK", "vread")
     \/ \E k \in 0 .. cmd.len - 1 :
          /\ Acceptable \/ k = 0
          /\ Fault("short") /\ vfile' = VendorData(k)
          /\ Leave("OK", "vread")
     \/ Fault("failed") /\ Fails("EINVAL") /\ UNCHANGED vfile
     \/ ~ Acceptable /\ Quiet /\ Fails("EINVAL") /\ UNCHANGED vfile
  /\ UNCHANGED <<devVars, cmd, flashVars, historyVars, base>>

-----------------------------------------------------------------------------
(* err_hist                                                                *)

Cleared == [j \in 1 .. MaxIo |-> Zero]

\* Mutant: the buffer keeps the last portion.
Uncleared(b) == b

\* memset after every portion.
Wiped(b) == Cleared

HistoryOptions == [op : {"history"}]

StartHistory ==
  \E c \in HistoryOptions : Started(c, "dir", 0) \/ NotStarted(c, "ERROR")

NoEntry == [id |-> "zero", len |-> 0]

\* The directory of which the device sends k entries, or not even the header.
Cut(d, k) ==
  [d EXCEPT !.entries =
     [e \in 1 .. MaxEntries |-> IF e <= k THEN d.entries[e] ELSE NoEntry]]

\* *buffers_cnt, a byte
BufferCount(d) == (d.length \div EntrySize) % ByteSpan

\* decode_ehs_directory
Decodes(d) ==
  /\ d.length > 0 /\ d.length % EntrySize = 0
  /\ BufferCount(d) <= MaxEntries

MaxAvail == (Span - 1) + (Span - 1)

\* Mutant: the longest buffer is refused.
EntryShort(e) == e.id \in HistoryIds /\ e.len > 0 /\ e.len < MaxAvail

EntryLegal(e) == e.id \in HistoryIds /\ e.len > 0 /\ e.len <= MaxAvail

\* The loop of log_error_history reaches entry i, with the result so far.
AtEntry(i, d, n, code) ==
  /\ entry' = i
  /\ off' = 0 /\ UNCHANGED left
  /\ \/ i > n /\ Leave("OK", "history")
     \/ /\ i <= n /\ EntryLegal(d[i])
        /\ pc' = "log" /\ rc' = code /\ UNCHANGED said
     \/ /\ i <= n /\ ~ EntryLegal(d[i])
        /\ Leave(code, IF code = "OK" THEN "history" ELSE "none")

\* log_error_history begins: the file is emptied.
LogBegins(d, short) ==
  /\ listed' = d.entries /\ cnt' = BufferCount(d) /\ header' = d
  /\ buf' = Cleared
  /\ holes' = short
  /\ AtEntry(1, d.entries, BufferCount(d), "EINVAL")

\* Left before error_history.dat is touched.
HistoryRefused(d) ==
  /\ Fails("EINVAL") /\ header' = d
  /\ UNCHANGED <<flashVars, listed, cnt, entry, buf, saved, holes>>

ReadDirectory ==
  /\ pc = "dir"
  /\ \/ \E d \in Directories :
          /\ Decodes(d) /\ Quiet
          /\ LogBegins(d, FALSE) /\ saved' = <<>>
     \/ \E d \in Directories : ~ Decodes(d) /\ Quiet /\ HistoryRefused(d)
     \/ \E d \in Directories, k \in 0 .. MaxEntries - 1 :
          /\ Decodes(d) /\ Fault("short")
          /\ LogBegins(Cut(d, k), TRUE) /\ saved' = <<>>
     \/ \E kind \in {"failed", "short", "file"} :
          Fault(kind) /\ HistoryRefused(header)
  /\ UNCHANGED <<devVars, cmd, vfile, base>>

ReadCount == MinOf(listed[entry].len - off, MaxIo)

\* buf after a read that brought k units.
Portion(k) ==
  Received(buf, HistoryAnswer(listed[entry].id, off, k))

\* The file grows by the first n units of the buffer.
Grow(b, n) ==
  saved' = IF off = 0
             THEN Append(saved, SubSeq(b, 1, n))
             ELSE [saved EXCEPT ![entry] = @ \o SubSeq(b, 1, n)]

PortionLogged(k) ==
  /\ Grow(Portion(k), ReadCount)
  /\ buf' = Wiped(Portion(k))
  /\ IF off + ReadCount < listed[entry].len
       THEN /\ off' = off + ReadCount
            /\ Goes("log") /\ UNCHANGED <<entry, left>>
       ELSE AtEntry(entry + 1, listed, cnt, "OK")

\* write_single_fad fails, some of the portion may be written.
LogFails ==
  /\ Fault("file") /\ Fails("EIO")
  /\ \E n \in 0 .. ReadCount - 1 : Grow(Portion(ReadCount), n)
  /\ UNCHANGED <<entry, flashVars, buf, holes>>

ReadPortion ==
  /\ pc = "log"
  /\ \/ Quiet /\ PortionLogged(ReadCount) /\ UNCHANGED holes
     \/ \E k \in 0 .. ReadCount - 1 :
          Fault("short") /\ PortionLogged(k) /\ holes' = TRUE
     \/ LogFails
     \/ /\ Fault("failed") /\ Fails("EINVAL")
        /\ UNCHANGED <<entry, flashVars, buf, saved, holes>>
  /\ UNCHANGED <<devVars, cmd, vfile, base, listed, cnt, header>>

-----------------------------------------------------------------------------
\* The tool is killed; what it wrote stays.
Kill ==
  /\ pc # "idle"
  /\ Fails("KILLED")
  /\ UNCHANGED <<devVars, cmd, flashVars, historyVars, envVars, vfile, base>>

Init ==
  /\ DevInit
  /\ cmd = [op |-> "none"] /\ pc = "idle" /\ rc = "NONE" /\ said = "none"
  /\ off = 0 /\ left = 0
  /\ listed = [e \in 1 .. MaxEntries |-> NoEntry] /\ cnt = 0 /\ entry = 0
  /\ buf = Cleared /\ saved = <<>> /\ vfile = <<>> /\ holes = FALSE
  /\ header = [length |-> 0, entries |-> listed]
  /\ runs = 0 /\ faults = 0 /\ trouble = {}
  /\ base = image

Start ==
  \/ StartFlash \/ StartStatus \/ StartVendorRead \/ StartVendorWrite
  \/ StartHistory

Call ==
  \/ WritePortion \/ ReadStatus \/ VendorWrite \/ VendorRead
  \/ ReadDirectory \/ ReadPortion

Next == Start \/ Call \/ Kill

\* A process that runs makes its next call, and every call returns.
Spec == Init /\ [][Next]_vars /\ WF_vars(Call)

-----------------------------------------------------------------------------
Operations == {"none", "flash", "status", "vread", "vwrite", "history"}
Places     == {"idle", "flash", "status", "version", "vread", "vwrite", "dir",
               "log"}
Codes      == {"NONE", "OK", "INVALID", "ERROR", "EINVAL", "EIO", "KILLED"}
Messages   == {"none", "flashed", "status", "vread", "vwritten", "history"}
Troubles   == {"failed", "lost", "short", "file"}
Entries    == [1 .. MaxEntries -> [id : Names, len : Nat]]

Commands ==
  FlashOptions \cup StatusOptions \cup ReadOptions \cup WriteOptions
    \cup HistoryOptions \cup {[op |-> "none"]}

\* Types.  That buf has MaxIo units and entry is within the directory while the
\* tool logs is what keeps the code of ufs_err_hist.c inside its memory.
TypeOK ==
  /\ DevTypeOK
  /\ cmd \in Commands /\ pc \in Places /\ rc \in Codes /\ said \in Messages
  /\ off \in Nat /\ left \in Nat
  /\ listed \in Entries /\ cnt \in 0 .. MaxEntries /\ entry \in Nat
  /\ pc = "log" => entry \in 1 .. cnt
  /\ buf \in [1 .. MaxIo -> Cells]
  /\ saved \in Seq(Seq(Cells)) /\ vfile \in Seq(Cells)
  /\ runs \in Nat /\ faults \in Nat /\ trouble \subseteq Troubles
  /\ holes \in BOOLEAN
  /\ base \in [Range24 -> Cells]
  /\ header \in [length : Nat, entries : Entries]

\* A firmware file the offset field of the CDB can address.
Addressable(f) == FileSize[f] <= Span

\* At every moment of a flash, also after an error or when it was killed, the
\* device holds the image it had with a beginning of this file over it: up to
\* buf_offset, and perhaps the portion under way.  A lost call leaves a gap.
FlashedPrefix ==
  cmd.op = "flash" /\ Addressable(cmd.file) =>
    \A c \in Range24 :
      \/ /\ image[c] = <<cmd.file, c>>
         /\ c < off + cmd.chunk /\ c < FileSize[cmd.file]
      \/ /\ image[c] = base[c]
         /\ c >= off \/ c >= FileSize[cmd.file] \/ "lost" \in trouble

\* Every place of error_history.dat holds the unit that belongs there, and a
\* place the device sent nothing for holds zeros, never a leftover of another
\* portion.  The exception is a buffer of more than 2^24 units, which
\* READ_BUF_MAX_AVAIL_LEN lets pass: the offset field of read_buffer wraps, and
\* the rest of the file holds the beginning of the buffer again.
HistoryPlaced ==
  \A e \in DOMAIN saved :
    /\ Len(saved[e]) <= listed[e].len
    /\ \A q \in DOMAIN saved[e] :
         \/ q > Span
         \/ saved[e][q] = <<listed[e].id, q - 1>>
         \/ holes /\ saved[e][q] = Zero

\* What the header of the directory announces.
Announced == header.length \div EntrySize

\* What may keep the history from being complete although the tool says it
\* has created it: 256 or more entries, an illegal one after a legal one,
\* and a read that brought less than was asked for.
Overlooked ==
  \/ Announced >= ByteSpan
  \/ \E e \in 2 .. MaxEntries : e <= Announced /\ ~ EntryLegal(header.entries[e])
  \/ holes

\* The messages of success are true: the device holds the whole file, the
\* vendor buffer is written, or read to the file, and the history is complete,
\* but for the calls and file operations whose failure the code does not look
\* at, and for offsets the CDB cannot hold.
TrueMessage ==
  /\ said # "none" => rc = "OK"
  /\ said = "flashed" /\ "lost" \notin trouble /\ Addressable(cmd.file) =>
       \A c \in 0 .. FileSize[cmd.file] - 1 : image[c] = <<cmd.file, c>>
  /\ said = "vwritten" /\ "lost" \notin trouble /\ cmd.offset \in 0 .. Span - 1 =>
       \A j \in 0 .. cmd.len - 1 :
         vendor[cmd.id][cmd.offset + j] = <<cmd.file, j>>
  /\ said = "vread" /\ trouble = {} /\ cmd.offset \in 0 .. Span - 1 =>
       /\ Len(vfile) = cmd.len
       /\ \A j \in 1 .. cmd.len : vfile[j] = vendor[cmd.id][cmd.offset + j - 1]
  /\ said = "history" /\ ~ Overlooked =>
       /\ Len(saved) = Announced
       /\ \A e \in DOMAIN saved : Len(saved[e]) = listed[e].len

\* A run nothing went wrong in fails only for a reason: the file is refused, a
\* transfer is larger than the host accepts, the place does not exist, or the
\* directory or its first entry is illegal.
RefusedForAReason ==
  rc \in {"INVALID", "ERROR", "EINVAL", "EIO"} /\ pc = "idle" /\ trouble = {} =>
    CASE cmd.op = "flash" ->
           \/ ~ FileFlashable(cmd.file)
           \/ MinOf(cmd.chunk, FileSize[cmd.file]) > HostMax
      [] cmd.op = "vwrite" ->
           \/ FileSize[cmd.file] < cmd.len \/ FileSize[cmd.file] = 0
           \/ cmd.len > HostMax
           \/ cmd.offset = NotGiven \/ Field24(cmd.offset) + cmd.len > VendorSize
      [] cmd.op = "vread" ->
           \/ cmd.len > HostMax
           \/ cmd.offset = NotGiven \/ Field24(cmd.offset) + cmd.len > VendorSize
      [] cmd.op = "history" ->
           \/ ~ Decodes(header)
           \/ header.entries[1].id \notin HistoryIds
           \/ header.entries[1].len \notin 1 .. 2 * (Span - 1)
      [] OTHER -> FALSE

\* Every run ends, but a flash for which -s was a multiple of 2^32 bytes: it
\* writes portions of no bytes for ever.
RunsEnd ==
  pc # "idle" ~>
    \/ pc = "idle"
    \/ pc = "flash" /\ cmd.size # 0 /\ cmd.chunk = 0
=============================================================================

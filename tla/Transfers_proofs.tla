-------------------------- MODULE Transfers_proofs --------------------------
(***************************************************************************)
(* Theorems about Transfers for every size of chunk, portion, file, offset *)
(* field and directory, and every number of runs and failures.             *)
(***************************************************************************)
EXTENDS Transfers, SequenceTheorems, TLAPS

\* Which command makes which call, and how far flash_ffu is in its file.
CmdInv ==
  /\ pc = "flash" => /\ cmd \in FlashOptions /\ left > 0
                     /\ off + left = FileSize[cmd.file]
  /\ pc = "vread"  => cmd \in ReadOptions
  /\ pc = "vwrite" => cmd \in WriteOptions
  /\ pc \in {"dir", "log"} => cmd \in HistoryOptions

TypeInv == TypeOK /\ CmdInv

\* log_ehs_buffer between two portions: the buffer is cleared, and the file
\* holds what was counted.
LogInv ==
  pc = "log" =>
    /\ buf = Cleared /\ off < listed[entry].len
    /\ Len(saved) = IF off = 0 THEN entry - 1 ELSE entry
    /\ off > 0 => Len(saved[entry]) = off

\* A message is given at the end, and the entries before this one are complete.
MsgInv ==
  /\ said # "none" => rc = "OK" /\ pc = "idle"
  /\ pc = "log" =>
       /\ \A e \in 1 .. entry - 1 : Len(saved[e]) = listed[e].len
       /\ cnt = BufferCount(header)
       /\ holes \/ listed = header.entries
       /\ entry = 1 => rc # "OK"

-----------------------------------------------------------------------------
(* Numbers and cells                                                       *)

LEMMA PositiveSizes ==
  /\ Span \in Nat /\ Span > 0 /\ HostMax \in Nat /\ HostMax < Span
  /\ MaxIo \in Nat /\ MaxIo > 0 /\ Word \in Nat /\ Word > 0
  /\ MaxEntries \in Nat /\ ByteSpan \in Nat /\ ByteSpan > 0
  /\ EntrySize \in Nat /\ EntrySize > 0
BY HostAssumption, SizesAssumption, HistoryAssumption

LEMMA ModRange ==
  ASSUME NEW s \in Nat, s # 0, NEW x \in Int
  PROVE  x % s \in 0 .. s - 1
BY SMT

LEMMA ModSmall ==
  ASSUME NEW s \in Nat, NEW x \in 0 .. s - 1
  PROVE  x % s = x
BY SMT

LEMMA ModNotMore ==
  ASSUME NEW s \in Nat, s # 0, NEW x \in Nat
  PROVE  x % s <= x
<1>1. CASE x < s
  BY <1>1, ModSmall
<1>2. CASE x >= s
  BY <1>2, ModRange
<1>3. QED
  BY <1>1, <1>2

LEMMA FieldRange ==
  ASSUME NEW v \in Int
  PROVE  /\ Field24(v) \in Nat /\ Field24(v) < Span
         /\ v \in 0 .. Span - 1 => Field24(v) = v
         /\ v \in Nat => Field24(v) <= v
<1>1. Field24(v) \in 0 .. Span - 1
  BY ModRange, PositiveSizes DEF Field24
<1>2. v \in 0 .. Span - 1 => Field24(v) = v
  BY ModSmall, PositiveSizes DEF Field24
<1>3. v \in Nat => Field24(v) <= v
  BY ModNotMore, PositiveSizes DEF Field24
<1>4. QED
  BY <1>1, <1>2, <1>3, PositiveSizes

LEMMA MinFacts ==
  ASSUME NEW a \in Int, NEW b \in Int
  PROVE  /\ MinOf(a, b) \in Int /\ MinOf(a, b) <= a /\ MinOf(a, b) <= b
         /\ MinOf(a, b) \in {a, b}
BY DEF MinOf

LEMMA NamedCells ==
  /\ \A f \in Files, i \in Nat : <<f, i>> \in Cells
  /\ \A f \in HistoryIds, i \in Nat : <<f, i>> \in Cells
  /\ Zero \in Cells /\ Junk \in Cells /\ Blank \in Cells
BY DEF Cells, Names, Zero, Junk, Blank

LEMMA StoredTyped ==
  ASSUME NEW D \in SUBSET Int, NEW mem \in [D -> Cells], NEW f \in Files,
         NEW at \in Int, NEW n \in Int, NEW first \in Nat
  PROVE  Stored(mem, at, n, f, first) \in [D -> Cells]
<1> DEFINE new(c) == IF at <= c /\ c < at + n
                       THEN <<f, first + (c - at)>> ELSE mem[c]
<1>1. DOMAIN mem = D
  OBVIOUS
<1>2. ASSUME NEW c \in D
      PROVE  new(c) \in Cells
  <2>1. CASE at <= c /\ c < at + n
    <3>1. first + (c - at) \in Nat
      BY <2>1
    <3>2. QED
      BY <2>1, <3>1, NamedCells
  <2>2. CASE ~ (at <= c /\ c < at + n)
    BY <2>2
  <2>3. QED
    BY <2>1, <2>2
<1>3. Stored(mem, at, n, f, first) = [c \in D |-> new(c)]
  BY <1>1 DEF Stored
<1> HIDE DEF new
<1>4. QED
  BY <1>2, <1>3

LEMMA ReceivedTyped ==
  ASSUME NEW D, NEW b \in [D -> Cells], NEW answer,
         \A j \in DOMAIN answer : answer[j] \in Cells
  PROVE  Received(b, answer) \in [D -> Cells]
BY DEF Received

LEMMA ArraysAreSequences ==
  ASSUME NEW n \in Nat, NEW a \in [1 .. n -> Cells]
  PROVE  a \in Seq(Cells) /\ Len(a) = n
OBVIOUS

LEMMA ClearedTyped ==
  Cleared \in [1 .. MaxIo -> Cells]
BY NamedCells DEF Cleared

-----------------------------------------------------------------------------
(* Options                                                                 *)

LEMMA FlashParts ==
  ASSUME NEW c \in FlashOptions
  PROVE  /\ c.op = "flash" /\ c.file \in Files /\ FileSize[c.file] \in Nat
         /\ c.chunk \in Nat /\ c \in Commands
<1>1. \A s \in SizeOptions \cup {MaxIo} : ChunkSize(s) \in Nat
  BY ModRange, PositiveSizes, OptionsAssumption DEF ChunkSize
<1>2. PICK f \in Files, g \in {3, 4}, s \in FlashSizes :
        c = [op |-> "flash", file |-> f, sg |-> g, size |-> s,
             chunk |-> ChunkSize(s)]
  BY DEF FlashOptions
<1>3. c.op = "flash" /\ c.file \in Files /\ c.chunk = ChunkSize(s)
  BY <1>2
<1>4. c.chunk \in Nat
  BY <1>1, <1>3 DEF FlashSizes
<1>5. QED
  BY <1>3, <1>4, FilesAssumption DEF Commands

LEMMA VendorLengthsTyped ==
  VendorLengths \subseteq Nat
BY OptionsAssumption DEF VendorLengths, Defaulted, NotGiven

LEMMA ReadParts ==
  ASSUME NEW c \in ReadOptions
  PROVE  /\ c.op = "vread" /\ c.id \in VendorIds /\ c.offset \in Int
         /\ c.len \in Nat /\ c \in Commands
<1>1. c \in Commands
  BY DEF Commands
<1>2. Offsets \cup {NotGiven} \subseteq Int
  BY OptionsAssumption DEF NotGiven
<1>3. /\ c.op = "vread" /\ c.id \in VendorIds /\ c.len \in VendorLengths
      /\ c.offset \in Offsets \cup {NotGiven}
  BY DEF ReadOptions
<1>4. QED
  BY <1>1, <1>2, <1>3, VendorLengthsTyped

LEMMA WriteParts ==
  ASSUME NEW c \in WriteOptions
  PROVE  /\ c.op = "vwrite" /\ c.id \in VendorIds /\ c.offset \in Int
         /\ c.len \in Nat /\ c.file \in Files /\ c \in Commands
<1>1. c \in Commands
  BY DEF Commands
<1>2. Offsets \cup {NotGiven} \subseteq Int
  BY OptionsAssumption DEF NotGiven
<1>3. /\ c.op = "vwrite" /\ c.id \in VendorIds /\ c.len \in VendorLengths
      /\ c.offset \in Offsets \cup {NotGiven} /\ c.file \in Files
  BY DEF WriteOptions
<1>4. QED
  BY <1>1, <1>2, <1>3, VendorLengthsTyped

LEMMA OtherParts ==
  /\ \A c \in StatusOptions : c.op = "status" /\ c \in Commands
  /\ \A c \in HistoryOptions : c.op = "history" /\ c \in Commands
BY DEF StatusOptions, HistoryOptions, Commands

\* The command that makes a call, whatever its other options are.
LEMMA CommandOfPlace ==
  ASSUME TypeInv
  PROVE  /\ pc = "flash"  => cmd.op = "flash"
         /\ pc = "vread"  => cmd.op = "vread"
         /\ pc = "vwrite" => cmd.op = "vwrite"
         /\ pc \in {"dir", "log"} => cmd.op = "history"
BY FlashParts, ReadParts, WriteParts, OtherParts DEF TypeInv, CmdInv

LEMMA CommandOfOp ==
  ASSUME NEW c \in Commands
  PROVE  /\ c.op = "flash"  => c \in FlashOptions
         /\ c.op = "vread"  => c \in ReadOptions
         /\ c.op = "vwrite" => c \in WriteOptions
BY DEF Commands, FlashOptions, StatusOptions, ReadOptions, WriteOptions,
       HistoryOptions

-----------------------------------------------------------------------------
(* Types: the beginning of a run                                           *)

LEMMA StartedTyped ==
  ASSUME TypeInv, NEW c \in Commands, NEW place \in Places \ {"log"},
         NEW size \in Nat, Started(c, place, size),
         place = "flash" => /\ c \in FlashOptions
                            /\ size > 0 /\ size = FileSize[c.file],
         place = "vread" => c \in ReadOptions,
         place = "vwrite" => c \in WriteOptions,
         place = "dir" => c \in HistoryOptions
  PROVE  TypeInv'
<1> USE DEF TypeInv, Started, Begin
<1>1. DevTypeOK' /\ base' \in [Range24 -> Cells]
  BY DEF TypeOK, DevTypeOK, devVars
<1>2. /\ cmd' \in Commands /\ pc' \in Places /\ rc' \in Codes
      /\ said' \in Messages /\ off' \in Nat /\ left' \in Nat
      /\ pc' # "log" /\ vfile' \in Seq(Cells)
      /\ runs' \in Nat /\ faults' \in Nat /\ trouble' \subseteq Troubles
  BY DEF TypeOK, Codes, Messages, Troubles
<1>3. /\ listed' \in Entries /\ cnt' \in 0 .. MaxEntries /\ entry' \in Nat
      /\ buf' \in [1 .. MaxIo -> Cells] /\ saved' \in Seq(Seq(Cells))
      /\ holes' \in BOOLEAN /\ header' \in [length : Nat, entries : Entries]
  BY DEF TypeOK, historyVars
<1>4. TypeOK'
  BY <1>1, <1>2, <1>3 DEF TypeOK
<1>5. CmdInv'
  BY DEF CmdInv
<1>6. QED
  BY <1>4, <1>5

LEMMA EndedTyped ==
  ASSUME TypeInv, NEW c \in Commands, NEW code \in Codes,
         NotStarted(c, code) \/ Refused(c)
  PROVE  TypeInv'
<1> USE DEF TypeInv, NotStarted, Refused, Begin, Fails, Leave
<1>1. DevTypeOK' /\ base' \in [Range24 -> Cells]
  BY DEF TypeOK, DevTypeOK, devVars
<1>2. /\ cmd' \in Commands /\ pc' \in Places /\ rc' \in Codes
      /\ said' \in Messages /\ off' \in Nat /\ left' \in Nat
      /\ pc' = "idle" /\ vfile' \in Seq(Cells)
      /\ runs' \in Nat /\ faults' \in Nat /\ trouble' \subseteq Troubles
  BY DEF TypeOK, Places, Codes, Messages, Troubles
<1>3. /\ listed' \in Entries /\ cnt' \in 0 .. MaxEntries /\ entry' \in Nat
      /\ buf' \in [1 .. MaxIo -> Cells] /\ saved' \in Seq(Seq(Cells))
      /\ holes' \in BOOLEAN /\ header' \in [length : Nat, entries : Entries]
  BY DEF TypeOK, historyVars
<1>4. TypeOK'
  BY <1>1, <1>2, <1>3 DEF TypeOK
<1>5. CmdInv'
  BY <1>2 DEF CmdInv
<1>6. QED
  BY <1>4, <1>5

LEMMA StartTyped ==
  ASSUME TypeInv, Start
  PROVE  TypeInv'
<1> USE DEF Places, Codes
<1>1. CASE StartFlash
  <2>1. PICK c \in FlashOptions :
          \/ FileFlashable(c.file) /\ Started(c, "flash", FileSize[c.file])
          \/ NotStarted(c, "INVALID") \/ Refused(c)
    BY <1>1 DEF StartFlash
  <2>2. FileFlashable(c.file) => FileSize[c.file] > 0
    BY DEF FileFlashable
  <2>3. QED
    BY <2>1, <2>2, FlashParts, StartedTyped, EndedTyped
<1>2. CASE StartStatus
  BY <1>2, OtherParts, StartedTyped, EndedTyped DEF StartStatus
<1>3. CASE StartVendorRead
  BY <1>3, ReadParts, StartedTyped, EndedTyped DEF StartVendorRead
<1>4. CASE StartVendorWrite
  <2>1. PICK c \in WriteOptions :
          \/ Started(c, "vwrite", 0)
          \/ NotStarted(c, "ERROR") \/ Refused(c)
    BY <1>4 DEF StartVendorWrite
  <2>2. QED
    BY <2>1, WriteParts, StartedTyped, EndedTyped
<1>5. CASE StartHistory
  BY <1>5, OtherParts, StartedTyped, EndedTyped DEF StartHistory
<1>6. QED
  BY <1>1, <1>2, <1>3, <1>4, <1>5 DEF Start

-----------------------------------------------------------------------------
(* Types: the calls                                                        *)

LEMMA FaultTyped ==
  ASSUME TypeOK, NEW kind \in Troubles, Fault(kind) \/ Quiet
  PROVE  runs' \in Nat /\ faults' \in Nat /\ trouble' \subseteq Troubles
BY DEF TypeOK, Fault, Quiet, envVars

LEMMA FlashTyped ==
  ASSUME TypeOK, cmd \in FlashOptions, TakesPortion \/ UNCHANGED devVars,
         off \in Nat
  PROVE  DevTypeOK'
<1>1. CASE UNCHANGED devVars
  BY <1>1 DEF TypeOK, DevTypeOK, devVars
<1>2. CASE TakesPortion
  <2>1. /\ Range24 \in SUBSET Int /\ image \in [Range24 -> Cells]
        /\ Field24(off) \in Int /\ cmd.file \in Files
    <3>1. image \in [Range24 -> Cells]
      BY DEF TypeOK, DevTypeOK
    <3>2. Range24 \in SUBSET Int
      BY PositiveSizes DEF Range24
    <3>3. QED
      BY <3>1, <3>2, FieldRange, FlashParts
  <2>2. left \in Int /\ cmd.chunk \in Int
    BY FlashParts DEF TypeOK
  <2>3. Field24(WriteCount) \in Int
    <3>1. WriteCount \in Int
      BY <2>2 DEF WriteCount, MinOf
    <3>2. QED
      BY <3>1, FieldRange
  <2>4. image' \in [Range24 -> Cells]
    BY <1>2, <2>1, <2>3, StoredTyped DEF TakesPortion, DevFlash
  <2>5. QED
    BY <1>2, <2>4 DEF TakesPortion, DevTypeOK, TypeOK
<1>3. QED
  BY <1>1, <1>2

LEMMA WritePortionTyped ==
  ASSUME TypeInv, WritePortion
  PROVE  TypeInv'
<1>1. /\ pc = "flash" /\ cmd \in FlashOptions /\ left \in Nat /\ left > 0
      /\ off \in Nat /\ off + left = FileSize[cmd.file]
      /\ cmd.chunk \in Nat /\ TypeOK
  BY FlashParts DEF WritePortion, TypeInv, CmdInv, TypeOK
<1>2. /\ WriteCount \in Nat /\ WriteCount <= left
  BY <1>1 DEF WriteCount, MinOf
<1>3. /\ UNCHANGED <<cmd, historyVars, vfile, base>>
      /\ TakesPortion \/ UNCHANGED devVars
  BY DEF WritePortion
<1>4. DevTypeOK'
  BY <1>1, <1>3, FlashTyped
<1>5. runs' \in Nat /\ faults' \in Nat /\ trouble' \subseteq Troubles
  BY <1>1, FaultTyped DEF WritePortion, Troubles
<1>6. NextPortion \/ (Fails("EINVAL") /\ UNCHANGED flashVars)
  BY DEF WritePortion
<1>7. /\ off' \in Nat /\ left' \in Nat /\ pc' \in {"flash", "idle"}
      /\ rc' \in Codes /\ said' \in Messages
      /\ pc' = "flash" => left' > 0 /\ off' + left' = FileSize[cmd.file]
  <2>1. CASE NextPortion
    <3>1. off' = off + WriteCount /\ left' = left - WriteCount
      BY <2>1 DEF NextPortion
    <3>2. off' \in Nat /\ left' \in Nat /\ off' + left' = FileSize[cmd.file]
      BY <1>1, <1>2, <3>1
    <3>3. \/ left' > 0 /\ pc' = "flash" /\ rc' = rc /\ said' = said
          \/ pc' = "idle" /\ rc' = "OK" /\ said' = "flashed"
      BY <2>1 DEF NextPortion, Goes, Leave
    <3>4. QED
      BY <1>1, <3>2, <3>3 DEF TypeOK, Codes, Messages
  <2>2. CASE Fails("EINVAL") /\ UNCHANGED flashVars
    BY <1>1, <2>2 DEF Fails, Leave, flashVars, Codes, Messages
  <2>3. QED
    BY <1>6, <2>1, <2>2
<1>8. /\ cmd' = cmd /\ cmd' \in Commands /\ pc' \in Places
      /\ vfile' \in Seq(Cells) /\ base' \in [Range24 -> Cells]
      /\ listed' \in Entries /\ cnt' \in 0 .. MaxEntries /\ entry' \in Nat
      /\ buf' \in [1 .. MaxIo -> Cells] /\ saved' \in Seq(Seq(Cells))
      /\ holes' \in BOOLEAN /\ header' \in [length : Nat, entries : Entries]
  BY <1>1, <1>3, <1>7 DEF TypeOK, historyVars, Places
<1>9. TypeOK'
  BY <1>4, <1>5, <1>7, <1>8 DEF TypeOK
<1>10. CmdInv'
  BY <1>1, <1>7, <1>8 DEF CmdInv
<1>11. QED
  BY <1>9, <1>10 DEF TypeInv

LEMMA ReadStatusTyped ==
  ASSUME TypeInv, ReadStatus
  PROVE  TypeInv'
<1>1. /\ TypeOK
      /\ UNCHANGED <<devVars, cmd, flashVars, historyVars, vfile, base>>
  BY DEF TypeInv, ReadStatus
<1>2. runs' \in Nat /\ faults' \in Nat /\ trouble' \subseteq Troubles
  BY <1>1, FaultTyped DEF ReadStatus, Troubles
<1>3. /\ pc' \in {"version", "idle"} /\ rc' \in Codes /\ said' \in Messages
  BY <1>1 DEF ReadStatus, Goes, Fails, Leave, TypeOK, Codes, Messages
<1>4. DevTypeOK' /\ base' \in [Range24 -> Cells]
  BY <1>1 DEF TypeOK, DevTypeOK, devVars
<1>5. /\ cmd' \in Commands /\ pc' \in Places /\ off' \in Nat /\ left' \in Nat
      /\ vfile' \in Seq(Cells)
      /\ listed' \in Entries /\ cnt' \in 0 .. MaxEntries /\ entry' \in Nat
      /\ buf' \in [1 .. MaxIo -> Cells] /\ saved' \in Seq(Seq(Cells))
      /\ holes' \in BOOLEAN /\ header' \in [length : Nat, entries : Entries]
  BY <1>1, <1>3 DEF TypeOK, historyVars, flashVars, Places
<1>6. TypeOK'
  BY <1>2, <1>3, <1>4, <1>5 DEF TypeOK
<1>7. CmdInv'
  BY <1>3 DEF CmdInv
<1>8. QED
  BY <1>6, <1>7 DEF TypeInv

LEMMA KillTyped ==
  ASSUME TypeInv, Kill
  PROVE  TypeInv'
<1>1. /\ TypeOK /\ pc' = "idle" /\ rc' = "KILLED" /\ said' = "none"
      /\ UNCHANGED <<devVars, cmd, flashVars, historyVars, envVars, vfile, base>>
  BY DEF TypeInv, Kill, Fails, Leave
<1>2. DevTypeOK' /\ base' \in [Range24 -> Cells]
  BY <1>1 DEF TypeOK, DevTypeOK, devVars
<1>3. /\ cmd' \in Commands /\ pc' \in Places /\ off' \in Nat /\ left' \in Nat
      /\ rc' \in Codes /\ said' \in Messages /\ vfile' \in Seq(Cells)
      /\ runs' \in Nat /\ faults' \in Nat /\ trouble' \subseteq Troubles
      /\ listed' \in Entries /\ cnt' \in 0 .. MaxEntries /\ entry' \in Nat
      /\ buf' \in [1 .. MaxIo -> Cells] /\ saved' \in Seq(Seq(Cells))
      /\ holes' \in BOOLEAN /\ header' \in [length : Nat, entries : Entries]
  BY <1>1 DEF TypeOK, historyVars, flashVars, envVars, Places, Codes, Messages
<1>4. TypeOK' /\ CmdInv'
  BY <1>1, <1>2, <1>3 DEF TypeOK, CmdInv
<1>5. QED
  BY <1>4 DEF TypeInv

LEMMA StutterTyped ==
  ASSUME TypeInv, UNCHANGED vars
  PROVE  TypeInv'
<1>1. /\ TypeOK /\ CmdInv
      /\ UNCHANGED <<devVars, cmd, flashVars, historyVars, endVars, envVars,
                     vfile, base>>
  BY DEF TypeInv, vars
<1>2. DevTypeOK' /\ base' \in [Range24 -> Cells]
  BY <1>1 DEF TypeOK, DevTypeOK, devVars
<1>3. TypeOK' /\ CmdInv'
  BY <1>1, <1>2
  DEF TypeOK, CmdInv, flashVars, historyVars, endVars, envVars
<1>4. QED
  BY <1>3 DEF TypeInv

LEMMA VendorWriteTyped ==
  ASSUME TypeInv, VendorWrite
  PROVE  TypeInv'
<1>1. /\ TypeOK /\ cmd \in WriteOptions
      /\ UNCHANGED <<cmd, flashVars, historyVars, vfile, base>>
      /\ (Acceptable /\ StoreVendor) \/ UNCHANGED devVars
  BY DEF TypeInv, CmdInv, VendorWrite
<1>2. runs' \in Nat /\ faults' \in Nat /\ trouble' \subseteq Troubles
  BY <1>1, FaultTyped DEF VendorWrite, Troubles
<1>3. pc' = "idle" /\ rc' \in Codes /\ said' \in Messages
  BY DEF VendorWrite, Fails, Leave, Codes, Messages
<1>4. DevTypeOK'
  <2>1. CASE UNCHANGED devVars
    BY <1>1, <2>1 DEF TypeOK, DevTypeOK, devVars
  <2>2. CASE StoreVendor
    <3>1. /\ cmd.id \in VendorIds /\ cmd.file \in Files
          /\ Field24(cmd.offset) \in Int /\ cmd.len \in Int
      BY <1>1, WriteParts, FieldRange
    <3>2. /\ vendor \in [VendorIds -> [0 .. VendorSize - 1 -> Cells]]
          /\ image' \in [Range24 -> Cells]
          /\ 0 .. VendorSize - 1 \in SUBSET Int
      BY <1>1, <2>2 DEF StoreVendor, TypeOK, DevTypeOK
    <3> DEFINE new == Stored(vendor[cmd.id], Field24(cmd.offset), cmd.len,
                             cmd.file, 0)
    <3>3. new \in [0 .. VendorSize - 1 -> Cells]
      BY <3>1, <3>2, StoredTyped
    <3>4. vendor' = [vendor EXCEPT ![cmd.id] = new]
      BY <2>2 DEF StoreVendor, DevVendorWrite
    <3> HIDE DEF new
    <3>5. vendor' \in [VendorIds -> [0 .. VendorSize - 1 -> Cells]]
      BY <3>1, <3>2, <3>3, <3>4
    <3>6. QED
      BY <3>2, <3>5 DEF DevTypeOK
  <2>3. QED
    BY <1>1, <2>1, <2>2
<1>5. /\ cmd' \in Commands /\ pc' \in Places /\ off' \in Nat /\ left' \in Nat
      /\ vfile' \in Seq(Cells) /\ base' \in [Range24 -> Cells]
      /\ listed' \in Entries /\ cnt' \in 0 .. MaxEntries /\ entry' \in Nat
      /\ buf' \in [1 .. MaxIo -> Cells] /\ saved' \in Seq(Seq(Cells))
      /\ holes' \in BOOLEAN /\ header' \in [length : Nat, entries : Entries]
  BY <1>1, <1>3 DEF TypeOK, historyVars, flashVars, Places
<1>6. TypeOK' /\ CmdInv'
  BY <1>2, <1>3, <1>4, <1>5 DEF TypeOK, CmdInv
<1>7. QED
  BY <1>6 DEF TypeInv

\* What read_vendor_buffer.dat is made of.
LEMMA VendorDataTyped ==
  ASSUME TypeOK, cmd \in ReadOptions, NEW k \in 0 .. cmd.len,
         Acceptable \/ k = 0
  PROVE  VendorData(k) \in [1 .. cmd.len -> Cells]
<1>1. /\ cmd.id \in VendorIds /\ cmd.len \in Nat
      /\ Field24(cmd.offset) \in Nat /\ VendorSize \in Nat
      /\ cmd.offset \in Int
  BY ReadParts, FieldRange, VendorAssumption
<1>2. vendor[cmd.id] \in [0 .. VendorSize - 1 -> Cells]
  BY <1>1 DEF TypeOK, DevTypeOK
<1>3. k > 0 => Field24(cmd.offset) + k <= VendorSize
  <2>1. SUFFICES ASSUME k > 0 PROVE Field24(cmd.offset) + k <= VendorSize
    OBVIOUS
  <2>2. cmd.len < Span
    BY <1>1, <2>1, PositiveSizes DEF Acceptable
  <2>3. Field24(cmd.len) = cmd.len
    BY <1>1, <2>2, FieldRange, PositiveSizes
  <2>4. QED
    BY <1>1, <2>1, <2>3 DEF Acceptable, InVendorBuffer
<1>4. \A j \in 1 .. k : vendor[cmd.id][Field24(cmd.offset) + j - 1] \in Cells
  BY <1>1, <1>2, <1>3
<1>5. /\ DOMAIN VendorAnswer(cmd.id, cmd.offset, k) = 1 .. k
      /\ \A j \in 1 .. k : VendorAnswer(cmd.id, cmd.offset, k)[j] \in Cells
  BY <1>4 DEF VendorAnswer
<1>6. JunkOf(cmd.len) \in [1 .. cmd.len -> Cells]
  BY NamedCells DEF JunkOf
<1>7. QED
  BY <1>5, <1>6, ReceivedTyped DEF VendorData

LEMMA VendorReadTyped ==
  ASSUME TypeInv, VendorRead
  PROVE  TypeInv'
<1>1. /\ TypeOK /\ cmd \in ReadOptions /\ cmd.len \in Nat
      /\ UNCHANGED <<devVars, cmd, flashVars, historyVars, base>>
  BY ReadParts DEF TypeInv, CmdInv, VendorRead
<1>2. runs' \in Nat /\ faults' \in Nat /\ trouble' \subseteq Troubles
  BY <1>1, FaultTyped DEF VendorRead, WriteVendorFile, Troubles
<1>3. pc' = "idle" /\ rc' \in Codes /\ said' \in Messages
  BY DEF VendorRead, Fails, Leave, Codes, Messages
<1>4. DevTypeOK' /\ base' \in [Range24 -> Cells]
  BY <1>1 DEF TypeOK, DevTypeOK, devVars
<1>5. vfile' \in Seq(Cells)
  <2>1. vfile \in Seq(Cells) /\ <<>> \in Seq(Cells)
    BY <1>1, EmptySeq DEF TypeOK
  <2>2. \/ Acceptable /\ vfile' = VendorData(cmd.len)
        \/ vfile' \in {vfile, <<>>}
        \/ \E k \in 0 .. cmd.len - 1 :
             (Acceptable \/ k = 0) /\ vfile' = VendorData(k)
    BY DEF VendorRead, WriteVendorFile
  <2>3. \/ vfile' \in {vfile, <<>>}
        \/ \E k \in 0 .. cmd.len :
             (Acceptable \/ k = 0) /\ vfile' = VendorData(k)
    BY <1>1, <2>2
  <2>4. vfile' \in {vfile, <<>>} \/ vfile' \in [1 .. cmd.len -> Cells]
    BY <1>1, <2>3, VendorDataTyped
  <2>5. QED
    BY <1>1, <2>1, <2>4, ArraysAreSequences
<1>6. /\ cmd' \in Commands /\ pc' \in Places /\ off' \in Nat /\ left' \in Nat
      /\ listed' \in Entries /\ cnt' \in 0 .. MaxEntries /\ entry' \in Nat
      /\ buf' \in [1 .. MaxIo -> Cells] /\ saved' \in Seq(Seq(Cells))
      /\ holes' \in BOOLEAN /\ header' \in [length : Nat, entries : Entries]
  BY <1>1, <1>3 DEF TypeOK, historyVars, flashVars, Places
<1>7. TypeOK' /\ CmdInv'
  BY <1>2, <1>3, <1>4, <1>5, <1>6 DEF TypeOK, CmdInv
<1>8. QED
  BY <1>7 DEF TypeInv

LEMMA CountTyped ==
  ASSUME NEW d \in [length : Nat, entries : Entries], Decodes(d)
  PROVE  BufferCount(d) \in 0 .. MaxEntries
<1>1. d.length \div EntrySize \in Int
  BY PositiveSizes
<1>2. BufferCount(d) \in Nat
  BY <1>1, ModRange, PositiveSizes DEF BufferCount
<1>3. QED
  BY <1>2, PositiveSizes DEF Decodes

\* A directory of which not everything was received is one like the others.
LEMMA DirectoryTyped ==
  ASSUME NEW d \in Directories
  PROVE  /\ d \in [length : Nat, entries : Entries]
         /\ \A k \in Int : /\ Cut(d, k) \in [length : Nat, entries : Entries]
                           /\ Cut(d, k).length = d.length
<1>1. d \in [length : Nat, entries : Entries]
  BY HistoryAssumption DEF Entries
<1>2. NoEntry \in [id : Names, len : Nat]
  BY DEF NoEntry, Names
<1>3. ASSUME NEW k \in Int
      PROVE  /\ Cut(d, k) \in [length : Nat, entries : Entries]
             /\ Cut(d, k).length = d.length
  <2> DEFINE es == [e \in 1 .. MaxEntries |->
                      IF e <= k THEN d.entries[e] ELSE NoEntry]
  <2>1. es \in Entries
    BY <1>1, <1>2 DEF Entries
  <2>2. Cut(d, k) = [d EXCEPT !.entries = es]
    BY DEF Cut
  <2> HIDE DEF es
  <2>3. QED
    BY <1>1, <2>1, <2>2
<1>4. QED
  BY <1>1, <1>3

LEMMA AtEntryTyped ==
  ASSUME TypeOK, NEW i \in Nat \ {0}, NEW d, NEW n \in Nat, NEW code \in Codes,
         AtEntry(i, d, n, code)
  PROVE  /\ entry' = i /\ off' = 0 /\ left' = left
         /\ rc' \in Codes /\ said' \in Messages /\ pc' \in {"idle", "log"}
         /\ pc' = "log" => /\ i \in 1 .. n /\ EntryLegal(d[i])
                           /\ rc' = code /\ said' = said
BY DEF AtEntry, Leave, TypeOK, Codes, Messages

LEMMA LogBeginsTyped ==
  ASSUME TypeOK, NEW d \in [length : Nat, entries : Entries], Decodes(d),
         NEW short \in BOOLEAN, LogBegins(d, short)
  PROVE  /\ listed' \in Entries /\ cnt' \in 0 .. MaxEntries
         /\ header' \in [length : Nat, entries : Entries]
         /\ buf' \in [1 .. MaxIo -> Cells] /\ holes' \in BOOLEAN
         /\ entry' \in Nat /\ off' \in Nat /\ left' \in Nat
         /\ rc' \in Codes /\ said' \in Messages /\ pc' \in {"idle", "log"}
         /\ pc' = "log" => entry' \in 1 .. cnt'
<1>1. /\ BufferCount(d) \in 0 .. MaxEntries /\ "EINVAL" \in Codes
      /\ AtEntry(1, d.entries, BufferCount(d), "EINVAL")
      /\ cnt' = BufferCount(d) /\ listed' = d.entries /\ header' = d
      /\ buf' = Cleared /\ holes' = short
  BY CountTyped DEF LogBegins, Codes
<1>2. BufferCount(d) \in Nat
  BY <1>1
<1>3. /\ entry' = 1 /\ off' = 0 /\ left' = left
      /\ rc' \in Codes /\ said' \in Messages /\ pc' \in {"idle", "log"}
      /\ pc' = "log" => 1 \in 1 .. BufferCount(d)
  BY <1>1, <1>2, AtEntryTyped
<1>4. QED
  BY <1>1, <1>3, ClearedTyped DEF TypeOK

LEMMA ReadDirectoryTyped ==
  ASSUME TypeInv, ReadDirectory
  PROVE  TypeInv'
<1>1. /\ TypeOK /\ cmd \in HistoryOptions /\ pc = "dir"
      /\ UNCHANGED <<devVars, cmd, vfile, base>>
  BY DEF TypeInv, CmdInv, ReadDirectory
<1>2. runs' \in Nat /\ faults' \in Nat /\ trouble' \subseteq Troubles
  BY <1>1, FaultTyped DEF ReadDirectory, Troubles
<1>3. DevTypeOK' /\ base' \in [Range24 -> Cells]
  BY <1>1 DEF TypeOK, DevTypeOK, devVars
<1>4. /\ listed' \in Entries /\ cnt' \in 0 .. MaxEntries
      /\ header' \in [length : Nat, entries : Entries]
      /\ buf' \in [1 .. MaxIo -> Cells] /\ holes' \in BOOLEAN
      /\ entry' \in Nat /\ off' \in Nat /\ left' \in Nat
      /\ rc' \in Codes /\ said' \in Messages /\ pc' \in {"idle", "log"}
      /\ pc' = "log" => entry' \in 1 .. cnt'
      /\ saved' \in Seq(Seq(Cells))
  <2>1. CASE \E d \in Directories :
               Decodes(d) /\ LogBegins(d, FALSE) /\ saved' = <<>>
    BY <1>1, <2>1, DirectoryTyped, LogBeginsTyped, EmptySeq
  <2>2. CASE \E d \in Directories, k \in 0 .. MaxEntries - 1 :
               Decodes(d) /\ LogBegins(Cut(d, k), TRUE) /\ saved' = <<>>
    <3>1. PICK d \in Directories, k \in 0 .. MaxEntries - 1 :
                 Decodes(d) /\ LogBegins(Cut(d, k), TRUE) /\ saved' = <<>>
      BY <2>2
    <3>2. /\ Cut(d, k) \in [length : Nat, entries : Entries]
          /\ Cut(d, k).length = d.length
      BY DirectoryTyped, PositiveSizes
    <3>3. Decodes(Cut(d, k))
      BY <3>1, <3>2 DEF Decodes, BufferCount
    <3>4. QED
      BY <1>1, <3>1, <3>2, <3>3, LogBeginsTyped, EmptySeq
  <2>3. ASSUME NEW d \in Directories \cup {header}, HistoryRefused(d)
        PROVE  /\ listed' \in Entries /\ cnt' \in 0 .. MaxEntries
               /\ header' \in [length : Nat, entries : Entries]
               /\ buf' \in [1 .. MaxIo -> Cells] /\ holes' \in BOOLEAN
               /\ entry' \in Nat /\ off' \in Nat /\ left' \in Nat
               /\ rc' \in Codes /\ said' \in Messages /\ pc' \in {"idle", "log"}
               /\ pc' = "log" => entry' \in 1 .. cnt'
               /\ saved' \in Seq(Seq(Cells))
    <3>1. d \in [length : Nat, entries : Entries]
      BY <1>1, DirectoryTyped DEF TypeOK
    <3>2. QED
      BY <1>1, <2>3, <3>1
      DEF HistoryRefused, Fails, Leave, flashVars, TypeOK, Codes, Messages
  <2>4. \/ \E d \in Directories :
              Decodes(d) /\ LogBegins(d, FALSE) /\ saved' = <<>>
        \/ \E d \in Directories, k \in 0 .. MaxEntries - 1 :
              Decodes(d) /\ LogBegins(Cut(d, k), TRUE) /\ saved' = <<>>
        \/ \E d \in Directories \cup {header} : HistoryRefused(d)
    BY DEF ReadDirectory
  <2>5. QED
    BY <2>1, <2>2, <2>3, <2>4
<1>5. /\ cmd' \in Commands /\ cmd' \in HistoryOptions /\ pc' \in Places
      /\ vfile' \in Seq(Cells)
  BY <1>1, <1>4 DEF TypeOK, Places
<1>6. TypeOK' /\ CmdInv'
  BY <1>2, <1>3, <1>4, <1>5 DEF TypeOK, CmdInv
<1>7. QED
  BY <1>6 DEF TypeInv

-----------------------------------------------------------------------------
(* Types: one portion of the error history                                 *)

LEMMA EntryTyped ==
  ASSUME TypeOK, pc = "log"
  PROVE  /\ entry \in 1 .. cnt /\ cnt \in 0 .. MaxEntries /\ cnt \in Nat
         /\ entry \in Nat \ {0} /\ entry \in 1 .. MaxEntries
         /\ listed[entry].id \in Names /\ listed[entry].len \in Nat
         /\ off \in Nat
         /\ ReadCount \in Int /\ ReadCount <= MaxIo
         /\ ReadCount <= listed[entry].len - off
         /\ ReadCount \in {listed[entry].len - off, MaxIo}
<1>1. /\ entry \in 1 .. cnt /\ cnt \in 0 .. MaxEntries /\ off \in Nat
      /\ listed \in Entries
  BY DEF TypeOK
<1>2. cnt \in Nat /\ entry \in Nat \ {0} /\ entry \in 1 .. MaxEntries
  BY <1>1, PositiveSizes
<1>3. listed[entry].id \in Names /\ listed[entry].len \in Nat
  BY <1>1, <1>2 DEF Entries
<1>4. QED
  BY <1>1, <1>2, <1>3, PositiveSizes DEF ReadCount, MinOf

LEMMA PortionTyped ==
  ASSUME TypeOK, pc = "log", NEW k \in Int
  PROVE  Portion(k) \in [1 .. MaxIo -> Cells]
<1>1. listed[entry].id \in Names /\ Field24(off) \in Nat
  BY EntryTyped, FieldRange
<1>2. \A j \in 1 .. k : <<listed[entry].id, Field24(off) + j - 1>> \in Cells
  BY <1>1 DEF Cells
<1>3. /\ DOMAIN HistoryAnswer(listed[entry].id, off, k) = 1 .. k
      /\ \A j \in 1 .. k :
           HistoryAnswer(listed[entry].id, off, k)[j] \in Cells
  BY <1>2 DEF HistoryAnswer
<1>4. buf \in [1 .. MaxIo -> Cells]
  BY DEF TypeOK
<1>5. QED
  BY <1>3, <1>4, ReceivedTyped DEF Portion

LEMMA PieceFacts ==
  ASSUME NEW b \in [1 .. MaxIo -> Cells], NEW n \in Int, n <= MaxIo
  PROVE  /\ SubSeq(b, 1, n) \in Seq(Cells)
         /\ Len(SubSeq(b, 1, n)) = IF 1 <= n THEN n ELSE 0
         /\ \A i \in 1 .. n : SubSeq(b, 1, n)[i] = b[i]
<1>1. \A i \in 1 .. n : b[i] \in Cells
  BY PositiveSizes
<1>2. /\ SubSeq(b, 1, n) \in Seq(Cells)
      /\ Len(SubSeq(b, 1, n)) = IF 1 <= n THEN n - 1 + 1 ELSE 0
      /\ \A i \in 1 .. n - 1 + 1 : SubSeq(b, 1, n)[i] = b[1 + i - 1]
  BY <1>1, SubSeqProperties
<1>3. \A i \in 1 .. n : 1 + i - 1 = i /\ n - 1 + 1 = n
  OBVIOUS
<1>4. QED
  BY <1>2, <1>3

LEMMA GrowTyped ==
  ASSUME TypeOK, NEW b \in [1 .. MaxIo -> Cells], NEW n \in Int, n <= MaxIo,
         Grow(b, n)
  PROVE  saved' \in Seq(Seq(Cells))
<1> DEFINE piece == SubSeq(b, 1, n)
<1>1. piece \in Seq(Cells) /\ saved \in Seq(Seq(Cells))
  BY PieceFacts DEF TypeOK
<1>2. \/ saved' = Append(saved, piece)
      \/ saved' = [saved EXCEPT ![entry] = saved[entry] \o piece]
  BY DEF Grow
<1> HIDE DEF piece
<1>3. CASE saved' = Append(saved, piece)
  BY <1>1, <1>3
<1>4. CASE saved' = [saved EXCEPT ![entry] = saved[entry] \o piece]
  <2>1. CASE entry \in 1 .. Len(saved)
    <3>1. saved[entry] \in Seq(Cells)
      BY <1>1, <2>1, ElementOfSeq
    <3>2. saved[entry] \o piece \in Seq(Cells)
      BY <1>1, <3>1, ConcatProperties
    <3>3. QED
      BY <1>1, <1>4, <2>1, <3>2, ExceptSeq
  <2>2. CASE entry \notin 1 .. Len(saved)
    <3>1. DOMAIN saved = 1 .. Len(saved)
      BY <1>1
    <3>2. saved' = saved
      BY <1>1, <1>4, <2>2, <3>1
    <3>3. QED
      BY <1>1, <3>2
  <2>3. QED
    BY <2>1, <2>2
<1>5. QED
  BY <1>2, <1>3, <1>4

LEMMA PortionLoggedTyped ==
  ASSUME TypeOK, pc = "log", NEW k \in Int, PortionLogged(k)
  PROVE  /\ saved' \in Seq(Seq(Cells)) /\ buf' = Cleared
         /\ entry' \in Nat /\ off' \in Nat /\ left' \in Nat
         /\ rc' \in Codes /\ said' \in Messages /\ pc' \in {"idle", "log"}
         /\ pc' = "log" => entry' \in 1 .. cnt
<1>1. /\ entry \in 1 .. cnt /\ entry \in Nat \ {0} /\ cnt \in Nat
      /\ off \in Nat /\ listed[entry].len \in Nat
      /\ ReadCount \in Int /\ ReadCount <= MaxIo
      /\ ReadCount \in {listed[entry].len - off, MaxIo}
  BY EntryTyped
<1>2. saved' \in Seq(Seq(Cells))
  BY <1>1, PortionTyped, GrowTyped DEF PortionLogged
<1>3. buf' = Cleared
  BY DEF PortionLogged, Wiped
<1>4. CASE off + ReadCount < listed[entry].len
  <2>1. /\ off' = off + ReadCount /\ pc' = "log" /\ rc' = rc /\ said' = said
        /\ entry' = entry /\ left' = left
    BY <1>4 DEF PortionLogged, Goes
  <2>2. off' \in Nat
    BY <1>1, <1>4, <2>1, PositiveSizes
  <2>3. QED
    BY <1>1, <1>2, <1>3, <2>1, <2>2 DEF TypeOK
<1>5. CASE ~ (off + ReadCount < listed[entry].len)
  <2>1. AtEntry(entry + 1, listed, cnt, "OK")
    BY <1>5 DEF PortionLogged
  <2>2. entry + 1 \in Nat \ {0} /\ "OK" \in Codes /\ left \in Nat
    BY <1>1 DEF Codes, TypeOK
  <2>3. QED
    BY <1>1, <1>2, <1>3, <2>1, <2>2, AtEntryTyped
<1>6. QED
  BY <1>4, <1>5

LEMMA ReadPortionTyped ==
  ASSUME TypeInv, ReadPortion
  PROVE  TypeInv'
<1>1. /\ TypeOK /\ cmd \in HistoryOptions /\ pc = "log"
      /\ UNCHANGED <<devVars, cmd, vfile, base, listed, cnt, header>>
  BY DEF TypeInv, CmdInv, ReadPortion
<1>2. ReadCount \in Int /\ ReadCount <= MaxIo
  BY <1>1, EntryTyped
<1>3. runs' \in Nat /\ faults' \in Nat /\ trouble' \subseteq Troubles
  BY <1>1, FaultTyped DEF ReadPortion, LogFails, Troubles
<1>4. DevTypeOK' /\ base' \in [Range24 -> Cells]
  BY <1>1 DEF TypeOK, DevTypeOK, devVars
<1>5. \/ \E k \in Int : PortionLogged(k) /\ (holes' = holes \/ holes' = TRUE)
      \/ LogFails
      \/ Fails("EINVAL") /\ UNCHANGED <<entry, flashVars, buf, saved, holes>>
  BY <1>2 DEF ReadPortion
<1>6. /\ saved' \in Seq(Seq(Cells)) /\ buf' \in [1 .. MaxIo -> Cells]
      /\ entry' \in Nat /\ off' \in Nat /\ left' \in Nat /\ holes' \in BOOLEAN
      /\ rc' \in Codes /\ said' \in Messages /\ pc' \in {"idle", "log"}
      /\ pc' = "log" => entry' \in 1 .. cnt
  <2>1. ASSUME NEW k \in Int, PortionLogged(k), holes' = holes \/ holes' = TRUE
        PROVE  /\ saved' \in Seq(Seq(Cells)) /\ buf' \in [1 .. MaxIo -> Cells]
               /\ entry' \in Nat /\ off' \in Nat /\ left' \in Nat
               /\ holes' \in BOOLEAN
               /\ rc' \in Codes /\ said' \in Messages /\ pc' \in {"idle", "log"}
               /\ pc' = "log" => entry' \in 1 .. cnt
    <3>1. holes' \in BOOLEAN
      BY <1>1, <2>1 DEF TypeOK
    <3>2. QED
      BY <1>1, <2>1, <3>1, PortionLoggedTyped, ClearedTyped
  <2>2. CASE LogFails
    <3>1. PICK n \in 0 .. ReadCount - 1 : Grow(Portion(ReadCount), n)
      BY <2>2 DEF LogFails
    <3>2. n \in Int /\ n <= MaxIo
      BY <1>2, <3>1, PositiveSizes
    <3>3. saved' \in Seq(Seq(Cells))
      BY <1>1, <1>2, <3>1, <3>2, PortionTyped, GrowTyped
    <3>4. QED
      BY <1>1, <2>2, <3>3
      DEF LogFails, Fails, Leave, flashVars, TypeOK, Codes, Messages
  <2>3. CASE Fails("EINVAL") /\ UNCHANGED <<entry, flashVars, buf, saved, holes>>
    BY <1>1, <2>3 DEF Fails, Leave, flashVars, TypeOK, Codes, Messages
  <2>4. QED
    BY <1>5, <2>1, <2>2, <2>3
<1>7. /\ cmd' \in Commands /\ cmd' \in HistoryOptions /\ pc' \in Places
      /\ vfile' \in Seq(Cells) /\ listed' \in Entries
      /\ cnt' \in 0 .. MaxEntries /\ cnt' = cnt
      /\ header' \in [length : Nat, entries : Entries]
  BY <1>1, <1>6 DEF TypeOK, Places
<1>8. TypeOK' /\ CmdInv'
  BY <1>3, <1>4, <1>6, <1>7 DEF TypeOK, CmdInv
<1>9. QED
  BY <1>8 DEF TypeInv

LEMMA InitTyped ==
  ASSUME Init
  PROVE  TypeInv
<1>1. /\ image \in [Range24 -> Cells]
      /\ vendor \in [VendorIds -> [0 .. VendorSize - 1 -> Cells]]
  BY NamedCells DEF Init, DevInit
<1>2. base \in [Range24 -> Cells]
  BY <1>1 DEF Init
<1>3. NoEntry \in [id : Names, len : Nat]
  BY DEF NoEntry, Names
<1>4. listed \in Entries
  BY <1>3 DEF Init, Entries
<1>5. header \in [length : Nat, entries : Entries]
  BY <1>4 DEF Init
<1>6. buf \in [1 .. MaxIo -> Cells]
  BY ClearedTyped DEF Init
<1>7. saved \in Seq(Seq(Cells)) /\ vfile \in Seq(Cells)
  BY EmptySeq DEF Init
<1>8. cmd \in Commands
  BY DEF Init, Commands
<1>9. /\ pc = "idle" /\ pc \in Places /\ rc \in Codes /\ said \in Messages
      /\ off \in Nat /\ left \in Nat /\ entry \in Nat
      /\ runs \in Nat /\ faults \in Nat /\ trouble \subseteq Troubles
      /\ holes \in BOOLEAN
  BY DEF Init, Places, Codes, Messages
<1>10. cnt \in 0 .. MaxEntries
  BY PositiveSizes DEF Init
<1>11. TypeOK
  BY <1>1, <1>2, <1>4, <1>5, <1>6, <1>7, <1>8, <1>9, <1>10
  DEF TypeOK, DevTypeOK
<1>12. CmdInv
  BY <1>9 DEF CmdInv
<1>13. QED
  BY <1>11, <1>12 DEF TypeInv

LEMMA StepTyped ==
  ASSUME TypeInv, [Next]_vars
  PROVE  TypeInv'
BY StartTyped, WritePortionTyped, ReadStatusTyped, VendorWriteTyped,
   VendorReadTyped, ReadDirectoryTyped, ReadPortionTyped, KillTyped,
   StutterTyped
   DEF Next, Call

THEOREM Typed == Spec => []TypeInv
BY InitTyped, StepTyped, PTL DEF Spec

\* Every variable stays in its type, for every size; in particular the tool
\* never looks for an entry the directory does not have room for, and the
\* portions stay inside the buffer of log_ehs_buffer.
THEOREM TypeCorrect == Spec => []TypeOK
<1>1. TypeInv => TypeOK
  BY DEF TypeInv
<1>2. QED
  BY <1>1, Typed, PTL

-----------------------------------------------------------------------------
(* The image on the device                                                 *)

\* What the device holds after a portion, or a portion of which it took less.
LEMMA PortionStored ==
  ASSUME TypeInv, pc = "flash", Addressable(cmd.file), TakesPortion
  PROVE  /\ off \in Nat /\ WriteCount \in Nat /\ WriteCount <= cmd.chunk
         /\ cmd.chunk \in Nat /\ off + WriteCount <= FileSize[cmd.file]
         /\ \E m \in Nat :
              /\ m <= WriteCount
              /\ WriteCount <= HostMax => m = WriteCount
              /\ \A c \in Range24 :
                   image'[c] = IF off <= c /\ c < off + m
                                 THEN <<cmd.file, c>> ELSE image[c]
<1>1. /\ cmd \in FlashOptions /\ cmd.chunk \in Nat /\ left \in Nat /\ left > 0
      /\ off \in Nat /\ off + left = FileSize[cmd.file] /\ TypeOK
  BY FlashParts DEF TypeInv, CmdInv, TypeOK
<1>2. /\ WriteCount \in Nat /\ WriteCount <= cmd.chunk /\ WriteCount <= left
  BY <1>1 DEF WriteCount, MinOf
<1>3. off \in 0 .. Span - 1
  BY <1>1, PositiveSizes DEF Addressable
<1>4. Field24(off) = off
  BY <1>1, <1>3, FieldRange
<1>5. /\ Field24(WriteCount) \in Nat /\ Field24(WriteCount) <= WriteCount
      /\ WriteCount <= HostMax => Field24(WriteCount) = WriteCount
  <2>1. WriteCount <= HostMax => WriteCount \in 0 .. Span - 1
    BY <1>2, PositiveSizes
  <2>2. QED
    BY <1>2, <2>1, FieldRange
<1>6. /\ image' = Stored(image, off, Field24(WriteCount), cmd.file, off)
      /\ DOMAIN image = Range24
  BY <1>1, <1>4 DEF TakesPortion, DevFlash, TypeOK, DevTypeOK
<1>7. \A c \in Range24 :
        image'[c] = IF off <= c /\ c < off + Field24(WriteCount)
                      THEN <<cmd.file, off + (c - off)>> ELSE image[c]
  BY <1>6 DEF Stored
<1>8. \A c \in Range24 : off + (c - off) = c
  BY <1>1, PositiveSizes DEF Range24
<1>9. \A c \in Range24 :
        image'[c] = IF off <= c /\ c < off + Field24(WriteCount)
                      THEN <<cmd.file, c>> ELSE image[c]
  BY <1>7, <1>8
<1>10. off + WriteCount <= FileSize[cmd.file]
  BY <1>1, <1>2
<1>11. QED
  BY <1>1, <1>2, <1>5, <1>9, <1>10

LEMMA FlashStep ==
  ASSUME TypeInv, FlashedPrefix, WritePortion
  PROVE  FlashedPrefix'
<1>1. /\ pc = "flash" /\ cmd.op = "flash" /\ cmd' = cmd /\ base' = base
      /\ cmd \in FlashOptions
  BY CommandOfPlace DEF WritePortion, TypeInv, CmdInv
<1>2. /\ cmd.chunk \in Nat /\ left \in Nat /\ off \in Nat
      /\ WriteCount \in Nat
  <2>1. cmd.chunk \in Nat /\ left \in Nat /\ off \in Nat
    BY <1>1, FlashParts DEF TypeInv, TypeOK
  <2>2. QED
    BY <2>1 DEF WriteCount, MinOf
<1>3. SUFFICES ASSUME Addressable(cmd.file), NEW c \in Range24
               PROVE  \/ /\ image'[c] = <<cmd.file, c>>
                         /\ c < off' + cmd.chunk /\ c < FileSize[cmd.file]
                      \/ /\ image'[c] = base[c]
                         /\ \/ c >= off' \/ c >= FileSize[cmd.file]
                            \/ "lost" \in trouble'
  BY <1>1 DEF FlashedPrefix
<1>4. \/ /\ image[c] = <<cmd.file, c>>
         /\ c < off + cmd.chunk /\ c < FileSize[cmd.file]
      \/ /\ image[c] = base[c]
         /\ c >= off \/ c >= FileSize[cmd.file] \/ "lost" \in trouble
  BY <1>1, <1>3 DEF FlashedPrefix
<1>5. c \in Nat
  BY PositiveSizes DEF Range24
<1>6. trouble \subseteq trouble'
  BY DEF WritePortion, Quiet, Fault, envVars
<1>7. CASE WriteCount <= HostMax /\ TakesPortion /\ NextPortion
  <2>1. off' = off + WriteCount
    BY <1>7 DEF NextPortion
  <2>2. /\ image'[c] = IF off <= c /\ c < off + WriteCount
                         THEN <<cmd.file, c>> ELSE image[c]
        /\ off + WriteCount <= FileSize[cmd.file]
    BY <1>1, <1>3, <1>7, PortionStored
  <2>3. CASE off <= c /\ c < off + WriteCount
    <3>1. c < FileSize[cmd.file] /\ c < off' + cmd.chunk
      BY <1>1, <1>2, <1>5, <2>1, <2>2, <2>3, FlashParts
    <3>2. QED
      BY <2>2, <2>3, <3>1
  <2>4. CASE ~ (off <= c /\ c < off + WriteCount)
    <3>1. /\ c < off + cmd.chunk => c < off' + cmd.chunk
          /\ c >= off => c >= off'
      BY <1>2, <1>5, <2>1, <2>4
    <3>2. image'[c] = image[c]
      BY <2>2, <2>4
    <3>3. QED
      BY <1>4, <1>6, <3>1, <3>2
  <2>5. QED
    BY <2>3, <2>4
<1>8. CASE Fault("lost") /\ NextPortion /\ UNCHANGED devVars
  <2>1. off' = off + WriteCount /\ "lost" \in trouble' /\ image' = image
    BY <1>8 DEF NextPortion, Fault, devVars
  <2>2. c < off + cmd.chunk => c < off' + cmd.chunk
    BY <1>2, <1>5, <2>1
  <2>3. QED
    BY <1>4, <2>1, <2>2
<1>9. CASE TakesPortion /\ UNCHANGED flashVars
  <2>1. off' = off
    BY <1>9 DEF flashVars
  <2>2. PICK m \in Nat : /\ m <= WriteCount
                         /\ image'[c] = IF off <= c /\ c < off + m
                                          THEN <<cmd.file, c>> ELSE image[c]
    BY <1>1, <1>3, <1>9, PortionStored
  <2>3. /\ WriteCount <= cmd.chunk /\ off + WriteCount <= FileSize[cmd.file]
    BY <1>1, <1>3, <1>9, PortionStored
  <2>4. CASE off <= c /\ c < off + m
    <3>1. c < FileSize[cmd.file] /\ c < off' + cmd.chunk
      BY <1>1, <1>2, <1>5, <2>1, <2>2, <2>3, <2>4, FlashParts
    <3>2. QED
      BY <2>2, <2>4, <3>1
  <2>5. CASE ~ (off <= c /\ c < off + m)
    BY <1>4, <1>6, <2>1, <2>2, <2>5
  <2>6. QED
    BY <2>4, <2>5
<1>10. CASE UNCHANGED devVars /\ UNCHANGED flashVars
  BY <1>4, <1>6, <1>10 DEF devVars, flashVars
<1>11. QED
  BY <1>7, <1>8, <1>9, <1>10 DEF WritePortion

\* Everything else leaves image and base alone, or flashes nothing.
LEMMA ImageKept ==
  ASSUME TypeInv, FlashedPrefix, cmd' = cmd, image' = image, base' = base,
         off' = off, trouble \subseteq trouble'
  PROVE  FlashedPrefix'
BY DEF FlashedPrefix, Addressable

LEMMA BeginKept ==
  ASSUME TypeInv, Start
  PROVE  FlashedPrefix'
<1>1. off' = 0 /\ image' = image /\ base' = image
  BY DEF Start, StartFlash, StartStatus, StartVendorRead, StartVendorWrite,
         StartHistory, Started, NotStarted, Refused, Begin, devVars
<1>2. \A c \in Range24 : c >= 0
  BY PositiveSizes DEF Range24
<1>3. QED
  BY <1>1, <1>2 DEF FlashedPrefix

LEMMA PrefixStep ==
  ASSUME TypeInv, FlashedPrefix, [Next]_vars
  PROVE  FlashedPrefix'
<1>1. CASE Start
  BY <1>1, BeginKept
<1>2. CASE WritePortion
  BY <1>2, FlashStep
<1>3. CASE ReadStatus
  BY <1>3, ImageKept
  DEF ReadStatus, devVars, flashVars, Quiet, Fault, envVars
<1>4. CASE VendorWrite
  <2>1. /\ cmd' = cmd /\ image' = image /\ base' = base /\ off' = off
    BY <1>4 DEF VendorWrite, StoreVendor, devVars, flashVars
  <2>2. trouble \subseteq trouble'
    BY <1>4 DEF VendorWrite, Quiet, Fault, envVars
  <2>3. QED
    BY <2>1, <2>2, ImageKept
<1>5. CASE VendorRead
  <2>1. /\ cmd' = cmd /\ image' = image /\ base' = base /\ off' = off
    BY <1>5 DEF VendorRead, devVars, flashVars
  <2>2. trouble \subseteq trouble'
    BY <1>5 DEF VendorRead, WriteVendorFile, Quiet, Fault, envVars
  <2>3. QED
    BY <2>1, <2>2, ImageKept
<1>6. CASE ReadDirectory \/ ReadPortion
  <2>1. cmd' = cmd /\ cmd.op # "flash"
    BY <1>6, CommandOfPlace DEF ReadDirectory, ReadPortion
  <2>2. QED
    BY <2>1 DEF FlashedPrefix
<1>7. CASE Kill
  BY <1>7, ImageKept DEF Kill, devVars, flashVars, envVars
<1>8. CASE UNCHANGED vars
  BY <1>8, ImageKept DEF vars, devVars, flashVars, envVars
<1>9. QED
  BY <1>1, <1>2, <1>3, <1>4, <1>5, <1>6, <1>7, <1>8 DEF Next, Call

\* However many runs are killed or fail, and wherever, the device holds the
\* image it had when the run started with a beginning of the file over it.
THEOREM FlashesPrefix == Spec => []FlashedPrefix
<1>1. Init => FlashedPrefix
  BY DEF Init, FlashedPrefix
<1>2. TypeInv /\ FlashedPrefix /\ [Next]_vars => FlashedPrefix'
  BY PrefixStep
<1>3. QED
  BY <1>1, <1>2, Typed, PTL DEF Spec

-----------------------------------------------------------------------------
(* error_history.dat                                                       *)

\* The part of the file a portion belongs to grows behind what it holds.
LEMMA GrowFacts ==
  ASSUME TypeOK, LogInv, pc = "log", NEW b \in [1 .. MaxIo -> Cells],
         NEW n \in Nat, n <= MaxIo, Grow(b, n)
  PROVE  /\ Len(saved') = entry /\ DOMAIN saved' = 1 .. entry
         /\ Len(saved'[entry]) = off + n
         /\ DOMAIN saved'[entry] = 1 .. off + n
         /\ \A e \in 1 .. entry - 1 : saved'[e] = saved[e]
         /\ \A q \in 1 .. off : saved'[entry][q] = saved[entry][q]
         /\ \A j \in 1 .. n : saved'[entry][off + j] = b[j]
         /\ Len(saved) = IF off = 0 THEN entry - 1 ELSE entry
<1> DEFINE piece == SubSeq(b, 1, n)
<1>1. /\ piece \in Seq(Cells) /\ Len(piece) = n
      /\ \A j \in 1 .. n : piece[j] = b[j]
  <2>1. n \in Int /\ (IF 1 <= n THEN n ELSE 0) = n
    OBVIOUS
  <2>2. QED
    BY <2>1, PieceFacts
<1>2. /\ saved \in Seq(Seq(Cells)) /\ entry \in Nat \ {0} /\ off \in Nat
      /\ Len(saved) = IF off = 0 THEN entry - 1 ELSE entry
      /\ off > 0 => Len(saved[entry]) = off
  BY EntryTyped DEF TypeOK, LogInv
<1>3. saved' = IF off = 0 THEN Append(saved, piece)
                 ELSE [saved EXCEPT ![entry] = saved[entry] \o piece]
  BY DEF Grow
<1>4. saved' \in Seq(Seq(Cells))
  BY GrowTyped
<1> HIDE DEF piece
<1>5. CASE off = 0
  <2>1. /\ saved' = Append(saved, piece) /\ Len(saved) = entry - 1
    BY <1>2, <1>3, <1>5
  <2>2. /\ Len(saved') = entry /\ saved'[entry] = piece
        /\ \A e \in 1 .. entry - 1 : saved'[e] = saved[e]
    BY <1>1, <1>2, <2>1
  <2>3. DOMAIN saved' = 1 .. entry /\ DOMAIN piece = 1 .. n
    BY <1>1, <1>4, <2>2
  <2>4. QED
    BY <1>1, <1>2, <1>5, <2>2, <2>3
<1>6. CASE off # 0
  <2>1. /\ Len(saved) = entry /\ Len(saved[entry]) = off
        /\ entry \in 1 .. Len(saved) /\ off > 0
    BY <1>2, <1>6
  <2>2. saved[entry] \in Seq(Cells)
    BY <1>2, <2>1, ElementOfSeq
  <2> DEFINE grown == saved[entry] \o piece
  <2>3. /\ grown \in Seq(Cells) /\ Len(grown) = off + n
        /\ \A i \in 1 .. off + n :
             grown[i] = IF i <= off THEN saved[entry][i] ELSE piece[i - off]
    <3>1. /\ grown \in Seq(Cells)
          /\ Len(grown) = Len(saved[entry]) + Len(piece)
          /\ \A i \in 1 .. Len(saved[entry]) + Len(piece) :
               grown[i] = IF i <= Len(saved[entry]) THEN saved[entry][i]
                            ELSE piece[i - Len(saved[entry])]
      BY <1>1, <2>2, ConcatProperties
    <3> HIDE DEF grown
    <3>2. QED
      BY <1>1, <2>1, <3>1
  <2>4. saved' = [saved EXCEPT ![entry] = grown]
    BY <1>3, <1>6
  <2> HIDE DEF grown
  <2>5. /\ Len(saved') = Len(saved)
        /\ \A e \in 1 .. Len(saved) :
             saved'[e] = IF e = entry THEN grown ELSE saved[e]
    BY <1>2, <2>1, <2>3, <2>4, ExceptSeq
  <2>6. /\ Len(saved') = entry /\ saved'[entry] = grown
        /\ \A e \in 1 .. entry - 1 : saved'[e] = saved[e]
    BY <1>2, <2>1, <2>5
  <2>7. DOMAIN saved' = 1 .. entry /\ DOMAIN grown = 1 .. off + n
    BY <1>4, <2>3, <2>6
  <2>8. \A q \in 1 .. off : grown[q] = saved[entry][q]
    BY <1>2, <2>3
  <2>9. \A j \in 1 .. n : grown[off + j] = b[j]
    <3>1. TAKE j \in 1 .. n
    <3>2. off + j \in 1 .. off + n /\ ~ (off + j <= off) /\ off + j - off = j
      BY <1>2
    <3>3. ASSUME NEW i \in 1 .. off + n, i = off + j
          PROVE  grown[i] = b[j]
      <4>1. ~ (i <= off) /\ i - off = j
        BY <1>2, <3>3
      <4>2. grown[i] = piece[j]
        BY <2>3, <4>1
      <4>3. QED
        BY <1>1, <4>2
    <3>4. QED
      BY <3>2, <3>3
  <2>10. QED
    BY <1>2, <1>6, <2>3, <2>6, <2>7, <2>8, <2>9
<1>7. QED
  BY <1>5, <1>6

\* The buffer holds what the device sent, at its place, and zeros.
LEMMA PortionFacts ==
  ASSUME TypeOK, LogInv, pc = "log", NEW k \in Int
  PROVE  \A j \in 1 .. MaxIo :
           Portion(k)[j] = IF j <= k THEN <<listed[entry].id, Field24(off) + j - 1>>
                                     ELSE Zero
<1>1. buf = Cleared /\ DOMAIN Cleared = 1 .. MaxIo
  BY DEF LogInv, Cleared
<1>2. \A j \in 1 .. MaxIo : Cleared[j] = Zero
  BY DEF Cleared
<1> DEFINE answer == HistoryAnswer(listed[entry].id, off, k)
<1>3. /\ DOMAIN answer = 1 .. k
      /\ \A j \in 1 .. k : answer[j] = <<listed[entry].id, Field24(off) + j - 1>>
  BY DEF HistoryAnswer
<1> HIDE DEF answer
<1>4. Portion(k) = [j \in 1 .. MaxIo |-> IF j \in 1 .. k THEN answer[j]
                                                         ELSE Cleared[j]]
  BY <1>1, <1>3 DEF Portion, Received, answer
<1>5. ASSUME NEW j \in 1 .. MaxIo
      PROVE  j \in 1 .. k <=> j <= k
  OBVIOUS
<1>6. QED
  BY <1>2, <1>3, <1>4, <1>5

\* A portion of which k units came is written, n of them, k of them or more.
LEMMA GrowPlaced ==
  ASSUME TypeOK, LogInv, HistoryPlaced, pc = "log",
         NEW k \in Int, NEW n \in Nat, n <= ReadCount,
         listed' = listed, Grow(Portion(k), n),
         holes => holes', n > k => holes'
  PROVE  HistoryPlaced'
<1>1. /\ n <= MaxIo /\ n <= listed[entry].len - off /\ off \in Nat
      /\ listed[entry].len \in Nat /\ entry \in Nat \ {0}
  BY EntryTyped, PositiveSizes
<1>2. Portion(k) \in [1 .. MaxIo -> Cells]
  BY PortionTyped
<1>3. /\ DOMAIN saved' = 1 .. entry /\ Len(saved'[entry]) = off + n
      /\ DOMAIN saved'[entry] = 1 .. off + n
      /\ \A e \in 1 .. entry - 1 : saved'[e] = saved[e]
      /\ \A q \in 1 .. off : saved'[entry][q] = saved[entry][q]
      /\ \A j \in 1 .. n : saved'[entry][off + j] = Portion(k)[j]
      /\ Len(saved) = IF off = 0 THEN entry - 1 ELSE entry
  BY <1>1, <1>2, GrowFacts
<1>4. DOMAIN saved = 1 .. Len(saved)
  BY DEF TypeOK
<1>5. SUFFICES ASSUME NEW e \in 1 .. entry
               PROVE  /\ Len(saved'[e]) <= listed[e].len
                      /\ \A q \in DOMAIN saved'[e] :
                           \/ q > Span
                           \/ saved'[e][q] = <<listed[e].id, q - 1>>
                           \/ holes' /\ saved'[e][q] = Zero
  BY <1>3 DEF HistoryPlaced
<1>6. CASE e # entry
  <2>1. e \in 1 .. entry - 1 /\ e \in DOMAIN saved
    BY <1>1, <1>3, <1>4, <1>5, <1>6
  <2>2. saved'[e] = saved[e]
    BY <1>3, <2>1
  <2>3. QED
    BY <2>1, <2>2 DEF HistoryPlaced
<1>7. CASE e = entry
  <2>1. Len(saved'[e]) <= listed[e].len
    BY <1>1, <1>3, <1>7
  <2>2. ASSUME NEW q \in 1 .. off + n
        PROVE  \/ q > Span
               \/ saved'[entry][q] = <<listed[entry].id, q - 1>>
               \/ holes' /\ saved'[entry][q] = Zero
    <3>1. CASE q <= off
      <4>1. q \in 1 .. off /\ off # 0
        BY <1>1, <2>2, <3>1
      <4>2. entry \in DOMAIN saved /\ saved'[entry][q] = saved[entry][q]
        BY <1>1, <1>3, <1>4, <4>1
      <4>3. q \in DOMAIN saved[entry]
        <5>1. saved \in Seq(Seq(Cells)) /\ entry \in 1 .. Len(saved)
          BY <1>4, <4>2 DEF TypeOK
        <5>2. saved[entry] \in Seq(Cells)
          BY <5>1, ElementOfSeq
        <5>3. Len(saved[entry]) = off
          BY <1>1, <4>1 DEF LogInv
        <5>4. QED
          BY <4>1, <5>2, <5>3
      <4>4. QED
        BY <4>2, <4>3 DEF HistoryPlaced
    <3>2. CASE q > off
      <4> DEFINE j == q - off
      <4>1. j \in 1 .. n /\ j \in 1 .. MaxIo /\ q = off + j
        BY <1>1, <2>2, <3>2, PositiveSizes
      <4> HIDE DEF j
      <4>2. saved'[entry][q] = Portion(k)[j]
        BY <1>3, <4>1
      <4>3. CASE j > k
        <5>1. Portion(k)[j] = Zero
          <6>1. ~ (j <= k) /\ j \in 1 .. MaxIo
            BY <4>1, <4>3
          <6>2. QED
            BY <6>1, PortionFacts
        <5>2. n > k
          BY <4>1, <4>3
        <5>3. QED
          BY <4>2, <5>1, <5>2
      <4>4. CASE j <= k /\ q <= Span
        <5>1. Portion(k)[j] = <<listed[entry].id, Field24(off) + j - 1>>
          BY <4>1, <4>4, PortionFacts
        <5>2. off \in 0 .. Span - 1
          BY <1>1, <4>1, <4>4, PositiveSizes
        <5>3. Field24(off) + j - 1 = q - 1
          BY <1>1, <4>1, <5>2, FieldRange
        <5>4. QED
          BY <4>2, <5>1, <5>3
      <4>5. QED
        BY <2>2, <4>1, <4>3, <4>4, <1>1, PositiveSizes
    <3>3. QED
      BY <1>1, <2>2, <3>1, <3>2
  <2>3. QED
    BY <1>3, <1>7, <2>1, <2>2
<1>8. QED
  BY <1>6, <1>7

LEMMA ReadCountPositive ==
  ASSUME TypeOK, LogInv, pc = "log"
  PROVE  /\ ReadCount \in Nat /\ ReadCount > 0 /\ ReadCount <= MaxIo
         /\ off + ReadCount <= listed[entry].len
         /\ off \in Nat /\ listed[entry].len \in Nat
BY EntryTyped, PositiveSizes DEF LogInv

LEMMA PortionPlaced ==
  ASSUME TypeInv, LogInv, HistoryPlaced, ReadPortion
  PROVE  LogInv' /\ HistoryPlaced'
<1>1. /\ TypeOK /\ pc = "log" /\ ReadCount \in Nat /\ ReadCount > 0
      /\ ReadCount <= MaxIo /\ off + ReadCount <= listed[entry].len
      /\ off \in Nat /\ listed[entry].len \in Nat
      /\ listed' = listed /\ cnt' = cnt /\ entry \in Nat \ {0}
  BY ReadCountPositive, EntryTyped DEF TypeInv, ReadPortion
<1>2. \/ /\ PortionLogged(ReadCount) /\ holes' = holes
      \/ \E k \in 0 .. ReadCount - 1 : PortionLogged(k) /\ holes' = TRUE
      \/ LogFails
      \/ Fails("EINVAL") /\ UNCHANGED <<entry, flashVars, buf, saved, holes>>
  BY DEF ReadPortion
<1>3. ASSUME NEW k \in Int, PortionLogged(k), holes => holes',
             ReadCount > k => holes'
      PROVE  LogInv' /\ HistoryPlaced'
  <2>1. Grow(Portion(k), ReadCount) /\ buf' = Cleared
    BY <1>3 DEF PortionLogged, Wiped
  <2>2. HistoryPlaced'
    BY <1>1, <1>3, <2>1, GrowPlaced
  <2>3. Len(saved') = entry /\ Len(saved'[entry]) = off + ReadCount
    BY <1>1, <2>1, PortionTyped, GrowFacts
  <2>4. CASE off + ReadCount < listed[entry].len
    <3>1. off' = off + ReadCount /\ entry' = entry
      BY <1>3, <2>4 DEF PortionLogged
    <3>2. off' > 0 /\ off' < listed[entry].len
      BY <1>1, <2>4, <3>1
    <3>3. QED
      BY <1>1, <2>1, <2>2, <2>3, <3>1, <3>2 DEF LogInv, Cleared
  <2>5. CASE ~ (off + ReadCount < listed[entry].len)
    <3>1. AtEntry(entry + 1, listed, cnt, "OK")
      BY <1>3, <2>5 DEF PortionLogged
    <3>2. /\ entry' = entry + 1 /\ off' = 0
          /\ pc' = "log" => listed[entry'].len > 0
      BY <3>1 DEF AtEntry, Leave, EntryLegal
    <3>3. QED
      BY <1>1, <2>1, <2>2, <2>3, <3>2 DEF LogInv, Cleared
  <2>6. QED
    BY <2>4, <2>5
<1>4. CASE PortionLogged(ReadCount) /\ holes' = holes
  BY <1>1, <1>3, <1>4
<1>5. CASE \E k \in 0 .. ReadCount - 1 : PortionLogged(k) /\ holes' = TRUE
  BY <1>1, <1>3, <1>5
<1>6. CASE LogFails
  <2>1. PICK n \in 0 .. ReadCount - 1 : Grow(Portion(ReadCount), n)
    BY <1>6 DEF LogFails
  <2>2. n \in Nat /\ n <= ReadCount /\ ~ (n > ReadCount)
    BY <1>1, <2>1
  <2>3. holes' = holes /\ pc' = "idle"
    BY <1>6 DEF LogFails, Fails, Leave
  <2>4. HistoryPlaced'
    BY <1>1, <2>1, <2>2, <2>3, GrowPlaced
  <2>5. QED
    BY <2>3, <2>4 DEF LogInv
<1>7. CASE Fails("EINVAL") /\ UNCHANGED <<entry, flashVars, buf, saved, holes>>
  BY <1>1, <1>7 DEF LogInv, HistoryPlaced, Fails, Leave
<1>8. QED
  BY <1>2, <1>4, <1>5, <1>6, <1>7

LEMMA DirectoryPlaced ==
  ASSUME TypeInv, LogInv, HistoryPlaced, ReadDirectory
  PROVE  LogInv' /\ HistoryPlaced'
<1>1. ASSUME NEW d, NEW short, LogBegins(d, short), saved' = <<>>
      PROVE  LogInv' /\ HistoryPlaced'
  <2>1. Len(saved') = 0 /\ DOMAIN saved' = {}
    BY <1>1
  <2>2. /\ buf' = Cleared /\ listed' = d.entries
        /\ off' = 0 /\ entry' = 1
        /\ pc' = "log" => d.entries[1].len > 0
    BY <1>1 DEF LogBegins, AtEntry, Leave, EntryLegal
  <2>3. LogInv'
    BY <2>1, <2>2 DEF LogInv, Cleared
  <2>4. QED
    BY <2>1, <2>3 DEF HistoryPlaced
<1>2. ASSUME NEW d, HistoryRefused(d)
      PROVE  LogInv' /\ HistoryPlaced'
  BY <1>2 DEF HistoryRefused, Fails, Leave, LogInv, HistoryPlaced
<1>3. QED
  BY <1>1, <1>2 DEF ReadDirectory

LEMMA HistoryKept ==
  ASSUME LogInv, HistoryPlaced, UNCHANGED historyVars,
         pc' # "log" \/ UNCHANGED <<pc, off>>
  PROVE  LogInv' /\ HistoryPlaced'
BY DEF LogInv, HistoryPlaced, historyVars, Cleared

LEMMA HistoryStep ==
  ASSUME TypeInv, LogInv, HistoryPlaced, [Next]_vars
  PROVE  LogInv' /\ HistoryPlaced'
<1>1. CASE Start
  <2>1. UNCHANGED historyVars
    BY <1>1 DEF Start, StartFlash, StartStatus, StartVendorRead,
                StartVendorWrite, StartHistory, Started, NotStarted, Refused
  <2>2. pc' # "log"
    BY <1>1 DEF Start, StartFlash, StartStatus, StartVendorRead,
                StartVendorWrite, StartHistory, Started, NotStarted, Refused,
                Fails, Leave
  <2>3. QED
    BY <2>1, <2>2, HistoryKept
<1>2. CASE WritePortion
  <2>1. pc' # "log"
    BY <1>2 DEF WritePortion, NextPortion, Goes, Fails, Leave
  <2>2. UNCHANGED historyVars
    BY <1>2 DEF WritePortion
  <2>3. QED
    BY <2>1, <2>2, HistoryKept
<1>3. CASE ReadStatus
  BY <1>3, HistoryKept DEF ReadStatus, Goes, Fails, Leave
<1>4. CASE VendorWrite
  BY <1>4, HistoryKept DEF VendorWrite, Fails, Leave
<1>5. CASE VendorRead
  BY <1>5, HistoryKept DEF VendorRead, Fails, Leave
<1>6. CASE ReadDirectory
  BY <1>6, DirectoryPlaced
<1>7. CASE ReadPortion
  BY <1>7, PortionPlaced
<1>8. CASE Kill
  BY <1>8, HistoryKept DEF Kill, Fails, Leave
<1>9. CASE UNCHANGED vars
  BY <1>9, HistoryKept DEF vars, endVars, flashVars
<1>10. QED
  BY <1>1, <1>2, <1>3, <1>4, <1>5, <1>6, <1>7, <1>8, <1>9 DEF Next, Call

LEMMA HistoryInit ==
  ASSUME Init
  PROVE  LogInv /\ HistoryPlaced
BY DEF Init, LogInv, HistoryPlaced

\* Whatever reads are short or fail, and wherever the tool is killed, the units
\* of error_history.dat are at their places, and nothing of an earlier portion
\* is among them.
THEOREM KeepsPlaces == Spec => []HistoryPlaced
<1>1. TypeInv /\ LogInv /\ HistoryPlaced /\ [Next]_vars
        => LogInv' /\ HistoryPlaced'
  BY HistoryStep
<1>2. QED
  BY <1>1, HistoryInit, Typed, PTL DEF Spec

-----------------------------------------------------------------------------
(* The messages of success                                                 *)

LEMMA DivNat ==
  ASSUME NEW s \in Nat, s > 0, NEW x \in Nat
  PROVE  x \div s \in Nat
BY SMT

LEMMA AnnouncedFacts ==
  ASSUME NEW n \in Nat
  PROVE  LET a == n \div EntrySize
         IN  /\ a \in Nat /\ a % ByteSpan \in Nat /\ a % ByteSpan <= a
             /\ a < ByteSpan => a % ByteSpan = a
<1> DEFINE a == n \div EntrySize
<1>1. a \in Nat
  BY DivNat, PositiveSizes
<1> HIDE DEF a
<1>2. a % ByteSpan \in Nat /\ a % ByteSpan <= a
  BY <1>1, ModNotMore, ModRange, PositiveSizes
<1>3. a < ByteSpan => a \in 0 .. ByteSpan - 1
  BY <1>1, PositiveSizes
<1>4. a < ByteSpan => a % ByteSpan = a
  BY <1>3, ModSmall, PositiveSizes
<1>5. QED
  BY <1>1, <1>2, <1>4 DEF a

\* A step that gives no message and does not log keeps what is said of both.
LEMMA NoMessage ==
  ASSUME said' = "none", pc' # "log"
  PROVE  MsgInv' /\ TrueMessage'
BY DEF MsgInv, TrueMessage

LEMMA FlashMessage ==
  ASSUME TypeInv, FlashedPrefix', MsgInv, WritePortion
  PROVE  MsgInv' /\ TrueMessage'
<1>1. /\ pc = "flash" /\ cmd \in FlashOptions /\ cmd.op = "flash" /\ cmd' = cmd
      /\ left \in Nat /\ off \in Nat /\ off + left = FileSize[cmd.file]
      /\ said = "none" /\ cmd.chunk \in Nat /\ FileSize[cmd.file] \in Nat
  BY FlashParts DEF WritePortion, TypeInv, CmdInv, TypeOK, MsgInv
<1>2. CASE Fails("EINVAL")
  BY <1>2, NoMessage DEF Fails, Leave
<1>3. CASE NextPortion /\ left' > 0
  BY <1>1, <1>3, NoMessage DEF NextPortion, Goes
<1>4. CASE NextPortion /\ ~ (left' > 0)
  <2>1. /\ pc' = "idle" /\ rc' = "OK" /\ said' = "flashed"
        /\ off' = off + WriteCount /\ left' = left - WriteCount
    BY <1>4 DEF NextPortion, Leave
  <2>2. off' >= FileSize[cmd.file]
    <3>1. WriteCount \in Nat
      BY <1>1 DEF WriteCount, MinOf
    <3>2. left - WriteCount <= 0
      BY <1>4, <2>1, <3>1, <1>1
    <3>3. QED
      BY <1>1, <2>1, <3>1, <3>2
  <2>3. ASSUME "lost" \notin trouble', Addressable(cmd.file),
               NEW c \in 0 .. FileSize[cmd.file] - 1
        PROVE  image'[c] = <<cmd.file, c>>
    <3>1. c \in Range24 /\ c < FileSize[cmd.file] /\ c < off'
      <4>1. off' \in Int
        BY <1>1, <2>1 DEF WriteCount, MinOf
      <4>2. QED
        BY <1>1, <2>2, <2>3, <4>1, PositiveSizes DEF Range24, Addressable
    <3>2. ~ (c >= off') /\ ~ (c >= FileSize[cmd.file])
      <4>1. off' \in Int
        BY <1>1, <2>1 DEF WriteCount, MinOf
      <4>2. QED
        BY <1>1, <3>1, <4>1, <2>3
    <3>3. QED
      BY <1>1, <2>3, <3>1, <3>2 DEF FlashedPrefix, Addressable
  <2>4. QED
    BY <1>1, <2>1, <2>3 DEF MsgInv, TrueMessage, Addressable
<1>5. QED
  BY <1>2, <1>3, <1>4 DEF WritePortion

LEMMA AddBack ==
  ASSUME NEW a \in Int, NEW n \in Nat, NEW j \in 0 .. n - 1,
         NEW c \in Int, c = a + j
  PROVE  a <= c /\ c < a + n /\ 0 + (c - a) = j
OBVIOUS

LEMMA VendorWriteMessage ==
  ASSUME TypeInv, VendorWrite
  PROVE  MsgInv' /\ TrueMessage'
<1>1. /\ cmd \in WriteOptions /\ cmd' = cmd /\ cmd.id \in VendorIds
      /\ cmd.offset \in Int /\ cmd.len \in Nat /\ cmd.file \in Files
      /\ vendor \in [VendorIds -> [0 .. VendorSize - 1 -> Cells]]
      /\ VendorSize \in Nat
  BY WriteParts, VendorAssumption
  DEF VendorWrite, TypeInv, CmdInv, TypeOK, DevTypeOK
<1>2. CASE Fails("EINVAL")
  BY <1>2, NoMessage DEF Fails, Leave
<1>3. CASE Fault("lost") /\ Leave("OK", "vwritten")
  BY <1>3 DEF MsgInv, TrueMessage, Fault, Leave
<1>4. CASE Acceptable /\ StoreVendor /\ Leave("OK", "vwritten")
  <2>1. ASSUME cmd.offset \in 0 .. Span - 1, NEW j \in 0 .. cmd.len - 1
        PROVE  vendor'[cmd.id][cmd.offset + j] = <<cmd.file, j>>
    <3>1. /\ Field24(cmd.offset) = cmd.offset /\ Field24(cmd.len) = cmd.len
          /\ cmd.offset + cmd.len <= VendorSize
      <4>1. cmd.len \in 0 .. Span - 1
        BY <1>1, <1>4, PositiveSizes DEF Acceptable
      <4>2. Field24(cmd.offset) = cmd.offset /\ Field24(cmd.len) = cmd.len
        BY <1>1, <2>1, <4>1, FieldRange
      <4>3. QED
        BY <1>4, <4>2 DEF Acceptable, InVendorBuffer
    <3>2. /\ vendor'[cmd.id] = Stored(vendor[cmd.id], cmd.offset, cmd.len,
                                      cmd.file, 0)
          /\ DOMAIN vendor[cmd.id] = 0 .. VendorSize - 1
      BY <1>1, <1>4, <3>1 DEF StoreVendor, DevVendorWrite
    <3>3. /\ cmd.offset + j \in 0 .. VendorSize - 1
          /\ cmd.offset <= cmd.offset + j
          /\ cmd.offset + j < cmd.offset + cmd.len
          /\ 0 + (cmd.offset + j - cmd.offset) = j
      BY <1>1, <2>1, <3>1
    <3>4. ASSUME NEW c \in 0 .. VendorSize - 1, c = cmd.offset + j
          PROVE  vendor'[cmd.id][c] = <<cmd.file, j>>
      <4>1. cmd.offset <= c /\ c < cmd.offset + cmd.len
            /\ 0 + (c - cmd.offset) = j
        <5>1. cmd.offset \in Int /\ cmd.len \in Nat
          BY <1>1
        <5>2. c \in Int
          BY <1>1
        <5>3. j \in 0 .. cmd.len - 1
          BY <2>1
        <5>4. c = cmd.offset + j
          BY <3>4
        <5>5. QED
          BY <5>1, <5>2, <5>3, <5>4, AddBack
      <4>2. vendor'[cmd.id][c] = <<cmd.file, 0 + (c - cmd.offset)>>
        BY <3>2, <4>1 DEF Stored
      <4>3. QED
        BY <4>1, <4>2
    <3>5. QED
      BY <3>3, <3>4
  <2>2. pc' = "idle" /\ rc' = "OK" /\ said' = "vwritten"
    BY <1>4 DEF Leave
  <2>3. QED
    BY <1>1, <2>1, <2>2 DEF MsgInv, TrueMessage
<1>5. QED
  BY <1>2, <1>3, <1>4 DEF VendorWrite

LEMMA VendorReadMessage ==
  ASSUME TypeInv, VendorRead
  PROVE  MsgInv' /\ TrueMessage'
<1>1. /\ cmd \in ReadOptions /\ cmd' = cmd /\ cmd.id \in VendorIds
      /\ cmd.offset \in Int /\ cmd.len \in Nat /\ vendor' = vendor /\ TypeOK
  BY ReadParts DEF VendorRead, TypeInv, CmdInv, devVars
<1>2. CASE Fails("EINVAL")
  BY <1>2, NoMessage DEF Fails, Leave
<1>3. CASE (\E kind \in Troubles : Fault(kind)) /\ Leave("OK", "vread")
  BY <1>3 DEF MsgInv, TrueMessage, Fault, Leave
<1>4. CASE Acceptable /\ vfile' = VendorData(cmd.len) /\ Leave("OK", "vread")
  <2>1. vfile' \in [1 .. cmd.len -> Cells]
    BY <1>1, <1>4, VendorDataTyped
  <2>2. Len(vfile') = cmd.len
    BY <1>1, <2>1, ArraysAreSequences
  <2>3. ASSUME cmd.offset \in 0 .. Span - 1, NEW j \in 1 .. cmd.len
        PROVE  vfile'[j] = vendor[cmd.id][cmd.offset + j - 1]
    <3>1. Field24(cmd.offset) = cmd.offset
      BY <1>1, <2>3, FieldRange
    <3>2. QED
      BY <1>4, <3>1, <2>3 DEF VendorData, Received, VendorAnswer, JunkOf
  <2>4. pc' = "idle" /\ rc' = "OK" /\ said' = "vread"
    BY <1>4 DEF Leave
  <2>5. QED
    BY <1>1, <2>2, <2>3, <2>4 DEF MsgInv, TrueMessage
<1>5. QED
  BY <1>2, <1>3, <1>4 DEF VendorRead, WriteVendorFile, Troubles

LEMMA HistoryMessageOut ==
  ASSUME said' = "history", MsgInv', ~ Overlooked' =>
           /\ Len(saved') = Announced'
           /\ \A e \in DOMAIN saved' : Len(saved'[e]) = listed'[e].len
  PROVE  TrueMessage'
BY DEF MsgInv, TrueMessage

LEMMA LogBeginsMessage ==
  ASSUME TypeOK', NEW d, NEW short \in BOOLEAN, LogBegins(d, short), saved' = <<>>,
         said = "none"
  PROVE  MsgInv' /\ TrueMessage'
<1>1. /\ listed' = d.entries /\ cnt' = BufferCount(d) /\ header' = d
      /\ entry' = 1
  BY DEF LogBegins, AtEntry
<1>2. BufferCount(header') = BufferCount(d)
  BY <1>1
<1>3. CASE pc' = "log" /\ said' = "none" /\ rc' = "EINVAL"
  BY <1>1, <1>2, <1>3 DEF MsgInv, TrueMessage, BufferCount
<1>4. CASE 1 > BufferCount(d) /\ Leave("OK", "history")
  <2>1. MsgInv' /\ said' = "history"
    BY <1>4 DEF MsgInv, Leave
  <2>2. ASSUME ~ Overlooked'
        PROVE  Len(saved') = Announced'
    <3>1. Announced' \in Nat /\ ~ (Announced' >= ByteSpan)
      <4>1. header'.length \in Nat
        BY DEF TypeOK
      <4>2. QED
        BY <4>1, <2>2, AnnouncedFacts DEF Overlooked, Announced
    <3>2. BufferCount(d) = Announced'
      <4>1. header'.length \in Nat /\ Announced' < ByteSpan
        BY <3>1, PositiveSizes DEF TypeOK
      <4>2. BufferCount(d) = Announced' % ByteSpan
        BY <1>1 DEF BufferCount, Announced
      <4>3. QED
        BY <4>1, <4>2, AnnouncedFacts DEF Announced
    <3>3. QED
      BY <1>4, <3>1, <3>2
  <2>3. DOMAIN saved' = {}
    OBVIOUS
  <2>4. QED
    BY <2>1, <2>2, <2>3, HistoryMessageOut
<1>5. CASE Leave("EINVAL", "none")
  BY <1>5, NoMessage DEF Leave
<1>6. QED
  <2>1. AtEntry(1, d.entries, BufferCount(d), "EINVAL")
    BY DEF LogBegins
  <2>2. QED
    BY <1>3, <1>4, <1>5, <2>1 DEF AtEntry, Leave

LEMMA ReadDirectoryMessage ==
  ASSUME TypeOK', MsgInv, ReadDirectory
  PROVE  MsgInv' /\ TrueMessage'
<1>1. said = "none"
  BY DEF ReadDirectory, MsgInv
<1>2. ASSUME NEW d, HistoryRefused(d)
      PROVE  MsgInv' /\ TrueMessage'
  BY <1>2, NoMessage DEF HistoryRefused, Fails, Leave
<1>3. ASSUME NEW d, LogBegins(d, FALSE) /\ saved' = <<>>
      PROVE  MsgInv' /\ TrueMessage'
  BY <1>1, <1>3, LogBeginsMessage
<1>4. ASSUME NEW d, LogBegins(d, TRUE) /\ saved' = <<>>
      PROVE  MsgInv' /\ TrueMessage'
  BY <1>1, <1>4, LogBeginsMessage
<1>5. QED
  BY <1>2, <1>3, <1>4 DEF ReadDirectory

\* After a portion: the entry goes on, or is complete and the next one is met.
LEMMA PortionLoggedMessage ==
  ASSUME TypeOK, TypeOK', LogInv, MsgInv, pc = "log", NEW k \in Int,
         PortionLogged(k), holes => holes',
         listed' = listed, cnt' = cnt, header' = header
  PROVE  MsgInv' /\ TrueMessage'
<1>1. /\ ReadCount \in Nat /\ ReadCount > 0 /\ ReadCount <= MaxIo
      /\ off + ReadCount <= listed[entry].len
      /\ off \in Nat /\ listed[entry].len \in Nat
      /\ entry \in Nat \ {0} /\ entry <= cnt /\ cnt \in 0 .. MaxEntries
  <2>1. /\ ReadCount \in Nat /\ ReadCount > 0 /\ ReadCount <= MaxIo
        /\ off + ReadCount <= listed[entry].len
        /\ off \in Nat /\ listed[entry].len \in Nat
    BY ReadCountPositive
  <2>2. entry \in 1 .. cnt /\ cnt \in 0 .. MaxEntries /\ cnt \in Nat
        /\ entry \in Nat \ {0}
    BY EntryTyped
  <2>3. entry <= cnt
    BY <2>2
  <2>4. QED
    BY <2>1, <2>2, <2>3
<1>2. Grow(Portion(k), ReadCount)
  BY DEF PortionLogged
<1>3. /\ DOMAIN saved' = 1 .. entry /\ Len(saved') = entry
      /\ Len(saved'[entry]) = off + ReadCount
      /\ \A e \in 1 .. entry - 1 : saved'[e] = saved[e]
  BY <1>1, <1>2, PortionTyped, GrowFacts
<1>4. /\ said = "none" /\ cnt = BufferCount(header)
      /\ holes \/ listed = header.entries
      /\ entry = 1 => rc # "OK"
      /\ \A e \in 1 .. entry - 1 : Len(saved'[e]) = listed[e].len
  BY <1>3 DEF MsgInv
<1>5. BufferCount(header') = cnt'
  BY <1>4
<1>6. CASE off + ReadCount < listed[entry].len
  <2>1. /\ entry' = entry /\ pc' = "log" /\ rc' = rc /\ said' = "none"
    BY <1>4, <1>6 DEF PortionLogged, Goes
  <2>2. MsgInv'
    BY <1>4, <1>5, <2>1 DEF MsgInv
  <2>3. QED
    BY <2>1, <2>2 DEF TrueMessage
<1>7. CASE ~ (off + ReadCount < listed[entry].len)
  <2>1. AtEntry(entry + 1, listed, cnt, "OK")
    BY <1>7 DEF PortionLogged
  <2>2. \A e \in 1 .. entry : Len(saved'[e]) = listed[e].len
    BY <1>1, <1>3, <1>4, <1>7
  <2>3. CASE pc' = "log" /\ rc' = "OK" /\ said' = said
    <3>1. entry' = entry + 1
      BY <2>1 DEF AtEntry
    <3>2. entry' # 1 /\ \A e \in 1 .. entry' - 1 : e \in 1 .. entry
      BY <1>1, <3>1
    <3>3. MsgInv'
      BY <1>4, <1>5, <2>2, <2>3, <3>2 DEF MsgInv
    <3>4. QED
      BY <1>4, <2>3, <3>3 DEF TrueMessage
  <2>4. CASE /\ entry + 1 > cnt \/ ~ EntryLegal(listed[entry + 1])
             /\ Leave("OK", "history")
    <3>1. MsgInv' /\ said' = "history"
      BY <2>4 DEF MsgInv, Leave
    <3>2. ASSUME ~ Overlooked'
          PROVE  entry = Announced'
      <4>1. header.length \in Nat /\ Announced' = Announced
        BY DEF TypeOK, Announced
      <4>2. Announced \in Nat /\ Announced < ByteSpan
        BY <3>2, <4>1, AnnouncedFacts, PositiveSizes DEF Overlooked, Announced
      <4>3. cnt = Announced
        BY <1>4, <4>1, <4>2, AnnouncedFacts DEF BufferCount, Announced
      <4>4. ~ holes /\ listed = header.entries
        BY <1>4, <3>2 DEF Overlooked
      <4>5. ASSUME entry + 1 <= cnt, NEW e \in Int, e = entry + 1
            PROVE  EntryLegal(listed[e])
        <5>1. e \in 2 .. MaxEntries /\ e <= Announced'
          <6>1. e >= 2 /\ e <= cnt /\ cnt \in Int /\ cnt <= MaxEntries
            BY <1>1, <4>5, PositiveSizes
          <6>2. e \in 2 .. MaxEntries
            BY <6>1, PositiveSizes
          <6>3. QED
            BY <4>1, <4>3, <6>1, <6>2
        <5>2. EntryLegal(header'.entries[e])
          BY <3>2, <5>1 DEF Overlooked
        <5>3. QED
          BY <4>4, <5>2
      <4>6. entry + 1 > cnt
        BY <1>1, <2>4, <4>5
      <4>7. QED
        BY <1>1, <4>1, <4>3, <4>6
    <3>3. QED
      BY <1>3, <2>2, <3>1, <3>2, HistoryMessageOut
  <2>5. QED
    BY <2>1, <2>3, <2>4 DEF AtEntry
<1>8. QED
  BY <1>6, <1>7

LEMMA ReadPortionMessage ==
  ASSUME TypeInv, TypeOK', LogInv, MsgInv, ReadPortion
  PROVE  MsgInv' /\ TrueMessage'
<1>1. /\ TypeOK /\ pc = "log" /\ ReadCount \in Int
      /\ listed' = listed /\ cnt' = cnt /\ header' = header
  BY ReadCountPositive DEF TypeInv, ReadPortion
<1>2. CASE PortionLogged(ReadCount) /\ holes' = holes
  BY <1>1, <1>2, PortionLoggedMessage
<1>3. CASE \E k \in 0 .. ReadCount - 1 : PortionLogged(k) /\ holes' = TRUE
  BY <1>1, <1>3, PortionLoggedMessage
<1>4. CASE LogFails \/ Fails("EINVAL")
  BY <1>4, NoMessage DEF LogFails, Fails, Leave
<1>5. QED
  BY <1>2, <1>3, <1>4 DEF ReadPortion

LEMMA StartMessage ==
  ASSUME Start
  PROVE  MsgInv' /\ TrueMessage'
<1>1. pc' # "log" /\ said' = "none"
  BY DEF Start, StartFlash, StartStatus, StartVendorRead, StartVendorWrite,
         StartHistory, Started, NotStarted, Refused, Fails, Leave
<1>2. QED
  BY <1>1, NoMessage

LEMMA StatusMessage ==
  ASSUME MsgInv, ReadStatus
  PROVE  MsgInv' /\ TrueMessage'
<1>1. said = "none"
  BY DEF MsgInv, ReadStatus
<1>2. \/ said' = "none" /\ pc' # "log"
      \/ Leave("OK", "status")
  BY <1>1 DEF ReadStatus, Goes, Fails, Leave
<1>3. QED
  BY <1>2, NoMessage DEF MsgInv, TrueMessage, Leave

LEMMA MessageKept ==
  ASSUME MsgInv, TrueMessage, UNCHANGED vars
  PROVE  MsgInv' /\ TrueMessage'
BY DEF MsgInv, TrueMessage, vars, devVars, historyVars, endVars, envVars,
       Overlooked, Announced, BufferCount, Addressable

LEMMA MessageStep ==
  ASSUME TypeInv, TypeInv', LogInv, MsgInv, TrueMessage, FlashedPrefix',
         [Next]_vars
  PROVE  MsgInv' /\ TrueMessage'
<1>1. TypeOK'
  BY DEF TypeInv
<1>2. CASE Kill
  BY <1>2, NoMessage DEF Kill, Fails, Leave
<1>3. CASE Start
  BY <1>3, StartMessage
<1>4. CASE WritePortion
  BY <1>4, FlashMessage
<1>5. CASE ReadStatus
  BY <1>5, StatusMessage
<1>6. CASE VendorWrite
  BY <1>6, VendorWriteMessage
<1>7. CASE VendorRead
  BY <1>7, VendorReadMessage
<1>8. CASE ReadDirectory
  BY <1>1, <1>8, ReadDirectoryMessage
<1>9. CASE ReadPortion
  BY <1>1, <1>9, ReadPortionMessage
<1>10. CASE UNCHANGED vars
  BY <1>10, MessageKept
<1>11. QED
  BY <1>2, <1>3, <1>4, <1>5, <1>6, <1>7, <1>8, <1>9, <1>10 DEF Next, Call

LEMMA MessageInit ==
  ASSUME Init
  PROVE  MsgInv /\ TrueMessage
BY DEF Init, MsgInv, TrueMessage

\* The messages of success of ffu, vendor and err_hist are true, up to the
\* failures the code does not look at, which TrueMessage names.
THEOREM TrueMessages == Spec => []TrueMessage
<1>1. LogInv /\ HistoryPlaced /\ TypeInv /\ [Next]_vars
        => LogInv' /\ HistoryPlaced'
  BY HistoryStep
<1>2. TypeInv /\ TypeInv' /\ LogInv /\ MsgInv /\ TrueMessage /\ FlashedPrefix'
        /\ [Next]_vars => MsgInv' /\ TrueMessage'
  BY MessageStep
<1>3. Init => LogInv /\ HistoryPlaced
  BY HistoryInit
<1>4. Init => MsgInv /\ TrueMessage
  BY MessageInit
<1>5. QED
  BY <1>1, <1>2, <1>3, <1>4, Typed, FlashesPrefix, PTL DEF Spec

-----------------------------------------------------------------------------
(* The reasons of a refusal                                                *)

\* The step ends with success, by a signal or with trouble, or does not end.
LEMMA NoRefusal ==
  ASSUME pc' # "idle" \/ rc' \in {"OK", "KILLED"} \/ trouble' # {}
  PROVE  RefusedForAReason'
BY DEF RefusedForAReason

LEMMA FaultIsTrouble ==
  ASSUME NEW kind, Fault(kind)
  PROVE  trouble' # {}
BY DEF Fault

LEMMA StartRefused ==
  ASSUME Start
  PROVE  RefusedForAReason'
<1>1. ASSUME NEW c, NEW code, NotStarted(c, code)
      PROVE  RefusedForAReason'
  BY <1>1, NoRefusal DEF NotStarted
<1>2. ASSUME NEW c, NEW place \in Places \ {"idle"}, NEW size,
             Started(c, place, size)
      PROVE  RefusedForAReason'
  BY <1>2, NoRefusal DEF Started
<1>3. ASSUME NEW c \in FlashOptions, ~ FileFlashable(c.file), Refused(c)
      PROVE  RefusedForAReason'
  <2>1. cmd' = c /\ c.op = "flash"
    BY <1>3, FlashParts DEF Refused, Begin
  <2>2. QED
    BY <1>3, <2>1 DEF RefusedForAReason, FileFlashable
<1>4. ASSUME NEW c \in WriteOptions, ~ LongEnough(c), Refused(c)
      PROVE  RefusedForAReason'
  <2>1. cmd' = c /\ c.op = "vwrite" /\ c.len \in Nat
        /\ FileSize[c.file] \in Nat
    BY <1>4, WriteParts, FilesAssumption DEF Refused, Begin
  <2>2. FileSize[c.file] < c.len \/ FileSize[c.file] = 0
    BY <1>4, <2>1 DEF LongEnough
  <2>3. QED
    BY <2>1, <2>2 DEF RefusedForAReason
<1>5. QED
  BY <1>1, <1>2, <1>3, <1>4
  DEF Start, StartFlash, StartStatus, StartVendorRead, StartVendorWrite,
      StartHistory, Places

LEMMA FlashRefused ==
  ASSUME TypeInv, WritePortion
  PROVE  RefusedForAReason'
<1>1. /\ cmd.op = "flash" /\ cmd' = cmd /\ left \in Nat /\ off \in Nat
      /\ off + left = FileSize[cmd.file] /\ FileSize[cmd.file] \in Nat
      /\ cmd.chunk \in Nat
  BY FlashParts DEF WritePortion, TypeInv, CmdInv, TypeOK
<1>2. CASE NextPortion \/ (\E kind \in Troubles : Fault(kind))
  BY <1>2, NoRefusal, FaultIsTrouble DEF NextPortion, Goes, Leave, WritePortion
<1>3. CASE WriteCount > HostMax /\ Fails("EINVAL")
  <2>1. MinOf(cmd.chunk, FileSize[cmd.file]) >= WriteCount
    BY <1>1 DEF WriteCount, MinOf
  <2>2. MinOf(cmd.chunk, FileSize[cmd.file]) > HostMax
    <3>1. WriteCount \in Int /\ MinOf(cmd.chunk, FileSize[cmd.file]) \in Int
      BY <1>1 DEF WriteCount, MinOf
    <3>2. QED
      BY <1>3, <2>1, <3>1, PositiveSizes
  <2>3. QED
    BY <1>1, <2>2 DEF RefusedForAReason
<1>4. QED
  BY <1>2, <1>3 DEF WritePortion, Troubles

LEMMA NotAcceptable ==
  ASSUME TypeInv, pc \in {"vread", "vwrite"}, ~ Acceptable
  PROVE  \/ cmd.len > HostMax
         \/ cmd.offset = NotGiven \/ Field24(cmd.offset) + cmd.len > VendorSize
<1>1. cmd.offset \in Int /\ cmd.len \in Nat
  BY ReadParts, WriteParts DEF TypeInv, CmdInv
<1>2. CASE cmd.len <= HostMax
  <2>1. Field24(cmd.len) = cmd.len
    BY <1>1, <1>2, FieldRange, PositiveSizes
  <2>2. Field24(cmd.offset) \in Nat
    BY <1>1, FieldRange
  <2>3. QED
    BY <1>1, <1>2, <2>1, <2>2, VendorAssumption DEF Acceptable, InVendorBuffer
<1>3. QED
  BY <1>1, <1>2, PositiveSizes

LEMMA VendorRefused ==
  ASSUME TypeInv, VendorWrite \/ VendorRead
  PROVE  RefusedForAReason'
<1>1. /\ cmd' = cmd /\ pc \in {"vread", "vwrite"}
      /\ cmd.op \in {"vread", "vwrite"}
  BY CommandOfPlace DEF VendorWrite, VendorRead
<1>2. CASE (\E kind \in Troubles : Fault(kind)) \/ rc' = "OK"
  BY <1>2, NoRefusal, FaultIsTrouble
<1>3. CASE ~ Acceptable
  BY <1>1, <1>3, NotAcceptable DEF RefusedForAReason
<1>4. QED
  BY <1>2, <1>3 DEF VendorWrite, VendorRead, Leave, Troubles

LEMMA DirectoryRefused ==
  ASSUME TypeInv, ReadDirectory
  PROVE  RefusedForAReason'
<1>1. cmd' = cmd /\ cmd.op = "history"
  BY CommandOfPlace DEF ReadDirectory
<1>2. CASE \E kind \in Troubles : Fault(kind)
  BY <1>2, NoRefusal, FaultIsTrouble
<1>3. ASSUME NEW d, ~ Decodes(d), HistoryRefused(d)
      PROVE  RefusedForAReason'
  <2>1. header' = d /\ ~ Decodes(header')
    BY <1>3 DEF HistoryRefused, Decodes, BufferCount
  <2>2. QED
    BY <1>1, <2>1 DEF RefusedForAReason
<1>4. ASSUME NEW d \in Directories, LogBegins(d, FALSE)
      PROVE  RefusedForAReason'
  <2>1. header' = d /\ AtEntry(1, d.entries, BufferCount(d), "EINVAL")
    BY <1>4 DEF LogBegins
  <2>2. CASE pc' # "idle" \/ rc' = "OK"
    BY <2>2, NoRefusal
  <2>3. CASE 1 <= BufferCount(d) /\ ~ EntryLegal(d.entries[1])
    <3>1. d.entries[1].id \notin HistoryIds \/ d.entries[1].len \notin 1 .. 2 * (Span - 1)
      BY <2>3, PositiveSizes DEF EntryLegal, MaxAvail
    <3>2. QED
      BY <1>1, <2>1, <3>1 DEF RefusedForAReason
  <2>4. QED
    BY <2>1, <2>2, <2>3 DEF AtEntry, Leave
<1>5. QED
  BY <1>2, <1>3, <1>4 DEF ReadDirectory, Troubles

LEMMA PortionRefused ==
  ASSUME ReadPortion
  PROVE  RefusedForAReason'
<1>1. CASE \E kind \in Troubles : Fault(kind)
  BY <1>1, NoRefusal, FaultIsTrouble
<1>2. ASSUME NEW k, PortionLogged(k)
      PROVE  RefusedForAReason'
  BY <1>2, NoRefusal DEF PortionLogged, AtEntry, Goes, Leave, ReadPortion
<1>3. QED
  BY <1>1, <1>2 DEF ReadPortion, LogFails, Troubles

LEMMA RefusedStep ==
  ASSUME TypeInv, RefusedForAReason, [Next]_vars
  PROVE  RefusedForAReason'
<1>1. CASE ReadStatus
  BY <1>1, NoRefusal, FaultIsTrouble DEF ReadStatus, Goes, Leave
<1>2. CASE Kill
  BY <1>2, NoRefusal DEF Kill, Fails, Leave
<1>3. CASE UNCHANGED vars
  BY <1>3 DEF RefusedForAReason, vars, historyVars, endVars, envVars, Decodes,
              BufferCount
<1>4. QED
  BY <1>1, <1>2, <1>3, StartRefused, FlashRefused, VendorRefused,
     DirectoryRefused, PortionRefused DEF Next, Call

\* A run of ffu, vendor or err_hist in which no call fails is refused only for
\* what the user, the file or the device gave it.
THEOREM RefusesForAReason == Spec => []RefusedForAReason
<1>1. Init => RefusedForAReason
  BY DEF Init, RefusedForAReason
<1>2. TypeInv /\ RefusedForAReason /\ [Next]_vars => RefusedForAReason'
  BY RefusedStep
<1>3. QED
  BY <1>1, <1>2, Typed, PTL DEF Spec

=============================================================================

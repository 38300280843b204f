------------------------------ MODULE Queries ------------------------------
(***************************************************************************)
(* One run of "ufs-utils desc", "attr", "fl" or "uic" (ufs_cmds.c,         *)
(* unipro.c): the commands that read and write the device's descriptors,   *)
(* attributes and flags and the attributes of both ends of the link.  A    *)
(* step is one request with the code up to the next.                       *)
(*                                                                         *)
(* An item is <<kind, number>>: an attribute, a flag, a descriptor, or a   *)
(* UniPro attribute of the local or the peer end, by its place in its      *)
(* table.  Index and selector of a query are part of the number.  Left     *)
(* out: the text that is printed, and the memory behind write_buf that a   *)
(* configuration file of more than 255 bytes would be read into.           *)
(***************************************************************************)
EXTENDS Integers, Sequences

CONSTANTS
  ByteSpan,     \* 2^8
  WordSpan,     \* 2^32
  AttrTable,    \* ufs_attrs: a sequence of [mode, limit]
  AttrMax,      \* QUERY_ATTR_IDN_MAX
  FlagTable,    \* ufs_flags: a sequence of [mode]
  MibTable,     \* a group of uic_attrs_group: a sequence of [get, set]
  MibMax,       \* the numbers of UniPro attributes on both ends of the link
  OddValues,    \* values of descriptors with a size no specification has
  Values,       \* values of attributes, descriptors and UniPro attributes
  Devices,      \* what the device and the link may hold at the start
  Idns,         \* arguments of -t, and of -i of uic
  Written,      \* arguments of -w for attributes, of any size
  Retries,      \* UFS_UIC_COMMAND_RETRIES
  MaxFaults     \* bound: calls that fail, are repeated or refused

\* ERROR as the value of a UniPro attribute: 0xFFFFFFFF
Err == WordSpan - 1
NotGiven == -1
\* What flag_fields and attr_fields say of an entry; reserved is ACC_INVALID.
Modes == {"readable", "write_only", "reserved", "vendor"}

ASSUME TablesAssumption ==
  /\ ByteSpan \in Nat \ {0} /\ WordSpan \in Nat \ {0} /\ AttrMax \in Nat /\ MibMax \in Nat
  /\ AttrTable \in Seq([mode : Modes, limit : Nat])
  /\ FlagTable \in Seq([mode : Modes])
  /\ MibTable \in Seq([get : BOOLEAN, set : BOOLEAN])
  /\ AttrMax <= Len(AttrTable)
  /\ Len(MibTable) <= MibMax
\* The loop of do_flags has an 8-bit counter: it ends because the table has
\* 255 entries, and that of do_attributes because it stops at 0x47.
ASSUME LoopsAssumption == Len(FlagTable) < ByteSpan /\ AttrMax < ByteSpan
ASSUME QueryBounds == Retries \in Nat \ {0} /\ MaxFaults \in Nat

\* enum desc_idn; one number stands for the reserved ones and the vendor's.
Descs      == {0, 1, 2, 4, 5, 7, 8, 9, 10, 11}
ConfDesc   == 1
StringDesc == 5
FboDesc    == 10
OtherDesc  == 11
\* Only these look at -w.
WritableDescs == {ConfDesc, StringDesc, OtherDesc}
\* do_desc with -a
AllDescs == <<0, 2, 4, 7, 8, 9, 1>>

Bytes == 0 .. ByteSpan - 1
Items == ({"attr", "flag"} \X Bytes) \cup ({"desc"} \X Descs)
           \cup ({"local", "peer"} \X (0 .. MibMax))

\* What verify_write keeps of -w: strtol has more bits than options->data.
Kept == {w % WordSpan : w \in Written}

ASSUME ValuesAssumption ==
  /\ Values \subseteq 0 .. WordSpan - 1 /\ {0, 1} \subseteq Values
  /\ Written \subseteq Int /\ Kept \subseteq Values /\ Idns \subseteq Nat
  /\ OddValues \subseteq Values
  /\ Devices \subseteq [Items -> Values]
  /\ \A d \in Devices, i \in Bytes : d[<<"flag", i>>] \in {0, 1}

VARIABLES
  dev,          \* the device and the two ends of the link: item |-> value
  job,          \* the options
  pc,           \* where the tool is
  cur,          \* att_idn, flag_idn, or the place in a list of requests
  tries,        \* retries of ufshcd_dme_get_attr
  mine,         \* mib_val_local
  rc,           \* what the command function returns
  file,         \* what the file -D or -w names holds
  said,         \* the message about a stored file
  shown,        \* what was printed: item and value
  faults,
  trouble,      \* history: what went wrong
  missed,       \* history: items whose request failed
  initial       \* history: dev at the start

requestVars == <<cur, tries, mine>>
resultVars  == <<file, said, shown, missed>>
faultVars   == <<faults, trouble>>
vars == <<dev, job, pc, requestVars, rc, resultVars, faultVars, initial>>

-----------------------------------------------------------------------------
(* Options                                                                 *)

Job(kinds, oprs, idns, values, data, sides) ==
  [kind : kinds, opr : oprs, idn : idns, value : values, data : data,
   side : sides]

\* An attribute, a flag, a descriptor: -t is not limited for the first two.  The
\* value is the one in options->data.
AttrJobs ==
  Job({"attr"}, {"READ_ALL"}, {0}, {0}, {FALSE}, {"local"})
    \cup Job({"attr"}, {"READ"}, Idns, {0}, {FALSE}, {"local"})
    \cup Job({"attr"}, {"WRITE"}, Idns, Kept, {TRUE}, {"local"})
FlagJobs ==
  Job({"flag"}, {"READ_ALL"}, {0}, {0}, {FALSE}, {"local"})
    \cup Job({"flag"}, {"READ", "CLEAR", "SET", "TOGGLE"}, Idns, {0}, {FALSE},
             {"local"})
DescJobs ==
  Job({"desc"}, {"READ_ALL"}, {0}, {0}, BOOLEAN, {"local"})
    \cup Job({"desc"}, {"READ"}, Descs, {0}, BOOLEAN, {"local"})
    \cup Job({"desc"}, {"WRITE"}, Descs, Values, {TRUE}, {"local"})
UicJobs ==
  Job({"uic"}, {"READ_ALL"}, {0}, {0}, {FALSE}, {"local"})
    \cup Job({"uic"}, {"READ"}, 0 .. MibMax, {0}, {FALSE}, {"local"})
    \cup Job({"uic"}, {"WRITE"}, 0 .. MibMax, Kept, {FALSE}, {"local", "peer"})
Jobs == AttrJobs \cup FlagJobs \cup DescJobs \cup UicJobs

All == job.opr = "READ_ALL"

\* The idn field of a query is a byte.
Byte(i) == i % ByteSpan

\* The number of the item asked for next.
Number ==
  CASE All /\ job.kind = "desc" -> AllDescs[cur + 1]
    [] All /\ job.kind # "desc" -> cur
    [] ~ All -> IF job.kind \in {"attr", "flag"} THEN Byte(job.idn) ELSE job.idn
Item == <<job.kind, Number>>

\* The item a set request names, and the value it is to have.
Named == <<IF job.kind = "uic" THEN job.side ELSE job.kind, Number>>
NewValue(old) ==
  CASE job.opr = "CLEAR" -> 0
    [] job.opr = "SET" -> 1
    [] job.opr = "TOGGLE" -> 1 - old
    [] OTHER -> job.value
Changed(d) == [d EXCEPT ![Named] = NewValue(@)]

-----------------------------------------------------------------------------
(* The commands up to their first request                                  *)

\* A call or a file operation goes wrong; how is remembered.
Fault(kind) ==
  /\ faults < MaxFaults
  /\ faults' = faults + 1 /\ trouble' = trouble \cup {kind}
Quiet == UNCHANGED faultVars

Goes(place) == pc' = place /\ UNCHANGED rc
Ends(code)  == pc' = "exit" /\ rc' = code

\* Mutant: the largest value of the width is refused and one too many accepted.
TooWideLate(e) == job.value > e.limit + 1

\* The width check of do_attributes.
TooWide(e) == job.value > e.limit

\* An entry of ufs_attrs or ufs_flags, where idn is in the table.
InTable(table) == job.idn < Len(table)
Entry(table) == table[job.idn + 1]

\* -r: acc_mode is read before the idn was compared with the table's size.
ReadOutcomes(table) ==
  IF InTable(table)
    THEN IF Entry(table).mode = "write_only" THEN {"write_only"} ELSE {"get"}
    ELSE {"get", "write_only", "crash"}

\* -w: the first idn after the table is looked up, the others are not.
WriteOutcomes ==
  CASE job.idn > Len(AttrTable) -> {"set"}
    [] job.idn = Len(AttrTable) -> {"set", "refuse", "crash"}
    [] OTHER -> IF Entry(AttrTable).mode # "reserved" /\ TooWide(Entry(AttrTable))
                  THEN {"refuse"} ELSE {"set"}

\* check_attr_id; reading does not ask whether the attribute is gettable.
UicOutcomes ==
  CASE ~ InTable(MibTable) -> {"refuse"}
    [] InTable(MibTable) /\ job.opr = "READ" -> {"local"}
    [] OTHER -> IF Entry(MibTable).set THEN {"set"} ELSE {"refuse"}

\* The functions of the descriptors that cannot be written are not told of -w.
DescOutcomes ==
  IF job.opr = "WRITE" /\ job.idn \in WritableDescs THEN {"set"} ELSE {"get"}

Outcomes ==
  CASE All -> {"loop"}
    [] job.kind = "desc" /\ ~ All -> DescOutcomes
    [] job.kind = "uic" /\ ~ All -> UicOutcomes
    [] job.kind = "attr" /\ job.opr = "READ" -> ReadOutcomes(AttrTable)
    [] job.kind = "flag" /\ job.opr = "READ" -> ReadOutcomes(FlagTable)
    [] job.kind = "attr" /\ job.opr = "WRITE" -> WriteOutcomes
    [] OTHER -> {"set"}

\* A write-only item is no error of the tool.
Begin ==
  /\ pc = "start"
  /\ \/ Fault("open") /\ Ends("ERROR")
     \/ /\ Quiet
        /\ \/ \E place \in Outcomes \cap {"loop", "get", "local", "set", "crash"} :
                Goes(place)
           \/ "refuse" \in Outcomes /\ Ends("ERROR")
           \/ "write_only" \in Outcomes /\ Ends("OK")
  /\ UNCHANGED <<dev, job, requestVars, resultVars, initial>>

-----------------------------------------------------------------------------
(* READ_ALL                                                                *)

Over(i) ==
  CASE job.kind = "attr" -> i >= AttrMax
    [] job.kind = "flag" -> i >= Len(FlagTable)
    [] job.kind = "uic"  -> i >= Len(MibTable)
    [] job.kind = "desc" -> i >= Len(AllDescs)

Listed(i) ==
  CASE job.kind = "attr" -> AttrTable[i + 1].mode = "readable"
    [] job.kind = "flag" -> FlagTable[i + 1].mode = "readable"
    [] job.kind = "uic"  -> MibTable[i + 1].get
    [] job.kind = "desc" -> TRUE

\* att_idn and flag_idn are bytes.
Following(i) == IF job.kind \in {"attr", "flag"} THEN Byte(i + 1) ELSE i + 1

\* Mutant: an entry that is not read is met again.
NoIncrement(i) == i

\* continue
Skip(i) == Following(i)

Loop ==
  /\ pc = "loop" /\ Quiet
  /\ \/ Over(cur) /\ Ends(rc) /\ UNCHANGED cur
     \/ /\ ~ Over(cur) /\ Listed(cur)
        /\ Goes(IF job.kind = "uic" THEN "local" ELSE "get") /\ UNCHANGED cur
     \/ ~ Over(cur) /\ ~ Listed(cur) /\ cur' = Skip(cur) /\ UNCHANGED <<pc, rc>>
  /\ UNCHANGED <<dev, job, tries, mine, resultVars, initial>>

\* Mutant: READ_ALL stops at the first item that fails.
StopAtError(code) ==
  /\ rc' = code
  /\ IF All /\ code = "OK" THEN pc' = "loop" /\ cur' = Following(cur)
                           ELSE pc' = "exit" /\ UNCHANGED cur

\* After an attribute, a flag or a UniPro attribute.
Answered(code) ==
  /\ rc' = code
  /\ IF All THEN pc' = "loop" /\ cur' = Following(cur)
            ELSE pc' = "exit" /\ UNCHANGED cur

-----------------------------------------------------------------------------
(* Reading                                                                 *)

Shows(items) == shown' = shown \cup {<<i, dev[i]>> : i \in items}
Misses(items) == missed' = missed \cup items

\* read_single_attr and read_single_flag; the name of the last flag is looked
\* for behind the table.
GetValue ==
  /\ pc = "get" /\ job.kind \in {"attr", "flag"}
  /\ \/ Quiet /\ Shows({Item}) /\ Answered("OK") /\ UNCHANGED missed
     \/ /\ job.kind = "flag" /\ Number >= Len(FlagTable)
        /\ Quiet /\ pc' = "crash" /\ UNCHANGED <<cur, rc, shown, missed>>
     \/ /\ \E kind \in {"failed", "refused"} : Fault(kind)
        /\ Misses({Item}) /\ Answered("ERROR") /\ UNCHANGED shown
  /\ UNCHANGED <<dev, job, tries, mine, file, said, initial>>

\* do_desc with -a ends at the first result that is not 0.
DescAnswered(code) ==
  IF All
    THEN IF code = "OK"
           THEN pc' = "loop" /\ cur' = Following(cur) /\ UNCHANGED rc
           ELSE Ends("ERROR") /\ UNCHANGED cur
    ELSE Ends(code) /\ UNCHANGED cur

\* check_read_desc_size knows the size, or does not look.
Known(n) ==
  n \in {StringDesc, OtherDesc} \/ dev[<<"desc", n>>] \notin OddValues

Stores == job.data /\ ~ All /\ Number # FboDesc

\* store_data_file returns what write does.
StoredCode == IF Number = ConfDesc THEN "OK" ELSE "COUNT"

StoreFile(content) ==
  /\ UNCHANGED cur
  /\ \/ Quiet /\ file' = content /\ said' = "stored" /\ Ends(StoredCode)
     \/ /\ Fault("file") /\ file' = <<"partial", 0>> /\ said' = "stored"
        /\ Ends(StoredCode)
     \/ /\ Fault("file") /\ file' \in {file, <<"empty", 0>>}
        /\ Ends("ERROR") /\ UNCHANGED said

\* do_string_desc stores what it has, also after a failed read: nothing, or the
\* cleared buffer if the reply states a length.
StoreNothing ==
  /\ UNCHANGED cur /\ said' = "stored"
  /\ \/ file' = <<"empty", 0>> /\ Ends("OK")
     \/ file' = <<"zeros", 0>> /\ Ends("COUNT")

\* do_read_desc and what the function of each descriptor makes of it.
GetDesc ==
  /\ pc = "get" /\ job.kind = "desc"
  /\ \/ /\ Known(Number) /\ Shows({Item}) /\ UNCHANGED missed
        /\ \/ Stores /\ StoreFile(<<"stored", dev[Item]>>)
           \/ ~ Stores /\ Quiet /\ DescAnswered("OK") /\ UNCHANGED <<file, said>>
     \/ /\ ~ Known(Number) /\ Quiet /\ DescAnswered("WARNING")
        /\ UNCHANGED resultVars
     \/ /\ \E kind \in {"failed", "refused"} : Fault(kind)
        /\ Misses({Item}) /\ UNCHANGED shown
        /\ \/ Stores /\ Number = StringDesc /\ StoreNothing
           \/ /\ ~ (Stores /\ Number = StringDesc) /\ DescAnswered("ERROR")
              /\ UNCHANGED <<file, said>>
  /\ UNCHANGED <<dev, job, tries, mine, initial>>

\* ufshcd_dme_get_attr of the local end is not repeated.
GetLocal ==
  /\ pc = "local"
  /\ \/ Quiet /\ mine' = dev[<<"local", Number>>]
     \/ (\E kind \in {"failed", "refused"} : Fault(kind)) /\ mine' = Err
  /\ tries' = Retries /\ Goes("peer")
  /\ UNCHANGED <<dev, job, cur, resultVars, initial>>

BothEnds == {<<"local", Number>>, <<"peer", Number>>}

\* Mutant: the result of the last attribute only.
LastResult(good) == IF good THEN "OK" ELSE "ERROR"

\* ret of unipro_read
UicResult(good) == IF good THEN rc ELSE "ERROR"

\* unipro_read with both values: ERROR is a value as well.
Compared(theirs) ==
  IF mine # Err /\ theirs # Err
    THEN Shows(BothEnds) /\ Answered(UicResult(TRUE)) /\ UNCHANGED missed
    ELSE Misses(BothEnds) /\ Answered(UicResult(FALSE)) /\ UNCHANGED shown

\* A refusal by the peer is not repeated, a failing call is.
GetPeer ==
  /\ pc = "peer"
  /\ \/ Quiet /\ Compared(dev[<<"peer", Number>>]) /\ UNCHANGED tries
     \/ Fault("refused") /\ Compared(Err) /\ UNCHANGED tries
     \/ Fault("failed") /\ tries = 1 /\ Compared(Err) /\ UNCHANGED tries
     \/ /\ Fault("failed") /\ tries > 1 /\ tries' = tries - 1
        /\ UNCHANGED <<pc, cur, rc, shown, missed>>
  /\ UNCHANGED <<dev, job, mine, file, said, initial>>

-----------------------------------------------------------------------------
\* One request to set, clear, toggle or write: send_bsg_scsi_trs repeats it when
\* it was interrupted, whether or not the device has seen it, and nothing
\* repeats it when it failed.  The input file of a descriptor is read before.
SetValue ==
  /\ pc = "set"
  /\ \/ Quiet /\ dev' = Changed(dev) /\ Ends("OK")
     \/ Fault("twice") /\ dev' = Changed(Changed(dev)) /\ Ends("OK")
     \/ Fault("failed") /\ dev' \in {dev, Changed(dev)} /\ Ends("ERROR")
     \/ Fault("refused") /\ UNCHANGED dev /\ Ends("ERROR")
     \/ /\ job.kind = "desc" /\ job.idn # StringDesc
        /\ Fault("file") /\ UNCHANGED dev /\ Ends("ERROR")
  /\ UNCHANGED <<job, requestVars, resultVars, initial>>

Init ==
  /\ dev \in Devices /\ job \in Jobs
  /\ pc = "start" /\ rc = "OK"
  /\ cur = (IF job.kind = "flag" THEN 1 ELSE 0)
  /\ tries = 0 /\ mine = 0
  /\ file = <<IF job.opr = "WRITE" THEN "input" ELSE "old", 0>>
  /\ said = "none" /\ shown = {} /\ missed = {}
  /\ faults = 0 /\ trouble = {} /\ initial = dev

Next == Begin \/ Loop \/ GetValue \/ GetDesc \/ GetLocal \/ GetPeer \/ SetValue

\* A process that runs goes on, and every call returns.
Spec == Init /\ [][Next]_vars /\ WF_vars(Next)

-----------------------------------------------------------------------------
Places   == {"start", "loop", "get", "local", "peer", "set", "exit", "crash"}
Troubles == {"open", "failed", "refused", "twice", "file"}
Contents == ({"input", "old", "partial", "empty", "zeros"} \X {0})
              \cup ({"stored"} \X Values)

\* Types.  That cur is inside its table while an item is read keeps the loops of
\* READ_ALL inside theirs.
TypeOK ==
  /\ dev \in [Items -> Values] /\ initial \in Devices
  /\ job \in Jobs /\ pc \in Places
  /\ cur \in Nat
  /\ pc \in {"get", "local", "peer"} /\ All => ~ Over(cur)
  /\ tries \in 0 .. Retries /\ mine \in Values \cup {Err}
  /\ rc \in {"OK", "ERROR", "WARNING", "COUNT"}
  /\ file \in Contents /\ said \in {"none", "stored"}
  /\ shown \subseteq Items \X Values
  /\ missed \subseteq Items
  /\ faults \in Nat /\ trouble \subseteq Troubles

\* The item the user named.
Asked == <<IF job.kind = "uic" THEN job.side ELSE job.kind, job.idn>>

\* Whatever fails, at most the item the user named has another value, and then
\* the new one, which fits the width of the attribute; a run that only reads
\* changes nothing.  A run that ends well has made the change: but a toggle that
\* was interrupted may have been undone, a number of 256 or more names another
\* attribute or flag, and the new value is the lower 32 bits of -w.
TrueWrite ==
  job.idn < ByteSpan =>
    /\ \A i \in Items \ {Asked} : dev[i] = initial[i]
    /\ dev # initial =>
         /\ job.opr \notin {"READ", "READ_ALL"}
         /\ dev[Asked] = NewValue(initial[Asked])
         /\ job.kind = "attr" /\ InTable(AttrTable) =>
              \/ Entry(AttrTable).mode = "reserved"
              \/ dev[Asked] <= Entry(AttrTable).limit
    /\ pc = "exit" /\ rc = "OK" /\ "set" \in Outcomes =>
         \/ dev[Asked] = NewValue(initial[Asked])
         \/ job.opr = "TOGGLE" /\ "twice" \in trouble

ShownItems == {s[1] : s \in shown}
ListOf(kinds, places) == {<<k, i>> : k \in kinds, i \in {p \in places : Listed(p)}}
DescsUpTo(n) == {<<"desc", AllDescs[i]>> : i \in 1 .. n}

\* READ_ALL has asked for every readable item of its list and for no other, and
\* has shown those that answered.  The one of the descriptors shows a beginning
\* of its list, the whole list if it ends well.
ReadAllComplete ==
  pc = "exit" /\ All /\ "open" \notin trouble =>
    /\ ShownItems \cap missed = {}
    /\ job.kind = "attr" =>
         ShownItems \cup missed = ListOf({"attr"}, 0 .. AttrMax - 1)
    /\ job.kind = "flag" =>
         ShownItems \cup missed = ListOf({"flag"}, 1 .. Len(FlagTable) - 1)
    /\ job.kind = "uic" =>
         ShownItems \cup missed
           = ListOf({"local", "peer"}, 0 .. Len(MibTable) - 1)
    /\ job.kind = "desc" =>
         \E n \in 0 .. Len(AllDescs) :
           ShownItems = DescsUpTo(n) /\ (rc = "OK" <=> n = Len(AllDescs))

\* The last item READ_ALL asks for.
IsLast(item) ==
  \A later \in ShownItems \cup missed : later[2] <= item[2]

\* What the exit status says.  0 although an item could not be read: only when a
\* later attribute or flag could, or a string is stored.  An error although no
\* call failed: only for a stored file, whose size is returned, a descriptor of
\* an unknown size, an attribute with the value of ERROR, or an item the tables
\* refuse.  And a file that is said to be stored holds the descriptor.
ExitStatus ==
  pc = "exit" =>
    /\ rc = "OK" /\ missed # {} =>
         \/ /\ All /\ job.kind \in {"attr", "flag"}
            /\ \A item \in missed : ~ IsLast(item)
         \/ job.kind = "desc" /\ job.idn = StringDesc /\ said = "stored"
    /\ rc # "OK" /\ trouble = {} =>
         \/ rc = "COUNT" /\ said = "stored"
         \/ job.kind = "desc" /\ \E d \in Descs : ~ Known(d) /\ (All \/ d = job.idn)
         \/ job.kind = "uic" /\ \E i \in missed : dev[i] = Err
         \/ "refuse" \in Outcomes
    /\ said = "stored" /\ trouble = {} => file = <<"stored", dev[Item]>>

\* Every run ends.
QueryEnds == <>(pc \in {"exit", "crash"})
=============================================================================

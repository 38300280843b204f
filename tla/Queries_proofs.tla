--------------------------- MODULE Queries_proofs ---------------------------
(***************************************************************************)
(* Theorems about Queries for every table, device, option and number of    *)
(* failing calls.                                                          *)
(***************************************************************************)
EXTENDS Queries, SequenceTheorems, TLAPS

\* Toggling presupposes that a flag has one of two values.
FlagInv ==
  \A i \in Bytes : dev[<<"flag", i>>] \in {0, 1}

\* Which part of the tool the options lead to.
PlaceInv ==
  /\ pc \in {"loop", "get", "local", "peer"} => "set" \notin Outcomes
  /\ pc = "set" => "set" \in Outcomes
  /\ pc = "loop" => All
  /\ pc = "get" => job.kind # "uic"
  /\ pc \in {"local", "peer"} => job.kind = "uic"
  /\ pc = "peer" => tries > 0
  /\ pc \in {"start", "loop", "get", "local", "peer", "set"} => dev = initial

QueryInv == TypeOK /\ FlagInv /\ PlaceInv

-----------------------------------------------------------------------------
(* Options and items                                                       *)

LEMMA ByteFacts ==
  /\ \A i \in Nat : Byte(i) \in Bytes
  /\ \A i \in Bytes : Byte(i) = i /\ i \in Nat
<1>1. ByteSpan \in Nat /\ ByteSpan > 0
  BY TablesAssumption
<1>2. ASSUME NEW i \in Nat
      PROVE  i % ByteSpan \in 0 .. ByteSpan - 1
  BY <1>1, SMT
<1>3. ASSUME NEW i \in 0 .. ByteSpan - 1
      PROVE  i % ByteSpan = i
  BY <1>1, SMT
<1>4. QED
  BY <1>1, <1>2, <1>3 DEF Byte, Bytes

LEMMA JobParts ==
  ASSUME NEW K, NEW O, NEW I, NEW V, NEW D, NEW S, NEW j \in Job(K, O, I, V, D, S)
  PROVE  /\ j.kind \in K /\ j.opr \in O /\ j.idn \in I /\ j.value \in V
         /\ j.side \in S
BY DEF Job

LEMMA JobFacts ==
  ASSUME NEW j \in Jobs
  PROVE  /\ j.kind \in {"attr", "flag", "desc", "uic"}
         /\ j.idn \in Nat /\ j.value \in Values
         /\ j.opr \in {"READ_ALL", "READ", "WRITE", "CLEAR", "SET", "TOGGLE"}
         /\ j.kind = "desc" => j.idn \in Descs
         /\ j.kind = "uic" => j.idn \in 0 .. MibMax
         /\ j.opr \in {"CLEAR", "SET", "TOGGLE"} => j.kind = "flag"
         /\ j.opr = "WRITE" => j.kind # "flag"
         /\ j.side \in {"local", "peer"}
<1>1. /\ MibMax \in Nat /\ 0 \in Values /\ Kept \subseteq Values
      /\ Idns \subseteq Nat
      /\ 0 \in 0 .. MibMax /\ 0 .. MibMax \subseteq Nat
      /\ 0 \in Descs /\ Descs \subseteq Nat
  BY TablesAssumption, ValuesAssumption DEF Descs
<1>2. CASE j \in AttrJobs
  <2>1. /\ j.kind = "attr" /\ j.opr \in {"READ_ALL", "READ", "WRITE"}
        /\ j.idn \in Idns \cup {0} /\ j.value \in Kept \cup {0}
        /\ j.side = "local"
    BY <1>2, JobParts DEF AttrJobs
  <2>2. QED
    BY <1>1, <2>1
<1>3. CASE j \in FlagJobs
  <2>1. /\ j.kind = "flag"
        /\ j.opr \in {"READ_ALL", "READ", "CLEAR", "SET", "TOGGLE"}
        /\ j.idn \in Idns \cup {0} /\ j.value = 0
        /\ j.side = "local"
    BY <1>3, JobParts DEF FlagJobs
  <2>2. QED
    BY <1>1, <2>1
<1>4. CASE j \in DescJobs
  <2>1. /\ j.kind = "desc" /\ j.opr \in {"READ_ALL", "READ", "WRITE"}
        /\ j.idn \in Descs \cup {0} /\ j.value \in Values \cup {0}
        /\ j.side = "local"
    BY <1>4, JobParts DEF DescJobs
  <2>2. QED
    BY <1>1, <2>1
<1>5. CASE j \in UicJobs
  <2>1. /\ j.kind = "uic" /\ j.opr \in {"READ_ALL", "READ", "WRITE"}
        /\ j.idn \in (0 .. MibMax) \cup {0} /\ j.value \in Kept \cup {0}
        /\ j.side \in {"local", "peer"}
    <3>1. CASE j \in Job({"uic"}, {"READ_ALL"}, {0}, {0}, {FALSE}, {"local"})
      BY <3>1, JobParts
    <3> DEFINE N == 0 .. MibMax
    <3>2. UicJobs =
            Job({"uic"}, {"READ_ALL"}, {0}, {0}, {FALSE}, {"local"})
              \cup Job({"uic"}, {"READ"}, N, {0}, {FALSE}, {"local"})
              \cup Job({"uic"}, {"WRITE"}, N, Kept, {FALSE}, {"local", "peer"})
      BY DEF UicJobs
    <3> HIDE DEF N
    <3>3. CASE j \in Job({"uic"}, {"READ"}, N, {0}, {FALSE}, {"local"})
      <4>1. /\ j.kind \in {"uic"} /\ j.opr \in {"READ"} /\ j.idn \in N
            /\ j.value \in {0} /\ j.side \in {"local"}
        BY <3>3, JobParts
      <4>2. QED
        BY <4>1 DEF N
    <3>4. CASE j \in Job({"uic"}, {"WRITE"}, N, Kept, {FALSE}, {"local", "peer"})
      <4>1. /\ j.kind \in {"uic"} /\ j.opr \in {"WRITE"} /\ j.idn \in N
            /\ j.value \in Kept /\ j.side \in {"local", "peer"}
        BY <3>4, JobParts
      <4>2. QED
        BY <1>1, <4>1 DEF N
    <3>5. QED
      BY <1>5, <3>1, <3>2, <3>3, <3>4
  <2>2. QED
    BY <1>1, <2>1
<1>6. QED
  BY <1>2, <1>3, <1>4, <1>5 DEF Jobs

LEMMA KindsOfItems ==
  /\ \A i \in Bytes : <<"attr", i>> \in Items /\ <<"flag", i>> \in Items
  /\ \A i \in Descs : <<"desc", i>> \in Items
  /\ \A i \in 0 .. MibMax : <<"local", i>> \in Items /\ <<"peer", i>> \in Items
BY DEF Items

\* The item a set request names.
LEMMA NamedFacts ==
  ASSUME TypeOK, ~ All
  PROVE  /\ Named \in Items
         /\ job.idn < ByteSpan => Named = Asked
         /\ job.kind = "flag" => \E i \in Bytes : Named = <<"flag", i>>
         /\ job.kind # "flag" => \A i \in Bytes : Named # <<"flag", i>>
<1>1. /\ job.kind \in {"attr", "flag", "desc", "uic"} /\ job.idn \in Nat
      /\ job.kind = "desc" => job.idn \in Descs
      /\ job.kind = "uic" => job.idn \in 0 .. MibMax
      /\ job.side \in {"local", "peer"}
  BY JobFacts DEF TypeOK
<1>2. job.idn < ByteSpan => job.idn \in Bytes
  BY <1>1, TablesAssumption DEF Bytes
<1>3. CASE job.kind \in {"attr", "flag"}
  <2>1. Number = Byte(job.idn) /\ Byte(job.idn) \in Bytes
    BY <1>1, <1>3, ByteFacts DEF Number
  <2>2. Named = <<job.kind, Byte(job.idn)>>
    BY <1>3, <2>1 DEF Named
  <2>3. job.idn < ByteSpan => Byte(job.idn) = job.idn
    BY <1>2, ByteFacts
  <2>4. QED
    BY <1>3, <2>1, <2>2, <2>3, KindsOfItems DEF Asked
<1>4. CASE job.kind \in {"desc", "uic"}
  <2>1. Number = job.idn
    BY <1>4 DEF Number
  <2>2. Named = Asked
    BY <2>1 DEF Named, Asked
  <2>3. QED
    BY <1>1, <1>4, <2>2, KindsOfItems DEF Asked
<1>5. QED
  BY <1>1, <1>3, <1>4

LEMMA PlaceRange ==
  /\ \A i \in Nat : i < AttrMax => i \in Bytes
  /\ \A i \in Nat : i < Len(FlagTable) => i \in Bytes
  /\ \A i \in Nat : i < Len(MibTable) => i \in 0 .. MibMax
  /\ \A i \in Nat : i < Len(AllDescs) => AllDescs[i + 1] \in Descs
<1>1. /\ AttrMax \in Nat /\ AttrMax < ByteSpan /\ ByteSpan \in Nat
      /\ Len(FlagTable) \in Nat /\ Len(FlagTable) < ByteSpan
      /\ Len(MibTable) \in Nat /\ Len(MibTable) <= MibMax /\ MibMax \in Nat
  BY TablesAssumption, LoopsAssumption
<1>2. ASSUME NEW i \in Nat, i < Len(AllDescs)
      PROVE  AllDescs[i + 1] \in Descs
  <2>1. AllDescs \in Seq(Descs) /\ Len(AllDescs) = 7
    BY DEF AllDescs, Descs
  <2>2. i + 1 \in 1 .. Len(AllDescs)
    BY <1>2, <2>1
  <2>3. QED
    BY <2>1, <2>2, ElementOfSeq
<1>3. QED
  BY <1>1, <1>2 DEF Bytes

\* The item a read request names.
LEMMA ItemTyped ==
  ASSUME TypeOK, pc = "get", job.kind # "uic"
  PROVE  Item \in Items
<1>1. /\ job.kind \in {"attr", "flag", "desc"} /\ job.idn \in Nat
      /\ job.kind = "desc" => job.idn \in Descs
      /\ cur \in Nat
  BY JobFacts DEF TypeOK
<1>2. CASE ~ All
  <2>1. job.kind \in {"attr", "flag"} => Number \in Bytes
    BY <1>1, <1>2, ByteFacts DEF Number
  <2>2. job.kind = "desc" => Number \in Descs
    BY <1>1, <1>2 DEF Number
  <2>3. QED
    BY <1>1, <2>1, <2>2, KindsOfItems DEF Item
<1>3. CASE All
  <2>1. ~ Over(cur)
    BY <1>3 DEF TypeOK
  <2>2. job.kind = "attr" => cur < AttrMax
    BY <1>1, <2>1, TablesAssumption DEF Over
  <2>3. job.kind = "flag" => cur < Len(FlagTable)
    BY <1>1, <2>1, TablesAssumption DEF Over
  <2>4. job.kind = "desc" => cur < Len(AllDescs)
    BY <1>1, <2>1 DEF Over, AllDescs
  <2>5. Number = IF job.kind = "desc" THEN AllDescs[cur + 1] ELSE cur
    BY <1>3 DEF Number
  <2>6. QED
    BY <1>1, <2>2, <2>3, <2>4, <2>5, PlaceRange, KindsOfItems DEF Item
<1>4. QED
  BY <1>2, <1>3

LEMMA BothEndsTyped ==
  ASSUME TypeOK, pc \in {"local", "peer"}, job.kind = "uic"
  PROVE  BothEnds \subseteq Items /\ Number \in 0 .. MibMax
<1>1. job.idn \in 0 .. MibMax /\ cur \in Nat
  BY JobFacts DEF TypeOK
<1>2. All => ~ (cur >= Len(MibTable))
  BY DEF TypeOK, Over
<1>3. All => cur < Len(MibTable)
  BY <1>1, <1>2, TablesAssumption
<1>4. Number = IF All THEN cur ELSE job.idn
  BY DEF Number
<1>5. Number \in 0 .. MibMax
  BY <1>1, <1>3, <1>4, PlaceRange
<1>6. QED
  BY <1>5, KindsOfItems DEF BothEnds

-----------------------------------------------------------------------------
(* Where the options lead                                                  *)

LEMMA OutcomesFacts ==
  ASSUME TypeOK
  PROVE  /\ All => Outcomes = {"loop"}
         /\ "set" \in Outcomes => ~ All /\ job.opr # "READ"
         /\ "get" \in Outcomes => "set" \notin Outcomes /\ ~ All
                                  /\ job.kind # "uic"
         /\ "local" \in Outcomes => "set" \notin Outcomes /\ ~ All
                                    /\ job.kind = "uic"
         /\ "loop" \in Outcomes => All
         /\ "write_only" \in Outcomes => "set" \notin Outcomes
<1>1. /\ job.kind \in {"attr", "flag", "desc", "uic"}
      /\ job.opr \in {"READ_ALL", "READ", "WRITE", "CLEAR", "SET", "TOGGLE"}
      /\ job.opr \in {"CLEAR", "SET", "TOGGLE"} => job.kind = "flag"
      /\ job.opr = "WRITE" => job.kind # "flag"
  BY JobFacts DEF TypeOK
<1>2. CASE All
  <2>1. Outcomes = {"loop"}
    BY <1>2 DEF Outcomes, All
  <2>2. QED
    BY <1>2, <2>1
<1>3. CASE ~ All /\ job.kind = "desc"
  BY <1>3 DEF Outcomes, DescOutcomes
<1>4. CASE ~ All /\ job.kind = "uic"
  BY <1>1, <1>4 DEF Outcomes, UicOutcomes, All
<1>5. CASE ~ All /\ job.kind = "attr" /\ job.opr = "READ"
  <2>1. Outcomes = ReadOutcomes(AttrTable)
    BY <1>5 DEF Outcomes
  <2>2. QED
    BY <1>5, <2>1 DEF ReadOutcomes
<1>6. CASE ~ All /\ job.kind = "flag" /\ job.opr = "READ"
  <2>1. Outcomes = ReadOutcomes(FlagTable)
    BY <1>6 DEF Outcomes
  <2>2. QED
    BY <1>6, <2>1 DEF ReadOutcomes
<1>7. CASE ~ All /\ job.kind = "attr" /\ job.opr = "WRITE"
  <2>1. Outcomes = WriteOutcomes
    BY <1>7 DEF Outcomes
  <2>2. QED
    BY <1>7, <2>1 DEF WriteOutcomes
<1>8. CASE ~ All /\ job.kind = "flag" /\ job.opr \in {"CLEAR", "SET", "TOGGLE"}
  <2>1. Outcomes = {"set"}
    BY <1>8 DEF Outcomes
  <2>2. QED
    BY <1>8, <2>1
<1>9. \/ All
      \/ ~ All /\ job.kind = "desc"
      \/ ~ All /\ job.kind = "uic"
      \/ ~ All /\ job.kind = "attr" /\ job.opr = "READ"
      \/ ~ All /\ job.kind = "flag" /\ job.opr = "READ"
      \/ ~ All /\ job.kind = "attr" /\ job.opr = "WRITE"
      \/ ~ All /\ job.kind = "flag" /\ job.opr \in {"CLEAR", "SET", "TOGGLE"}
  BY <1>1 DEF All
<1>10. QED
  BY <1>2, <1>3, <1>4, <1>5, <1>6, <1>7, <1>8, <1>9

-----------------------------------------------------------------------------
(* Types                                                                   *)

LEMMA FaultTyped ==
  ASSUME TypeOK, \/ Quiet
                 \/ \E kind \in Troubles : Fault(kind)
  PROVE  faults' \in Nat /\ trouble' \subseteq Troubles
BY DEF TypeOK, Quiet, faultVars, Fault

LEMMA SameJob ==
  ASSUME UNCHANGED job
  PROVE  All' = All /\ Outcomes' = Outcomes
BY DEF All, Outcomes, DescOutcomes, UicOutcomes, ReadOutcomes, WriteOutcomes,
       InTable, Entry, TooWide

\* What a step has to respect, with the options as they are.
LEMMA KeepsInv ==
  ASSUME QueryInv, UNCHANGED <<job, initial>>,
         dev' \in [Items -> Values], FlagInv',
         pc' \in Places, cur' \in Nat,
         pc' \in {"get", "local", "peer"} /\ All => cur' = cur /\ ~ Over(cur),
         tries' \in 0 .. Retries, mine' \in Values \cup {Err},
         rc' \in {"OK", "ERROR", "WARNING", "COUNT"},
         file' \in Contents, said' \in {"none", "stored"},
         shown' \subseteq Items \X Values, missed' \subseteq Items,
         faults' \in Nat, trouble' \subseteq Troubles,
         pc' \in {"loop", "get", "local", "peer"} => "set" \notin Outcomes,
         pc' = "set" => "set" \in Outcomes,
         pc' = "loop" => All,
         pc' = "get" => job.kind # "uic",
         pc' \in {"local", "peer"} => job.kind = "uic",
         pc' = "peer" => tries' > 0,
         pc' \notin {"exit", "crash"} => dev' = initial
  PROVE  QueryInv'
<1>1. All' = All /\ Outcomes' = Outcomes
  BY SameJob
<1>2. cur' = cur => Over(cur)' = Over(cur)
  BY DEF Over
<1>3. TypeOK'
  BY <1>1, <1>2 DEF TypeOK, QueryInv
<1>4. PlaceInv'
  BY <1>1 DEF PlaceInv
<1>5. QED
  BY <1>3, <1>4 DEF QueryInv

LEMMA BeginTyped ==
  ASSUME QueryInv, Begin
  PROVE  QueryInv'
<1>1. /\ TypeOK /\ FlagInv /\ pc = "start" /\ dev = initial
      /\ UNCHANGED <<dev, job, cur, tries, mine, file, said, shown, missed, initial>>
  BY DEF QueryInv, PlaceInv, Begin, requestVars, resultVars
<1>2. faults' \in Nat /\ trouble' \subseteq Troubles
  BY <1>1, FaultTyped DEF Begin, Troubles
<1>3. /\ pc' \in {"loop", "get", "local", "set", "crash", "exit"}
      /\ rc' \in {"OK", "ERROR", "WARNING", "COUNT"}
      /\ pc' \in {"loop", "get", "local", "set"} => pc' \in Outcomes
  BY <1>1 DEF Begin, Goes, Ends, TypeOK
<1>4. FlagInv'
  BY <1>1 DEF FlagInv
<1>5. QED
  BY <1>1, <1>2, <1>3, <1>4, OutcomesFacts, KeepsInv DEF TypeOK, Places

LEMMA LoopTyped ==
  ASSUME QueryInv, Loop
  PROVE  QueryInv'
<1>1. /\ TypeOK /\ FlagInv /\ pc = "loop" /\ dev = initial /\ All
      /\ "set" \notin Outcomes
      /\ UNCHANGED <<dev, job, tries, mine, file, said, shown, missed, initial,
                     faults, trouble>>
  BY DEF QueryInv, PlaceInv, Loop, resultVars, Quiet, faultVars
<1>2. /\ pc' \in {"exit", "get", "local", "loop"} /\ rc' = rc
      /\ pc' \in {"get", "local"} => cur' = cur /\ ~ Over(cur)
      /\ pc' = "local" <=> pc' \in {"get", "local"} /\ job.kind = "uic"
  BY <1>1 DEF Loop, Ends, Goes
<1>3. cur' \in Nat
  <2>1. cur \in Nat /\ cur + 1 \in Nat /\ Byte(cur + 1) \in Nat
    BY <1>1, ByteFacts DEF TypeOK
  <2>2. cur' \in {cur, Skip(cur)}
    BY DEF Loop
  <2>3. QED
    BY <2>1, <2>2 DEF Skip, Following
<1>4. FlagInv'
  BY <1>1 DEF FlagInv
<1>5. QED
  BY <1>1, <1>2, <1>3, <1>4, KeepsInv DEF TypeOK, Places

\* After an answer READ_ALL goes on and everything else ends.
LEMMA AnsweredFacts ==
  ASSUME TypeOK, NEW code, Answered(code)
  PROVE  /\ rc' = code /\ cur' \in Nat
         /\ (pc' = "loop" /\ All) \/ (pc' = "exit" /\ ~ All)
<1>1. cur \in Nat /\ cur + 1 \in Nat /\ Byte(cur + 1) \in Nat
  BY ByteFacts DEF TypeOK
<1>2. cur' \in {cur, Following(cur)}
  BY DEF Answered
<1>3. Following(cur) \in Nat
  BY <1>1 DEF Following
<1>4. rc' = code
  BY DEF Answered
<1>5. \/ pc' = "loop" /\ All
      \/ pc' = "exit" /\ ~ All
  <2>1. CASE All
    BY <2>1 DEF Answered
  <2>2. CASE ~ All
    BY <2>2 DEF Answered
  <2>3. QED
    BY <2>1, <2>2
<1>6. QED
  BY <1>1, <1>2, <1>3, <1>4, <1>5

LEMMA ShowsTyped ==
  ASSUME TypeOK, NEW items \in SUBSET Items
  PROVE  /\ Shows(items) => shown' \subseteq Items \X Values
         /\ Misses(items) => missed' \subseteq Items
BY DEF TypeOK, Shows, Misses

LEMMA GetValueTyped ==
  ASSUME QueryInv, GetValue
  PROVE  QueryInv'
<1>1. /\ TypeOK /\ FlagInv /\ pc = "get" /\ dev = initial
      /\ "set" \notin Outcomes /\ job.kind # "uic"
      /\ UNCHANGED <<dev, job, tries, mine, file, said, initial>>
  BY DEF QueryInv, PlaceInv, GetValue
<1>2. faults' \in Nat /\ trouble' \subseteq Troubles
  BY <1>1, FaultTyped DEF GetValue, Troubles
<1>3. /\ (pc' = "loop" /\ All) \/ pc' \in {"exit", "crash"}
      /\ rc' \in {"OK", "ERROR", "WARNING", "COUNT"} /\ cur' \in Nat
  <2>1. CASE Answered("OK") \/ Answered("ERROR")
    BY <1>1, <2>1, AnsweredFacts
  <2>2. CASE pc' = "crash" /\ UNCHANGED <<cur, rc>>
    BY <1>1, <2>2 DEF TypeOK
  <2>3. QED
    BY <2>1, <2>2 DEF GetValue
<1>4. shown' \subseteq Items \X Values /\ missed' \subseteq Items
  <2>1. {Item} \in SUBSET Items
    BY <1>1, ItemTyped
  <2>2. QED
    BY <1>1, <2>1, ShowsTyped DEF GetValue, TypeOK
<1>5. FlagInv'
  BY <1>1 DEF FlagInv
<1>6. QED
  BY <1>1, <1>2, <1>3, <1>4, <1>5, KeepsInv DEF TypeOK, Places

LEMMA GetDescTyped ==
  ASSUME QueryInv, GetDesc
  PROVE  QueryInv'
<1>1. /\ TypeOK /\ FlagInv /\ pc = "get" /\ dev = initial
      /\ "set" \notin Outcomes /\ job.kind # "uic"
      /\ UNCHANGED <<dev, job, tries, mine, initial>>
  BY DEF QueryInv, PlaceInv, GetDesc
<1>2. faults' \in Nat /\ trouble' \subseteq Troubles
  BY <1>1, FaultTyped DEF GetDesc, StoreFile, Troubles
<1>3. Item \in Items /\ dev[Item] \in Values
  BY <1>1, ItemTyped DEF TypeOK
<1>4. /\ (pc' = "loop" /\ All) \/ pc' = "exit"
      /\ rc' \in {"OK", "ERROR", "WARNING", "COUNT"} /\ cur' \in Nat
      /\ file' \in Contents /\ said' \in {"none", "stored"}
  <2>1. ASSUME NEW code \in {"OK", "ERROR", "WARNING"}, DescAnswered(code)
        PROVE  /\ (pc' = "loop" /\ All) \/ pc' = "exit"
               /\ rc' \in {"OK", "ERROR", "WARNING", "COUNT"} /\ cur' \in Nat
    <3>1. cur \in Nat /\ cur + 1 \in Nat /\ Byte(cur + 1) \in Nat
      BY <1>1, ByteFacts DEF TypeOK
    <3>2. cur' \in {cur, Following(cur)}
      BY <2>1 DEF DescAnswered
    <3>3. cur' \in Nat
      BY <3>1, <3>2 DEF Following
    <3>4. QED
      BY <1>1, <2>1, <3>3 DEF DescAnswered, Ends, TypeOK
  <2>2. CASE StoreFile(<<"stored", dev[Item]>>) \/ StoreNothing
    BY <1>1, <1>3, <2>2
    DEF StoreFile, StoreNothing, StoredCode, Ends, TypeOK, Contents
  <2>3. CASE \E code \in {"OK", "ERROR", "WARNING"} :
               DescAnswered(code) /\ UNCHANGED <<file, said>>
    BY <1>1, <2>1, <2>3 DEF TypeOK
  <2>4. QED
    BY <2>2, <2>3 DEF GetDesc, resultVars
<1>5. shown' \subseteq Items \X Values /\ missed' \subseteq Items
  <2>1. {Item} \in SUBSET Items
    BY <1>3
  <2>2. QED
    BY <1>1, <2>1, ShowsTyped DEF GetDesc, TypeOK, resultVars
<1>6. FlagInv'
  BY <1>1 DEF FlagInv
<1>7. QED
  BY <1>1, <1>2, <1>4, <1>5, <1>6, KeepsInv DEF TypeOK, Places

LEMMA GetLocalTyped ==
  ASSUME QueryInv, GetLocal
  PROVE  QueryInv'
<1>1. /\ TypeOK /\ FlagInv /\ pc = "local" /\ dev = initial
      /\ "set" \notin Outcomes /\ job.kind = "uic"
      /\ UNCHANGED <<dev, job, cur, file, said, shown, missed, initial, rc>>
  BY DEF QueryInv, PlaceInv, GetLocal, resultVars, Goes
<1>2. faults' \in Nat /\ trouble' \subseteq Troubles
  BY <1>1, FaultTyped DEF GetLocal, Troubles
<1>3. mine' \in Values \cup {Err}
  <2>1. <<"local", Number>> \in Items
    BY <1>1, BothEndsTyped, KindsOfItems
  <2>2. QED
    BY <1>1, <2>1 DEF GetLocal, TypeOK
<1>4. pc' = "peer" /\ tries' \in 0 .. Retries /\ tries' > 0
  BY QueryBounds DEF GetLocal, Goes
<1>5. FlagInv'
  BY <1>1 DEF FlagInv
<1>6. All => ~ Over(cur)
  BY <1>1 DEF TypeOK
<1>7. QED
  BY <1>1, <1>2, <1>3, <1>4, <1>5, <1>6, KeepsInv DEF TypeOK, Places

LEMMA GetPeerTyped ==
  ASSUME QueryInv, GetPeer
  PROVE  QueryInv'
<1>1. /\ TypeOK /\ FlagInv /\ pc = "peer" /\ dev = initial
      /\ "set" \notin Outcomes /\ job.kind = "uic" /\ tries > 0
      /\ UNCHANGED <<dev, job, mine, file, said, initial>>
  BY DEF QueryInv, PlaceInv, GetPeer
<1>2. faults' \in Nat /\ trouble' \subseteq Troubles
  BY <1>1, FaultTyped DEF GetPeer, Troubles
<1>3. All => ~ Over(cur)
  BY <1>1 DEF TypeOK
<1>4. FlagInv'
  BY <1>1 DEF FlagInv
<1>5. CASE \E theirs : Compared(theirs) /\ UNCHANGED tries
  <2>1. /\ rc' \in {"OK", "ERROR", "WARNING", "COUNT"} /\ cur' \in Nat
        /\ (pc' = "loop" /\ All) \/ pc' = "exit"
    <3>1. \E good \in BOOLEAN : Answered(UicResult(good))
      BY <1>5 DEF Compared
    <3>2. QED
      BY <1>1, <3>1, AnsweredFacts DEF UicResult, TypeOK
  <2>2. shown' \subseteq Items \X Values /\ missed' \subseteq Items
    <3>1. BothEnds \in SUBSET Items
      BY <1>1, BothEndsTyped
    <3>2. QED
      BY <1>1, <1>5, <3>1, ShowsTyped DEF Compared, TypeOK
  <2>3. QED
    BY <1>1, <1>2, <1>4, <1>5, <2>1, <2>2, KeepsInv DEF TypeOK, Places
<1>6. CASE tries > 1 /\ tries' = tries - 1 /\ UNCHANGED <<pc, cur, rc, shown, missed>>
  <2>1. tries' \in 0 .. Retries /\ tries' > 0
    BY <1>1, <1>6, QueryBounds DEF TypeOK
  <2>2. QED
    BY <1>1, <1>2, <1>3, <1>4, <1>6, <2>1, KeepsInv DEF TypeOK, Places
<1>7. QED
  BY <1>5, <1>6 DEF GetPeer

-----------------------------------------------------------------------------
(* Writing                                                                 *)

\* The values of flags and what a request makes of them.
LEMMA ChangedTyped ==
  ASSUME TypeOK, ~ All, job.opr # "READ", NEW d \in [Items -> Values],
         \A i \in Bytes : d[<<"flag", i>>] \in {0, 1}
  PROVE  /\ Changed(d) \in [Items -> Values]
         /\ \A i \in Bytes : Changed(d)[<<"flag", i>>] \in {0, 1}
         /\ Changed(d)[Named] = NewValue(d[Named])
         /\ \A i \in Items \ {Named} : Changed(d)[i] = d[i]
<1>1. /\ job.kind \in {"attr", "flag", "desc", "uic"} /\ job.value \in Values
      /\ job.opr \in {"READ", "WRITE", "CLEAR", "SET", "TOGGLE"}
      /\ job.opr \in {"CLEAR", "SET", "TOGGLE"} => job.kind = "flag"
      /\ job.opr = "WRITE" => job.kind # "flag"
  BY JobFacts DEF TypeOK, All
<1>2. Named \in Items
  BY NamedFacts
<1>3. /\ Changed(d) = [d EXCEPT ![Named] = NewValue(d[Named])]
      /\ DOMAIN d = Items
  BY DEF Changed
<1>4. /\ Changed(d)[Named] = NewValue(d[Named])
      /\ \A i \in Items \ {Named} : Changed(d)[i] = d[i]
  BY <1>2, <1>3
<1>5. CASE job.kind = "flag"
  <2>1. PICK b \in Bytes : Named = <<"flag", b>>
    BY <1>5, NamedFacts
  <2>2. d[Named] \in {0, 1}
    BY <2>1
  <2>3. NewValue(d[Named]) \in {0, 1}
    BY <1>1, <1>5, <2>2 DEF NewValue
  <2>4. {0, 1} \subseteq Values
    BY ValuesAssumption
  <2>5. ASSUME NEW i \in Bytes
        PROVE  Changed(d)[<<"flag", i>>] \in {0, 1}
    <3>1. <<"flag", i>> \in Items
      BY KindsOfItems
    <3>2. QED
      BY <1>4, <2>3, <3>1
  <2>6. QED
    BY <1>2, <1>3, <1>4, <2>3, <2>4, <2>5
<1>6. CASE job.kind # "flag"
  <2>1. NewValue(d[Named]) = job.value
    BY <1>1, <1>6 DEF NewValue
  <2>2. Changed(d) \in [Items -> Values]
    BY <1>1, <1>2, <1>3, <2>1
  <2>3. ASSUME NEW i \in Bytes
        PROVE  Changed(d)[<<"flag", i>>] \in {0, 1}
    <3>1. <<"flag", i>> \in Items /\ <<"flag", i>> # Named
      BY <1>6, KindsOfItems, NamedFacts
    <3>2. QED
      BY <1>4, <3>1
  <2>4. QED
    BY <1>4, <2>2, <2>3
<1>7. QED
  BY <1>5, <1>6

\* Two times toggled is not toggled; everything else may be done twice.
LEMMA ChangedTwice ==
  ASSUME TypeOK, FlagInv, ~ All, job.opr # "READ"
  PROVE  /\ Changed(Changed(dev)) \in [Items -> Values]
         /\ \A i \in Bytes : Changed(Changed(dev))[<<"flag", i>>] \in {0, 1}
         /\ \A i \in Items \ {Named} : Changed(Changed(dev))[i] = dev[i]
         /\ job.opr = "TOGGLE" => Changed(Changed(dev)) = dev
         /\ job.opr # "TOGGLE" =>
              Changed(Changed(dev))[Named] = NewValue(dev[Named])
<1> DEFINE once == Changed(dev)
           twice == Changed(once)
<1>1. /\ once \in [Items -> Values]
      /\ \A i \in Bytes : once[<<"flag", i>>] \in {0, 1}
      /\ once[Named] = NewValue(dev[Named])
      /\ \A i \in Items \ {Named} : once[i] = dev[i]
  BY ChangedTyped DEF TypeOK, FlagInv
<1> HIDE DEF once
<1>2. /\ twice \in [Items -> Values]
      /\ \A i \in Bytes : twice[<<"flag", i>>] \in {0, 1}
      /\ twice[Named] = NewValue(once[Named])
      /\ \A i \in Items \ {Named} : twice[i] = once[i]
  BY <1>1, ChangedTyped
<1> HIDE DEF twice
<1>3. \A i \in Items \ {Named} : twice[i] = dev[i]
  BY <1>1, <1>2
<1>4. job.opr # "TOGGLE" => twice[Named] = NewValue(dev[Named])
  BY <1>1, <1>2 DEF NewValue
<1>5. ASSUME job.opr = "TOGGLE"
      PROVE  twice = dev
  <2>1. job.kind = "flag"
    BY <1>5, JobFacts DEF TypeOK
  <2>2. dev[Named] \in {0, 1}
    BY <2>1, NamedFacts DEF FlagInv
  <2>3. twice[Named] = 1 - (1 - dev[Named])
    BY <1>1, <1>2, <1>5 DEF NewValue
  <2>4. twice[Named] = dev[Named]
    BY <2>2, <2>3
  <2>5. \A i \in Items : twice[i] = dev[i]
    BY <1>3, <2>4
  <2>6. QED
    BY <1>2, <2>5 DEF TypeOK
<1>6. QED
  BY <1>2, <1>3, <1>4, <1>5 DEF once, twice

\* What a request to set leaves, whatever becomes of it.
LEMMA SetFacts ==
  ASSUME QueryInv, SetValue
  PROVE  /\ dev' \in [Items -> Values] /\ FlagInv'
         /\ pc' = "exit" /\ rc' \in {"OK", "ERROR"}
         /\ \A i \in Items \ {Named} : dev'[i] = initial[i]
         /\ dev' = initial \/ dev'[Named] = NewValue(initial[Named])
         /\ rc' = "OK" => \/ dev'[Named] = NewValue(initial[Named])
                          \/ job.opr = "TOGGLE" /\ "twice" \in trouble'
<1>1. TypeOK /\ FlagInv /\ dev = initial /\ ~ All /\ job.opr # "READ"
  BY OutcomesFacts DEF QueryInv, PlaceInv, SetValue
<1>2. CASE UNCHANGED dev /\ Ends("ERROR")
  BY <1>1, <1>2 DEF Ends, TypeOK, FlagInv
<1>3. CASE dev' = Changed(dev) /\ (Ends("OK") \/ Ends("ERROR"))
  <2>1. /\ dev' \in [Items -> Values]
        /\ \A i \in Bytes : dev'[<<"flag", i>>] \in {0, 1}
        /\ dev'[Named] = NewValue(dev[Named])
        /\ \A i \in Items \ {Named} : dev'[i] = dev[i]
    BY <1>1, <1>3, ChangedTyped DEF TypeOK, FlagInv
  <2>2. QED
    BY <1>1, <1>3, <2>1 DEF Ends, FlagInv
<1>4. CASE Fault("twice") /\ dev' = Changed(Changed(dev)) /\ Ends("OK")
  <2>1. /\ dev' \in [Items -> Values]
        /\ \A i \in Bytes : dev'[<<"flag", i>>] \in {0, 1}
        /\ \A i \in Items \ {Named} : dev'[i] = dev[i]
        /\ job.opr = "TOGGLE" => dev' = dev
        /\ job.opr # "TOGGLE" => dev'[Named] = NewValue(dev[Named])
    BY <1>1, <1>4, ChangedTwice
  <2>2. "twice" \in trouble'
    BY <1>4 DEF Fault
  <2>3. QED
    BY <1>1, <1>4, <2>1, <2>2 DEF Ends, FlagInv
<1>5. QED
  BY <1>2, <1>3, <1>4 DEF SetValue

LEMMA SetValueTyped ==
  ASSUME QueryInv, SetValue
  PROVE  QueryInv'
<1>1. /\ TypeOK
      /\ UNCHANGED <<job, cur, tries, mine, file, said, shown, missed, initial>>
  BY DEF QueryInv, SetValue, requestVars, resultVars
<1>2. faults' \in Nat /\ trouble' \subseteq Troubles
  BY <1>1, FaultTyped DEF SetValue, Troubles
<1>3. /\ dev' \in [Items -> Values] /\ FlagInv'
      /\ pc' = "exit" /\ rc' \in {"OK", "ERROR"}
  BY SetFacts
<1>4. QED
  BY <1>1, <1>2, <1>3, KeepsInv DEF TypeOK, Places

LEMMA StutterTyped ==
  ASSUME QueryInv, UNCHANGED vars
  PROVE  QueryInv'
<1>1. /\ UNCHANGED <<dev, job, pc, cur, tries, mine, rc, file, said, shown,
                     missed, faults, trouble, initial>>
  BY DEF vars, requestVars, resultVars, faultVars
<1>2. FlagInv'
  BY <1>1 DEF QueryInv, FlagInv
<1>3. All' = All /\ Outcomes' = Outcomes /\ Over(cur)' = Over(cur)
  BY <1>1, SameJob DEF Over
<1>4. TypeOK'
  BY <1>1, <1>3 DEF QueryInv, TypeOK
<1>5. PlaceInv'
  BY <1>1, <1>3 DEF QueryInv, PlaceInv
<1>6. QED
  BY <1>2, <1>4, <1>5 DEF QueryInv

LEMMA InitTyped ==
  ASSUME Init
  PROVE  QueryInv
<1>1. initial \in [Items -> Values] /\ dev = initial /\ initial \in Devices
  BY ValuesAssumption DEF Init
<1>2. FlagInv
  BY ValuesAssumption DEF Init, FlagInv
<1>3. TypeOK
  BY <1>1, QueryBounds, ValuesAssumption
  DEF Init, TypeOK, Places, Contents, Troubles
<1>4. PlaceInv
  BY <1>1 DEF Init, PlaceInv
<1>5. QED
  BY <1>2, <1>3, <1>4 DEF QueryInv

LEMMA StepTyped ==
  ASSUME QueryInv, [Next]_vars
  PROVE  QueryInv'
BY BeginTyped, LoopTyped, GetValueTyped, GetDescTyped, GetLocalTyped,
   GetPeerTyped, SetValueTyped, StutterTyped DEF Next

THEOREM Inductive == Spec => []QueryInv
<1>1. Init => QueryInv
  BY InitTyped
<1>2. QueryInv /\ [Next]_vars => QueryInv'
  BY StepTyped
<1>3. QED
  BY <1>1, <1>2, PTL DEF Spec

\* Every request names an item that exists, the loops of READ_ALL stay inside
\* their tables, and no variable leaves its type.
THEOREM TypeCorrect == Spec => []TypeOK
<1>1. QueryInv => TypeOK
  BY DEF QueryInv
<1>2. QED
  BY <1>1, Inductive, PTL

-----------------------------------------------------------------------------
(* What a run may change                                                   *)

\* The width check, where the attribute is in the table.
LEMMA WidthChecked ==
  ASSUME TypeOK, "set" \in Outcomes, job.kind = "attr", InTable(AttrTable)
  PROVE  Entry(AttrTable).mode = "reserved" \/ job.value <= Entry(AttrTable).limit
<1> Values \subseteq Int
  BY TablesAssumption, ValuesAssumption
<1>1. /\ ~ All /\ job.opr = "WRITE" /\ job.idn \in Nat /\ job.value \in Int
  BY OutcomesFacts, JobFacts DEF TypeOK, All
<1>2. Outcomes = WriteOutcomes
  BY <1>1 DEF Outcomes
<1>3. AttrTable \in Seq([mode : Modes, limit : Nat]) /\ Len(AttrTable) \in Nat
  BY TablesAssumption
<1>4. job.idn < Len(AttrTable)
  BY DEF InTable
<1>5. Entry(AttrTable).limit \in Nat
  <2>1. job.idn + 1 \in 1 .. Len(AttrTable)
    BY <1>1, <1>3, <1>4
  <2>2. AttrTable[job.idn + 1] \in [mode : Modes, limit : Nat]
    BY <1>3, <2>1, ElementOfSeq
  <2>3. QED
    BY <2>2 DEF Entry
<1>6. ~ (job.idn > Len(AttrTable)) /\ job.idn # Len(AttrTable)
  BY <1>1, <1>3, <1>4
<1>7. ~ (Entry(AttrTable).mode # "reserved" /\ TooWide(Entry(AttrTable)))
  BY <1>2, <1>6 DEF WriteOutcomes
<1>8. QED
  BY <1>1, <1>5, <1>7 DEF TooWide

LEMMA SetIsTrue ==
  ASSUME QueryInv, SetValue
  PROVE  TrueWrite'
<1>1. /\ TypeOK /\ "set" \in Outcomes /\ ~ All /\ job.opr # "READ"
      /\ UNCHANGED <<job, initial>>
  BY OutcomesFacts DEF QueryInv, PlaceInv, SetValue
<1>2. Asked' = Asked /\ Outcomes' = Outcomes
  BY <1>1, SameJob DEF Asked
<1>3. job.idn < ByteSpan => Named = Asked
  BY <1>1, NamedFacts
<1>4. job.kind = "attr" => \A old : NewValue(old) = job.value
  BY <1>1, JobFacts DEF TypeOK, NewValue
<1>5. job.opr \notin {"READ", "READ_ALL"}
  BY <1>1 DEF All
<1>6. QED
  BY <1>1, <1>2, <1>3, <1>4, <1>5, SetFacts, WidthChecked
  DEF TrueWrite, NewValue, InTable, Entry

LEMMA NothingChanged ==
  ASSUME dev' = initial', pc' # "exit" \/ rc' # "OK" \/ "set" \notin Outcomes'
  PROVE  TrueWrite'
BY DEF TrueWrite

LEMMA WriteStep ==
  ASSUME QueryInv, TrueWrite, [Next]_vars
  PROVE  TrueWrite'
<1>1. CASE Begin
  <2>1. dev' = initial' /\ Outcomes' = Outcomes /\ pc = "start" /\ TypeOK
    BY <1>1, SameJob DEF QueryInv, PlaceInv, Begin
  <2>2. pc' # "exit" \/ rc' # "OK" \/ "write_only" \in Outcomes
    BY <1>1 DEF Begin, Goes, Ends
  <2>3. QED
    BY <2>1, <2>2, OutcomesFacts, NothingChanged
<1>2. CASE Loop \/ GetValue \/ GetDesc \/ GetLocal \/ GetPeer
  <2>1. /\ dev' = initial' /\ Outcomes' = Outcomes
        /\ pc \in {"loop", "get", "local", "peer"}
    BY <1>2, SameJob
    DEF QueryInv, PlaceInv, Loop, GetValue, GetDesc, GetLocal, GetPeer
  <2>2. "set" \notin Outcomes'
    BY <2>1 DEF QueryInv, PlaceInv
  <2>3. QED
    BY <2>1, <2>2, NothingChanged
<1>3. CASE SetValue
  BY <1>3, SetIsTrue
<1>4. CASE UNCHANGED vars
  <2>1. UNCHANGED <<dev, job, pc, rc, trouble, initial>>
    BY <1>4 DEF vars, faultVars
  <2>2. Outcomes' = Outcomes
    BY <2>1, SameJob
  <2>3. QED
    BY <2>1, <2>2 DEF TrueWrite, Asked, NewValue, InTable, Entry
<1>5. QED
  BY <1>1, <1>2, <1>3, <1>4 DEF Next

\* For every table and whatever fails, a run changes at most the item the user
\* named, to a value that fits; and one that ends well has done so.
THEOREM WritesTruly == Spec => []TrueWrite
<1>1. Init => TrueWrite
  BY DEF Init, TrueWrite
<1>2. QueryInv /\ TrueWrite /\ [Next]_vars => TrueWrite'
  BY WriteStep
<1>3. QED
  BY <1>1, <1>2, Inductive, PTL DEF Spec

-----------------------------------------------------------------------------
(* READ_ALL                                                                *)

Sides == IF job.kind = "uic" THEN {"local", "peer"} ELSE {job.kind}
First == IF job.kind = "flag" THEN 1 ELSE 0

\* The items of a list from its first place to the one before n, and those of
\* place n.
Until(n) == ListOf(Sides, First .. n - 1)
EntriesAt(n) == {<<k, n>> : k \in Sides}

\* READ_ALL has met the list up to cur, and the descriptors up to cur well.
ReadAllInv ==
  /\ pc = "start" =>
       shown = {} /\ missed = {} /\ cur = First /\ rc = "OK"
  /\ All /\ pc \in {"loop", "get", "local", "peer"} =>
       /\ ShownItems \cap missed = {} /\ cur >= First
       /\ pc # "loop" => Listed(cur)
       /\ job.kind # "desc" => /\ ShownItems \cup missed = Until(cur)
                               /\ cur = First \/ ~ Over(cur - 1)
       /\ job.kind = "desc" => /\ ShownItems = DescsUpTo(cur) /\ missed = {}
                               /\ cur <= Len(AllDescs) /\ rc = "OK"

LEMMA UntilNext ==
  ASSUME NEW n \in Nat, n >= First
  PROVE  /\ Listed(n) => Until(n + 1) = Until(n) \cup EntriesAt(n)
         /\ ~ Listed(n) => Until(n + 1) = Until(n)
         /\ EntriesAt(n) \cap Until(n) = {}
<1>1. First \in {0, 1}
  BY DEF First
<1>2. First .. (n + 1) - 1 = (First .. n - 1) \cup {n}
  BY <1>1
<1>3. n \notin First .. n - 1
  BY <1>1
<1> DEFINE before == First .. n - 1
           upto == First .. (n + 1) - 1
<1>4. upto = before \cup {n} /\ n \notin before
  BY <1>2, <1>3
<1> HIDE DEF before, upto
<1>5. ListOf(Sides, upto) =
        IF Listed(n) THEN ListOf(Sides, before) \cup EntriesAt(n)
                     ELSE ListOf(Sides, before)
  BY <1>4 DEF ListOf, EntriesAt
<1>6. EntriesAt(n) \cap ListOf(Sides, before) = {}
  BY <1>4 DEF ListOf, EntriesAt
<1>7. QED
  BY <1>5, <1>6 DEF before, upto, Until

LEMMA ShownNext ==
  ASSUME NEW items, Shows(items)
  PROVE  ShownItems' = ShownItems \cup items
<1> DEFINE new == {<<i, dev[i]>> : i \in items}
<1>1. {s[1] : s \in new} = items
  <2>1. \A s \in new : s[1] \in items
    OBVIOUS
  <2>2. \A i \in items : <<i, dev[i]>> \in new /\ <<i, dev[i]>>[1] = i
    OBVIOUS
  <2> HIDE DEF new
  <2>3. QED
    BY <2>1, <2>2
<1>2. shown' = shown \cup new
  BY DEF Shows
<1> HIDE DEF new
<1>3. {s[1] : s \in shown'} = {s[1] : s \in shown} \cup {s[1] : s \in new}
  BY <1>2
<1>4. QED
  BY <1>1, <1>3 DEF ShownItems

\* The 8-bit counters do not wrap inside their tables.
LEMMA FollowingIsNext ==
  ASSUME TypeOK, ~ Over(cur)
  PROVE  /\ cur \in Nat /\ Following(cur) = cur + 1
         /\ ~ Over((cur + 1) - 1)
<1>1. /\ cur \in Nat /\ job.kind \in {"attr", "flag", "desc", "uic"}
  BY JobFacts DEF TypeOK
<1>2. /\ AttrMax \in Nat /\ AttrMax < ByteSpan /\ ByteSpan \in Nat
      /\ Len(FlagTable) \in Nat /\ Len(FlagTable) < ByteSpan
  BY TablesAssumption, LoopsAssumption
<1>3. job.kind = "attr" => cur < AttrMax
  BY <1>1, <1>2 DEF Over
<1>4. job.kind = "flag" => cur < Len(FlagTable)
  BY <1>1, <1>2 DEF Over
<1>5. job.kind \in {"attr", "flag"} => cur + 1 \in Bytes
  BY <1>1, <1>2, <1>3, <1>4 DEF Bytes
<1>6. Following(cur) = cur + 1
  BY <1>5, ByteFacts DEF Following
<1>7. (cur + 1) - 1 = cur
  BY <1>1
<1>8. QED
  BY <1>1, <1>6, <1>7

\* A list is the same as long as the options are.
LEMMA SameList ==
  ASSUME UNCHANGED job, NEW n, cur' = n
  PROVE  Until(cur)' = Until(n) /\ First' = First /\ Over(cur - 1)' = Over(n - 1)
BY DEF Until, ListOf, Listed, Sides, First, Over

\* Between two entries nothing is lost.
LEMMA EntryMet ==
  ASSUME TypeOK, ReadAllInv, All, job.kind # "desc", UNCHANGED job,
         pc \in {"get", "local", "peer"}, ~ Over(cur),
         pc' = "loop", cur' = Following(cur),
         \/ Shows(EntriesAt(cur)) /\ UNCHANGED missed
         \/ Misses(EntriesAt(cur)) /\ UNCHANGED shown
  PROVE  ReadAllInv'
<1>1. /\ cur \in Nat /\ cur >= First /\ ShownItems \cap missed = {}
      /\ ShownItems \cup missed = Until(cur) /\ Listed(cur)
      /\ job.kind \in {"attr", "flag", "uic"}
  BY JobFacts DEF TypeOK, ReadAllInv
<1>2. cur' = cur + 1
  BY <1>1, FollowingIsNext
<1>3. /\ Until(cur + 1) = Until(cur) \cup EntriesAt(cur)
      /\ EntriesAt(cur) \cap Until(cur) = {}
  BY <1>1, UntilNext
<1>4. /\ ShownItems' \cup missed' = Until(cur) \cup EntriesAt(cur)
      /\ ShownItems' \cap missed' = {}
  <2>1. CASE Shows(EntriesAt(cur)) /\ UNCHANGED missed
    BY <1>1, <1>3, <2>1, ShownNext
  <2>2. CASE Misses(EntriesAt(cur)) /\ UNCHANGED shown
    <3>1. ShownItems' = ShownItems /\ missed' = missed \cup EntriesAt(cur)
      BY <2>2 DEF ShownItems, Misses
    <3>2. QED
      BY <1>1, <1>3, <3>1
  <2>3. QED
    BY <2>1, <2>2
<1>5. /\ Until(cur)' = Until(cur + 1) /\ First' = First
      /\ ~ Over(cur - 1)' /\ cur' >= First'
  <2>1. /\ Until(cur)' = Until(cur + 1) /\ First' = First
        /\ Over(cur - 1)' = Over((cur + 1) - 1)
    BY <1>2, SameList
  <2>2. ~ Over((cur + 1) - 1)
    BY FollowingIsNext
  <2>3. cur' >= First'
    BY <1>1, <1>2, <2>1 DEF First
  <2>4. QED
    BY <2>1, <2>2, <2>3
<1>6. QED
  BY <1>2, <1>3, <1>4, <1>5 DEF ReadAllInv

LEMMA BeginMet ==
  ASSUME TypeOK, ReadAllInv, Begin
  PROVE  ReadAllInv'
<1>1. /\ pc = "start" /\ pc' # "start" /\ shown = {} /\ missed = {}
      /\ cur = First /\ rc = "OK"
      /\ UNCHANGED <<job, cur, shown, missed>>
  BY DEF Begin, ReadAllInv, Goes, Ends, requestVars, resultVars
<1>2. All' = All /\ (All => Outcomes = {"loop"})
  BY <1>1, SameJob, OutcomesFacts
<1>3. All => pc' \in {"loop", "exit"} /\ (pc' = "loop" => rc' = "OK")
  BY <1>1, <1>2 DEF Begin, Goes, Ends
<1>4. ShownItems' = {} /\ missed' = {} /\ cur' = First' /\ First' \in {0, 1}
      /\ rc = "OK"
  BY <1>1 DEF ShownItems, First
<1>5. Until(cur)' = {}
  <2>1. First' .. cur' - 1 = {}
    <3>1. \A n \in {0, 1} : n .. n - 1 = {}
      OBVIOUS
    <3>2. QED
      BY <1>4, <3>1
  <2>2. Until(cur)' = ListOf(Sides, First .. cur - 1)'
    BY DEF Until
  <2>3. QED
    BY <2>1, <2>2 DEF ListOf
<1>6. job'.kind = "desc" => DescsUpTo(cur)' = {} /\ cur' <= Len(AllDescs)
  <2>1. job'.kind = "desc" => cur' = 0
    BY <1>4 DEF First
  <2>2. ASSUME cur' = 0
        PROVE  DescsUpTo(cur)' = {} /\ cur' <= Len(AllDescs)
    BY <2>2 DEF DescsUpTo, AllDescs
  <2>3. QED
    BY <2>1, <2>2
<1>7. QED
  BY <1>1, <1>2, <1>3, <1>4, <1>5, <1>6 DEF ReadAllInv

\* What a step that shows nothing new keeps of the list.
LEMMA ListKept ==
  ASSUME ReadAllInv, UNCHANGED <<job, cur, shown, missed, rc>>,
         pc \in {"loop", "get", "local", "peer"}, pc' # "start",
         pc' # "loop" /\ All => Listed(cur)
  PROVE  ReadAllInv'
<1>1. All' = All /\ Until(cur)' = Until(cur) /\ First' = First
      /\ Over(cur - 1)' = Over(cur - 1)
  BY SameJob, SameList
<1>2. ShownItems' = ShownItems /\ DescsUpTo(cur)' = DescsUpTo(cur)
      /\ Listed(cur)' = Listed(cur)
  BY DEF ShownItems, DescsUpTo, Listed
<1>3. QED
  BY <1>1, <1>2 DEF ReadAllInv

LEMMA LoopMet ==
  ASSUME QueryInv, ReadAllInv, Loop
  PROVE  ReadAllInv'
<1>1. /\ TypeOK /\ pc = "loop" /\ All
      /\ UNCHANGED <<job, shown, missed, rc>>
  BY DEF QueryInv, PlaceInv, Loop, resultVars, Ends, Goes
<1>2. CASE Over(cur) /\ Ends(rc)
  BY <1>2 DEF ReadAllInv, Ends
<1>3. CASE ~ Over(cur) /\ Listed(cur) /\ UNCHANGED cur
           /\ Goes(IF job.kind = "uic" THEN "local" ELSE "get")
  BY <1>1, <1>3, ListKept DEF Goes
<1>4. CASE ~ Over(cur) /\ ~ Listed(cur) /\ cur' = Skip(cur) /\ pc' = pc
  <2>1. /\ cur \in Nat /\ cur' = cur + 1 /\ ~ Over((cur + 1) - 1)
    BY <1>1, <1>4, FollowingIsNext DEF Skip
  <2>2. /\ Until(cur)' = Until(cur + 1) /\ First' = First
        /\ Over(cur - 1)' = Over((cur + 1) - 1) /\ All' = All
    BY <1>1, <2>1, SameList, SameJob
  <2>3. job.kind # "desc"
    BY <1>4 DEF Listed
  <2>4. Until(cur + 1) = Until(cur)
    BY <1>1, <1>4, <2>1, UntilNext DEF ReadAllInv
  <2>5. ShownItems' = ShownItems /\ cur' >= First'
    BY <1>1, <2>1, <2>2 DEF ShownItems, ReadAllInv, First
  <2>6. QED
    BY <1>1, <1>4, <2>1, <2>2, <2>3, <2>4, <2>5 DEF ReadAllInv
<1>5. QED
  BY <1>2, <1>3, <1>4 DEF Loop

LEMMA GetValueMet ==
  ASSUME QueryInv, ReadAllInv, GetValue
  PROVE  ReadAllInv'
<1>1. TypeOK /\ pc = "get" /\ job' = job /\ job.kind \in {"attr", "flag"}
  BY DEF QueryInv, GetValue
<1>2. CASE All
  <2>1. ~ Over(cur) /\ cur \in Nat
    BY <1>1, <1>2 DEF TypeOK
  <2>2. {Item} = EntriesAt(cur)
    BY <1>1, <1>2 DEF Item, Number, EntriesAt, Sides
  <2>3. ASSUME NEW code, Answered(code)
        PROVE  pc' = "loop" /\ cur' = Following(cur)
    BY <1>2, <2>3 DEF Answered
  <2>4. CASE Shows({Item}) /\ Answered("OK") /\ UNCHANGED missed
    BY <1>1, <1>2, <2>1, <2>2, <2>3, <2>4, EntryMet
  <2>5. CASE Misses({Item}) /\ Answered("ERROR") /\ UNCHANGED shown
    BY <1>1, <1>2, <2>1, <2>2, <2>3, <2>5, EntryMet
  <2>6. CASE pc' = "crash"
    BY <2>6 DEF ReadAllInv
  <2>7. QED
    BY <2>4, <2>5, <2>6 DEF GetValue
<1>3. CASE ~ All
  <2>1. pc' # "start" /\ All' = All
    BY <1>1, <1>3, SameJob DEF GetValue, Answered
  <2>2. QED
    BY <1>3, <2>1 DEF ReadAllInv
<1>4. QED
  BY <1>2, <1>3

LEMMA GetLocalMet ==
  ASSUME ReadAllInv, GetLocal
  PROVE  ReadAllInv'
<1>1. /\ pc = "local" /\ pc' = "peer"
      /\ UNCHANGED <<job, cur, shown, missed, rc>>
  BY DEF GetLocal, Goes, resultVars
<1>2. All => Listed(cur)
  BY <1>1 DEF ReadAllInv
<1>3. QED
  BY <1>1, <1>2, ListKept

LEMMA GetPeerMet ==
  ASSUME QueryInv, ReadAllInv, GetPeer
  PROVE  ReadAllInv'
<1>1. TypeOK /\ pc = "peer" /\ job' = job /\ job.kind = "uic"
  BY DEF QueryInv, PlaceInv, GetPeer
<1>2. CASE (\E theirs : Compared(theirs)) /\ All
  <2>1. ~ Over(cur) /\ cur \in Nat
    BY <1>1, <1>2 DEF TypeOK
  <2>2. BothEnds = EntriesAt(cur)
    BY <1>1, <1>2 DEF BothEnds, Number, EntriesAt, Sides
  <2>3. ASSUME NEW code, Answered(code)
        PROVE  pc' = "loop" /\ cur' = Following(cur)
    BY <1>2, <2>3 DEF Answered
  <2>4. pc' = "loop" /\ cur' = Following(cur)
    BY <1>2, <2>3 DEF Compared
  <2>5. \/ Shows(EntriesAt(cur)) /\ UNCHANGED missed
        \/ Misses(EntriesAt(cur)) /\ UNCHANGED shown
    BY <1>2, <2>2 DEF Compared
  <2>6. QED
    BY <1>1, <1>2, <2>1, <2>4, <2>5, EntryMet
<1>3. CASE (\E theirs : Compared(theirs)) /\ ~ All
  <2>1. pc' # "start" /\ All' = All
    BY <1>1, <1>3, SameJob DEF Compared, Answered
  <2>2. QED
    BY <1>3, <2>1 DEF ReadAllInv
<1>4. CASE UNCHANGED <<pc, cur, rc, shown, missed>>
  <2>1. All => Listed(cur)
    BY <1>1 DEF ReadAllInv
  <2>2. QED
    BY <1>1, <1>4, <2>1, ListKept
<1>5. QED
  BY <1>2, <1>3, <1>4 DEF GetPeer

LEMMA DescsNext ==
  /\ Len(AllDescs) = 7
  /\ DescsUpTo(0) = {}
  /\ \A n \in 0 .. 6 : DescsUpTo(n + 1) = DescsUpTo(n) \cup {<<"desc", AllDescs[n + 1]>>}
  /\ \A n \in 0 .. 6 : <<"desc", AllDescs[n + 1]>> \notin DescsUpTo(n)
<1>1. Len(AllDescs) = 7
  BY DEF AllDescs
<1>2. DescsUpTo(0) = {}
  BY DEF DescsUpTo
<1>3. ASSUME NEW n \in 0 .. 6
      PROVE  DescsUpTo(n + 1) = DescsUpTo(n) \cup {<<"desc", AllDescs[n + 1]>>}
  <2>1. 1 .. n + 1 = (1 .. n) \cup {n + 1}
    OBVIOUS
  <2>2. QED
    BY <2>1 DEF DescsUpTo
<1>4. \A i, j \in 1 .. 7 : i # j => AllDescs[i] # AllDescs[j]
  BY DEF AllDescs
<1>5. ASSUME NEW n \in 0 .. 6
      PROVE  <<"desc", AllDescs[n + 1]>> \notin DescsUpTo(n)
  <2>1. n + 1 \in 1 .. 7 /\ \A i \in 1 .. n : i \in 1 .. 7 /\ i # n + 1
    OBVIOUS
  <2>2. \A i \in 1 .. n : AllDescs[i] # AllDescs[n + 1]
    BY <1>4, <2>1
  <2>3. QED
    BY <2>2 DEF DescsUpTo
<1>6. QED
  BY <1>1, <1>2, <1>3, <1>5

\* The request for a descriptor of the list, and what it can do.
LEMMA DescFacts ==
  ASSUME QueryInv, ReadAllInv, All, GetDesc
  PROVE  /\ cur \in 0 .. 6 /\ Item = <<"desc", AllDescs[cur + 1]>>
         /\ ~ Stores /\ job' = job /\ job.kind = "desc" /\ pc = "get"
         /\ ShownItems = DescsUpTo(cur) /\ missed = {}
<1>1. TypeOK /\ pc = "get" /\ job' = job /\ job.kind = "desc"
  BY DEF QueryInv, GetDesc
<1>2. cur \in Nat /\ ~ Over(cur)
  BY <1>1 DEF TypeOK
<1>3. cur < 7
  BY <1>1, <1>2, DescsNext DEF Over
<1>4. Item = <<"desc", AllDescs[cur + 1]>> /\ ~ Stores
  BY <1>1 DEF Item, Number, Stores
<1>5. ShownItems = DescsUpTo(cur) /\ missed = {}
  BY <1>1 DEF ReadAllInv
<1>6. QED
  BY <1>1, <1>2, <1>3, <1>4, <1>5

LEMMA GetDescMet ==
  ASSUME QueryInv, ReadAllInv, GetDesc
  PROVE  ReadAllInv'
<1>1. CASE All
  <2>1. /\ cur \in 0 .. 6 /\ Item = <<"desc", AllDescs[cur + 1]>>
        /\ ~ Stores /\ job' = job /\ job.kind = "desc" /\ pc = "get"
        /\ ShownItems = DescsUpTo(cur) /\ missed = {}
    BY <1>1, DescFacts
  <2>2. CASE Shows({Item}) /\ UNCHANGED missed /\ DescAnswered("OK")
    <3>1. /\ pc' = "loop" /\ cur' = Following(cur) /\ rc' = rc
          /\ missed' = missed
      BY <1>1, <2>2 DEF DescAnswered
    <3>2. cur' = cur + 1 /\ First' = 0 /\ job'.kind = "desc"
      BY <2>1, <3>1 DEF Following, First
    <3>3. ShownItems' = ShownItems \cup {Item}
      BY <2>2, ShownNext
    <3>4. ShownItems' = DescsUpTo(cur + 1)
      BY <2>1, <3>3, DescsNext
    <3>5. DescsUpTo(cur)' = DescsUpTo(cur + 1)
      BY <3>2 DEF DescsUpTo
    <3>6. cur' >= First' /\ cur' <= Len(AllDescs) /\ missed' = {}
      BY <2>1, <3>1, <3>2, DescsNext
    <3>7. rc' = "OK"
      BY <1>1, <2>1, <3>1 DEF ReadAllInv
    <3>8. QED
      BY <3>1, <3>2, <3>4, <3>5, <3>6, <3>7 DEF ReadAllInv
  <2>3. CASE pc' = "exit"
    BY <2>3 DEF ReadAllInv
  <2>4. QED
    BY <1>1, <2>1, <2>2, <2>3 DEF GetDesc, DescAnswered, Ends
<1>2. CASE ~ All
  <2>1. pc' # "start" /\ All' = All
    BY <1>2, SameJob DEF GetDesc, DescAnswered, StoreFile, StoreNothing, Ends
  <2>2. QED
    BY <1>2, <2>1 DEF ReadAllInv
<1>3. QED
  BY <1>1, <1>2

LEMMA ReadAllInit ==
  ASSUME Init
  PROVE  ReadAllInv
BY DEF Init, ReadAllInv, First

LEMMA ReadAllStep ==
  ASSUME QueryInv, ReadAllInv, [Next]_vars
  PROVE  ReadAllInv'
<1>1. CASE Begin
  BY <1>1, BeginMet DEF QueryInv
<1>2. CASE Loop
  BY <1>2, LoopMet
<1>3. CASE GetValue
  BY <1>3, GetValueMet
<1>4. CASE GetDesc
  BY <1>4, GetDescMet
<1>5. CASE GetLocal
  BY <1>5, GetLocalMet
<1>6. CASE GetPeer
  BY <1>6, GetPeerMet
<1>7. CASE SetValue
  BY <1>7 DEF SetValue, Ends, ReadAllInv
<1>8. CASE UNCHANGED vars
  <2>1. UNCHANGED <<pc, job, cur, shown, missed, rc>>
    BY <1>8 DEF vars, requestVars, resultVars
  <2>2. /\ All' = All /\ Until(cur)' = Until(cur) /\ First' = First
        /\ Over(cur - 1)' = Over(cur - 1)
    BY <2>1, SameJob, SameList
  <2>3. /\ ShownItems' = ShownItems /\ DescsUpTo(cur)' = DescsUpTo(cur)
        /\ Listed(cur)' = Listed(cur)
    BY <2>1 DEF ShownItems, DescsUpTo, Listed
  <2>4. QED
    BY <2>1, <2>2, <2>3 DEF ReadAllInv
<1>9. QED
  BY <1>1, <1>2, <1>3, <1>4, <1>5, <1>6, <1>7, <1>8 DEF Next

LEMMA MetThroughout == Spec => []ReadAllInv
<1>1. QueryInv /\ ReadAllInv /\ [Next]_vars => ReadAllInv'
  BY ReadAllStep
<1>2. QED
  BY <1>1, ReadAllInit, Inductive, PTL DEF Spec

\* The loop is over at the end of the list, not behind it.
LEMMA WholeList ==
  ASSUME TypeOK, ReadAllInv, All, pc = "loop", Over(cur)
  PROVE  /\ job.kind = "attr" =>
              Until(cur) = ListOf({"attr"}, 0 .. AttrMax - 1)
         /\ job.kind = "flag" =>
              Until(cur) = ListOf({"flag"}, 1 .. Len(FlagTable) - 1)
         /\ job.kind = "uic" =>
              Until(cur) = ListOf({"local", "peer"}, 0 .. Len(MibTable) - 1)
         /\ job.kind = "desc" => cur = Len(AllDescs)
<1>1. /\ cur \in Nat /\ cur >= First
      /\ job.kind # "desc" => cur = First \/ ~ Over(cur - 1)
      /\ job.kind = "desc" => cur <= Len(AllDescs)
  BY DEF TypeOK, ReadAllInv
<1>2. AttrMax \in Nat /\ Len(FlagTable) \in Nat /\ Len(MibTable) \in Nat
  BY TablesAssumption
<1>3. CASE job.kind = "attr"
  <2>1. cur >= AttrMax /\ (cur = 0 \/ cur - 1 < AttrMax)
    BY <1>1, <1>2, <1>3 DEF Over, First
  <2>2. cur = AttrMax
    BY <1>1, <1>2, <2>1
  <2>3. QED
    BY <1>3, <2>2 DEF Until, Sides, First
<1>4. CASE job.kind = "flag"
  <2>1. cur >= Len(FlagTable) /\ (cur = 1 \/ cur - 1 < Len(FlagTable))
    BY <1>1, <1>2, <1>4 DEF Over, First
  <2>2. 1 .. cur - 1 = 1 .. Len(FlagTable) - 1
    BY <1>1, <1>2, <2>1
  <2>3. QED
    BY <1>4, <2>2 DEF Until, Sides, First
<1>5. CASE job.kind = "uic"
  <2>1. cur >= Len(MibTable) /\ (cur = 0 \/ cur - 1 < Len(MibTable))
    BY <1>1, <1>2, <1>5 DEF Over, First
  <2>2. cur = Len(MibTable)
    BY <1>1, <1>2, <2>1
  <2>3. QED
    BY <1>5, <2>2 DEF Until, Sides, First
<1>6. CASE job.kind = "desc"
  <2>1. cur >= Len(AllDescs)
    BY <1>6 DEF Over
  <2>2. QED
    BY <1>1, <1>6, <2>1, DescsNext
<1>7. QED
  BY <1>3, <1>4, <1>5, <1>6

\* The lists of ReadAllComplete do not change.
LEMMA SameLists ==
  ASSUME UNCHANGED job, NEW kinds, NEW places
  PROVE  ListOf(kinds, places)' = ListOf(kinds, places)
BY DEF ListOf, Listed

\* The end of the loop: everything was asked for.
LEMMA LoopCompletes ==
  ASSUME QueryInv, ReadAllInv, Loop, pc' = "exit"
  PROVE  ReadAllComplete'
<1>1. /\ TypeOK /\ pc = "loop" /\ All /\ Over(cur) /\ rc' = rc
      /\ UNCHANGED <<job, shown, missed>>
  BY DEF QueryInv, PlaceInv, Loop, resultVars, Ends, Goes
<1>2. ShownItems' = ShownItems /\ missed' = missed /\ job' = job
  BY <1>1 DEF ShownItems
<1>3. job.kind # "desc" => ShownItems \cup missed = Until(cur)
  BY <1>1 DEF ReadAllInv
<1>4. ShownItems \cap missed = {}
  BY <1>1 DEF ReadAllInv
<1>5. job.kind = "desc" =>
        ShownItems = DescsUpTo(Len(AllDescs)) /\ rc = "OK"
  BY <1>1, WholeList DEF ReadAllInv
<1>6. job'.kind = "desc" =>
        \E n \in 0 .. Len(AllDescs) :
          ShownItems' = DescsUpTo(n)' /\ (rc' = "OK" <=> n = Len(AllDescs))
  <2>1. Len(AllDescs) \in 0 .. Len(AllDescs)
    BY DescsNext
  <2>2. DescsUpTo(Len(AllDescs))' = DescsUpTo(Len(AllDescs))
    BY DEF DescsUpTo
  <2>3. QED
    BY <1>1, <1>2, <1>5, <2>1, <2>2 DEF DescsUpTo
<1>7. /\ job'.kind = "attr" =>
           ShownItems' \cup missed' = ListOf({"attr"}, 0 .. AttrMax - 1)'
      /\ job'.kind = "flag" =>
           ShownItems' \cup missed' = ListOf({"flag"}, 1 .. Len(FlagTable) - 1)'
      /\ job'.kind = "uic" =>
           ShownItems' \cup missed'
             = ListOf({"local", "peer"}, 0 .. Len(MibTable) - 1)'
  BY <1>1, <1>2, <1>3, WholeList, SameLists
<1>8. QED
  BY <1>2, <1>4, <1>6, <1>7 DEF ReadAllComplete

\* The list of the descriptors ends early, with an error.
LEMMA DescCompletes ==
  ASSUME QueryInv, ReadAllInv, All, GetDesc, pc' = "exit"
  PROVE  ReadAllComplete'
<1>1. /\ cur \in 0 .. 6 /\ Item = <<"desc", AllDescs[cur + 1]>>
      /\ ~ Stores /\ job' = job /\ job.kind = "desc" /\ pc = "get"
      /\ ShownItems = DescsUpTo(cur) /\ missed = {}
  BY DescFacts
<1>2. /\ rc' = "ERROR" /\ UNCHANGED shown
      /\ missed' = missed \/ missed' = {Item}
  <2>1. ~ DescAnswered("OK")
    BY DEF DescAnswered
  <2>2. QED
    BY <1>1, <2>1 DEF GetDesc, DescAnswered, Ends, Misses, resultVars
<1>3. ShownItems' = DescsUpTo(cur) /\ Item \notin DescsUpTo(cur)
  BY <1>1, <1>2, DescsNext DEF ShownItems
<1>4. cur \in 0 .. Len(AllDescs) /\ cur # Len(AllDescs)
  BY <1>1, DescsNext
<1>5. \E n \in 0 .. Len(AllDescs) :
        ShownItems' = DescsUpTo(n)' /\ (rc' = "OK" <=> n = Len(AllDescs))
  BY <1>2, <1>3, <1>4 DEF DescsUpTo
<1>6. ShownItems' \cap missed' = {}
  BY <1>1, <1>2, <1>3
<1>7. QED
  BY <1>1, <1>5, <1>6 DEF ReadAllComplete

LEMMA CompleteStep ==
  ASSUME QueryInv, ReadAllInv, ReadAllComplete, [Next]_vars
  PROVE  ReadAllComplete'
<1>1. CASE pc' # "exit"
  BY <1>1 DEF ReadAllComplete
<1>2. CASE ~ All'
  BY <1>2 DEF ReadAllComplete
<1>3. CASE pc' = "exit" /\ All'
  <2>1. CASE Begin
    <3>1. All /\ TypeOK
      BY <1>3, <2>1, SameJob DEF QueryInv, Begin
    <3>2. "open" \in trouble'
      BY <1>3, <2>1, <3>1, OutcomesFacts DEF Begin, Goes, Fault
    <3>3. QED
      BY <3>2 DEF ReadAllComplete
  <2>2. CASE Loop
    BY <1>3, <2>2, LoopCompletes
  <2>3. CASE GetDesc
    <3>1. All
      BY <1>3, <2>3, SameJob DEF GetDesc
    <3>2. QED
      BY <1>3, <2>3, <3>1, DescCompletes
  <2>4. CASE GetValue
    <3>1. All
      BY <1>3, <2>4, SameJob DEF GetValue
    <3>2. QED
      BY <1>3, <2>4, <3>1 DEF GetValue, Answered
  <2>5. CASE GetLocal
    BY <1>3, <2>5 DEF GetLocal, Goes
  <2>6. CASE GetPeer
    <3>1. All /\ pc = "peer"
      BY <1>3, <2>6, SameJob DEF GetPeer
    <3>2. QED
      BY <1>3, <2>6, <3>1 DEF GetPeer, Compared, Answered
  <2>7. CASE SetValue
    <3>1. ~ All
      BY <2>7, OutcomesFacts DEF SetValue, QueryInv, PlaceInv
    <3>2. QED
      BY <1>3, <2>7, <3>1, SameJob DEF SetValue
  <2>8. CASE UNCHANGED vars
    <3>1. UNCHANGED <<pc, job, cur, shown, missed, rc, trouble>>
      BY <2>8 DEF vars, requestVars, resultVars, faultVars
    <3>2. /\ All' = All /\ ShownItems' = ShownItems
          /\ \A kinds, places : ListOf(kinds, places)' = ListOf(kinds, places)
          /\ \A n : DescsUpTo(n)' = DescsUpTo(n)
      BY <3>1, SameJob, SameLists DEF ShownItems, DescsUpTo
    <3>3. (\E n \in 0 .. Len(AllDescs) :
             ShownItems = DescsUpTo(n) /\ (rc = "OK" <=> n = Len(AllDescs)))'
            <=> \E n \in 0 .. Len(AllDescs) :
                  ShownItems = DescsUpTo(n) /\ (rc = "OK" <=> n = Len(AllDescs))
      BY <3>1, <3>2 DEF DescsUpTo
    <3>4. QED
      BY <1>3, <3>1, <3>2, <3>3 DEF ReadAllComplete
  <2>9. QED
    BY <2>1, <2>2, <2>3, <2>4, <2>5, <2>6, <2>7, <2>8 DEF Next
<1>4. QED
  BY <1>1, <1>2, <1>3

\* For tables of any length, and whatever fails: READ_ALL has asked for every
\* readable item of its list and for no other, and has shown those that answered;
\* the descriptors it shows are the whole list exactly if it ends well.
THEOREM ReadsAll == Spec => []ReadAllComplete
<1>1. Init => ReadAllComplete
  BY DEF Init, ReadAllComplete
<1>2. QueryInv /\ ReadAllInv /\ ReadAllComplete /\ [Next]_vars
        => ReadAllComplete'
  BY CompleteStep
<1>3. QED
  BY <1>1, <1>2, Inductive, MetThroughout, PTL DEF Spec

-----------------------------------------------------------------------------
(* The exit status                                                         *)

\* Why a run says 0 although it missed an item, and why it says something else
\* although nothing went wrong.
Covered ==
  \/ /\ All /\ job.kind \in {"attr", "flag"}
     /\ \A item \in missed : ~ IsLast(item)
  \/ job.kind = "desc" /\ job.idn = StringDesc /\ said = "stored"

Excused ==
  \/ rc = "COUNT" /\ said = "stored"
  \/ job.kind = "desc" /\ \E d \in Descs : ~ Known(d) /\ (All \/ d = job.idn)
  \/ job.kind = "uic" /\ \E i \in missed : dev[i] = Err
  \/ "refuse" \in Outcomes

\* At every point: what the return code of the moment says, that nothing is
\* stored before the end, and that only READ_ALL goes on after a failure.
StatusInv ==
  /\ rc = "OK" /\ missed # {} => Covered
  /\ rc # "OK" /\ trouble = {} => Excused
  /\ said = "stored" => pc = "exit"
  /\ said = "stored" /\ trouble = {} => file = <<"stored", dev[Item]>>
  /\ pc = "peer" /\ trouble = {} => mine = dev[<<"local", Number>>]
  /\ missed # {} => pc \notin {"start", "set"} /\ (All \/ pc \in {"exit", "crash"})

\* What a step that prints nothing keeps of it.
LEMMA StatusKept ==
  ASSUME StatusInv, UNCHANGED <<job, cur, rc, dev, shown, missed, trouble>>,
         pc \in {"start", "loop", "get", "local", "peer"},
         said' = "none",
         pc' = "peer" /\ trouble = {} => mine' = dev[<<"local", Number>>],
         missed # {} => pc' \notin {"start", "set"}
                        /\ (All \/ pc' \in {"exit", "crash"})
  PROVE  StatusInv'
<1>1. said # "stored"
  BY DEF StatusInv
<1>2. /\ All' = All /\ Outcomes' = Outcomes /\ Number' = Number
      /\ \A d : Known(d)' = Known(d)
      /\ \A item : IsLast(item)' = IsLast(item)
  BY SameJob DEF Number, Known, IsLast, ShownItems, All
<1>3. rc = "OK" /\ missed # {} => Covered'
  BY <1>1, <1>2 DEF StatusInv, Covered
<1>4. rc # "OK" /\ trouble = {} => Excused'
  BY <1>1, <1>2 DEF StatusInv, Excused
<1>5. QED
  BY <1>2, <1>3, <1>4 DEF StatusInv

LEMMA BeginSays ==
  ASSUME QueryInv, ReadAllInv, StatusInv, Begin, said = "none"
  PROVE  StatusInv'
<1>1. /\ pc = "start" /\ missed = {} /\ rc = "OK"
      /\ UNCHANGED <<dev, job, cur, missed, said>>
  BY DEF Begin, ReadAllInv, requestVars, resultVars
<1>2. Outcomes' = Outcomes /\ pc' # "peer"
  BY <1>1, SameJob DEF Begin, Goes, Ends
<1>3. rc' # "OK" /\ trouble' = {} => "refuse" \in Outcomes
  BY <1>1 DEF Begin, Fault, Goes, Ends
<1>4. QED
  BY <1>1, <1>2, <1>3 DEF StatusInv, Excused

LEMMA LoopSays ==
  ASSUME QueryInv, StatusInv, Loop, said = "none"
  PROVE  StatusInv'
<1>1. /\ pc = "loop" /\ All /\ UNCHANGED <<dev, job, rc, shown, missed, said, trouble>>
      /\ pc' \notin {"start", "set", "peer"}
  BY DEF QueryInv, PlaceInv, Loop, Goes, Ends, Quiet, faultVars, resultVars
<1>2. /\ All' = All /\ Outcomes' = Outcomes
      /\ \A d : Known(d)' = Known(d)
      /\ \A item : IsLast(item)' = IsLast(item)
  BY <1>1, SameJob DEF Known, IsLast, ShownItems
<1>3. rc = "OK" /\ missed # {} => Covered'
  BY <1>1, <1>2 DEF StatusInv, Covered
<1>4. rc # "OK" /\ trouble = {} => Excused'
  BY <1>1, <1>2 DEF StatusInv, Excused
<1>5. QED
  BY <1>1, <1>2, <1>3, <1>4 DEF StatusInv

\* An answer after which READ_ALL goes on comes from the entry behind all those
\* that were missed.
LEMMA LaterShown ==
  ASSUME QueryInv, ReadAllInv, All, pc = "get", job.kind \in {"attr", "flag"},
         Shows({Item}), missed' = missed
  PROVE  \A item \in missed' : ~ IsLast(item)'
<1> SUFFICES ASSUME NEW item \in missed PROVE ~ IsLast(item)'
  OBVIOUS
<1>1. cur \in Nat /\ missed \subseteq Until(cur)
  BY DEF ReadAllInv, QueryInv, TypeOK
<1>2. item[2] \in First .. cur - 1 /\ First \in {0, 1}
  BY <1>1 DEF Until, ListOf, First
<1>3. Item \in ShownItems' /\ Item[2] = cur
  BY ShownNext DEF Item, Number
<1>4. ~ (cur <= item[2])
  BY <1>1, <1>2
<1>5. QED
  BY <1>3, <1>4 DEF IsLast

LEMMA GetValueSays ==
  ASSUME QueryInv, ReadAllInv, StatusInv, GetValue, said = "none"
  PROVE  StatusInv'
<1>1. /\ TypeOK /\ pc = "get" /\ job.kind \in {"attr", "flag"}
      /\ UNCHANGED <<dev, job, said>>
      /\ missed # {} => All
  BY DEF QueryInv, GetValue, StatusInv
<1>2. All' = All /\ Outcomes' = Outcomes
  BY <1>1, SameJob
<1>3. CASE Shows({Item}) /\ Answered("OK") /\ UNCHANGED missed
  <2>1. (pc' = "loop" /\ All) \/ (pc' = "exit" /\ ~ All)
    BY <1>1, <1>3, AnsweredFacts
  <2>2. missed # {} => \A item \in missed' : ~ IsLast(item)'
    BY <1>1, <1>3, LaterShown
  <2>3. rc' = "OK" /\ missed' = missed
    BY <1>1, <1>3, AnsweredFacts
  <2>4. QED
    BY <1>1, <1>2, <2>1, <2>2, <2>3 DEF StatusInv, Covered
<1>4. CASE pc' = "crash" /\ UNCHANGED <<cur, rc, shown, missed>> /\ Quiet
  BY <1>1, <1>4, StatusKept DEF Quiet, faultVars
<1>5. CASE (\E kind : Fault(kind)) /\ Answered("ERROR")
  <2>1. trouble' # {}
    BY <1>5 DEF Fault
  <2>2. /\ rc' = "ERROR"
        /\ (pc' = "loop" /\ All) \/ (pc' = "exit" /\ ~ All)
    BY <1>1, <1>5, AnsweredFacts
  <2>3. QED
    BY <1>1, <1>2, <2>1, <2>2 DEF StatusInv
<1>6. QED
  BY <1>3, <1>4, <1>5 DEF GetValue

LEMMA GetLocalSays ==
  ASSUME QueryInv, StatusInv, GetLocal, said = "none"
  PROVE  StatusInv'
<1>1. /\ pc = "local" /\ pc' = "peer" /\ Number' = Number
      /\ UNCHANGED <<dev, job, cur, rc, shown, missed, said>>
  BY DEF GetLocal, Goes, resultVars, Number, All
<1>2. CASE Quiet /\ mine' = dev[<<"local", Number>>]
  BY <1>1, <1>2, StatusKept DEF Quiet, faultVars, StatusInv
<1>3. CASE \E kind : Fault(kind)
  <2>1. trouble' # {}
    BY <1>3 DEF Fault
  <2>2. /\ All' = All /\ \A item : IsLast(item)' = IsLast(item)
    BY <1>1, SameJob DEF IsLast, ShownItems
  <2>3. rc = "OK" /\ missed # {} => Covered'
    BY <1>1, <2>2 DEF StatusInv, Covered
  <2>4. QED
    BY <1>1, <2>1, <2>2, <2>3 DEF StatusInv
<1>4. QED
  BY <1>2, <1>3 DEF GetLocal

LEMMA GetPeerSays ==
  ASSUME QueryInv, StatusInv, GetPeer, said = "none"
  PROVE  StatusInv'
<1>1. /\ TypeOK /\ pc = "peer" /\ job.kind = "uic"
      /\ UNCHANGED <<dev, job, mine, said>>
      /\ missed # {} => All
      /\ rc = "OK" => missed = {}
  BY DEF QueryInv, PlaceInv, GetPeer, StatusInv, Covered
<1>2. All' = All /\ Outcomes' = Outcomes
  BY <1>1, SameJob
<1>3. ASSUME NEW theirs, Compared(theirs),
             trouble' = {} => trouble = {} /\ theirs = dev[<<"peer", Number>>]
      PROVE  StatusInv'
  <2>1. /\ (pc' = "loop" /\ All) \/ (pc' = "exit" /\ ~ All)
        /\ rc' \in {rc, "ERROR"}
    BY <1>1, <1>3, AnsweredFacts DEF Compared, UicResult
  <2>2. CASE mine # Err /\ theirs # Err
    <3>1. rc' = rc /\ missed' = missed
      BY <1>1, <1>3, <2>2, AnsweredFacts DEF Compared, UicResult
    <3>2. rc' # "OK" /\ trouble' = {} => Excused'
      BY <1>1, <1>2, <1>3, <3>1 DEF StatusInv, Excused
    <3>3. QED
      BY <1>1, <1>2, <2>1, <3>1, <3>2 DEF StatusInv
  <2>3. CASE ~ (mine # Err /\ theirs # Err)
    <3>1. rc' = "ERROR" /\ missed' = missed \cup BothEnds
      BY <1>1, <1>3, <2>3, AnsweredFacts DEF Compared, UicResult, Misses
    <3>2. trouble' = {} => \E i \in BothEnds : dev[i] = Err
      BY <1>1, <1>3, <2>3 DEF BothEnds, StatusInv
    <3>3. QED
      BY <1>1, <1>2, <2>1, <3>1, <3>2 DEF StatusInv, Excused
  <2>4. QED
    BY <2>2, <2>3
<1>4. ASSUME NEW kind, Fault(kind) PROVE trouble' # {}
  BY <1>4 DEF Fault
<1>5. CASE Quiet /\ Compared(dev[<<"peer", Number>>])
  BY <1>3, <1>5 DEF Quiet, faultVars
<1>6. CASE (Fault("refused") \/ Fault("failed")) /\ Compared(Err)
  BY <1>3, <1>4, <1>6
<1>7. CASE Fault("failed") /\ UNCHANGED <<pc, cur, rc, shown, missed>>
  <2>1. \A item : IsLast(item)' = IsLast(item)
    BY <1>7 DEF IsLast, ShownItems
  <2>2. QED
    BY <1>1, <1>2, <1>4, <1>7, <2>1 DEF StatusInv, Covered
<1>8. QED
  BY <1>5, <1>6, <1>7 DEF GetPeer

LEMMA SetValueSays ==
  ASSUME QueryInv, StatusInv, SetValue, said = "none"
  PROVE  StatusInv'
<1>1. missed = {} /\ UNCHANGED <<missed, said>> /\ pc' = "exit"
  BY DEF SetValue, StatusInv, Ends, resultVars
<1>2. rc' = "OK" \/ trouble' # {}
  BY DEF SetValue, Ends, Fault
<1>3. QED
  BY <1>1, <1>2 DEF StatusInv

LEMMA GetDescSays ==
  ASSUME QueryInv, ReadAllInv, StatusInv, GetDesc, said = "none"
  PROVE  StatusInv'
<1>1. /\ TypeOK /\ pc = "get" /\ job.kind = "desc"
      /\ UNCHANGED <<dev, job>> /\ missed = {}
      /\ All => rc = "OK"
  BY DEF QueryInv, GetDesc, StatusInv, ReadAllInv
<1>2. All' = All /\ Outcomes' = Outcomes /\ \A d : Known(d)' = Known(d)
  BY <1>1, SameJob DEF Known
<1>3. ASSUME NEW code, DescAnswered(code)
      PROVE  /\ pc' = "exit" \/ (pc' = "loop" /\ code = "OK")
             /\ rc' = "OK" <=> code = "OK"
  BY <1>1, <1>3 DEF DescAnswered, Ends
<1>4. (~ All => Number = job.idn) /\ Number \in Descs
  <2>1. Item \in Items /\ Item = <<"desc", Number>>
    BY <1>1, ItemTyped DEF Item
  <2>2. Number \in Descs
    BY <2>1 DEF Items
  <2>3. QED
    BY <1>1, <2>2 DEF Number
<1>5. CASE Stores /\ missed' = missed /\ StoreFile(<<"stored", dev[Item]>>)
  <2>1. cur' = cur /\ pc' = "exit" /\ missed' = {}
    BY <1>1, <1>5 DEF StoreFile, Ends
  <2>2. Item' = Item
    BY <1>1, <1>2, <2>1 DEF Item, Number
  <2>3. trouble' = {} =>
          /\ file' = <<"stored", dev[Item]>> /\ said' = "stored"
          /\ rc' \in {"OK", "COUNT"}
    BY <1>5 DEF StoreFile, StoredCode, Ends, Fault
  <2>4. QED
    BY <1>1, <2>1, <2>2, <2>3 DEF StatusInv, Excused
<1>6. CASE missed' = missed /\ said' = said /\ DescAnswered("OK")
  BY <1>1, <1>3, <1>6 DEF StatusInv
<1>7. CASE ~ Known(Number) /\ DescAnswered("WARNING") /\ UNCHANGED resultVars
  <2>1. pc' = "exit" /\ said' = said /\ missed' = {}
    BY <1>1, <1>3, <1>7 DEF resultVars
  <2>2. Excused'
    BY <1>1, <1>2, <1>4, <1>7 DEF Excused
  <2>3. QED
    BY <2>1, <2>2 DEF StatusInv
<1>8. CASE /\ \E kind : Fault(kind)
           /\ \/ Stores /\ Number = StringDesc /\ StoreNothing
              \/ DescAnswered("ERROR") /\ said' = said
  <2>1. trouble' # {}
    BY <1>8 DEF Fault
  <2>2. CASE Stores /\ Number = StringDesc /\ StoreNothing
    <3>1. ~ All /\ job.idn = StringDesc
      BY <1>4, <2>2 DEF Stores
    <3>2. pc' = "exit" /\ said' = "stored"
      BY <2>2 DEF StoreNothing, Ends
    <3>3. QED
      BY <1>1, <2>1, <3>1, <3>2 DEF StatusInv, Covered
  <2>3. CASE DescAnswered("ERROR") /\ said' = said
    BY <1>3, <2>1, <2>3 DEF StatusInv
  <2>4. QED
    BY <1>8, <2>2, <2>3
<1>9. QED
  BY <1>5, <1>6, <1>7, <1>8 DEF GetDesc

LEMMA StatusStep ==
  ASSUME QueryInv, ReadAllInv, StatusInv, [Next]_vars
  PROVE  StatusInv'
<1>1. CASE UNCHANGED vars
  <2>1. UNCHANGED <<dev, job, pc, cur, mine, rc, file, said, shown, missed, trouble>>
    BY <1>1 DEF vars, requestVars, resultVars, faultVars
  <2>2. /\ All' = All /\ Outcomes' = Outcomes /\ Number' = Number /\ Item' = Item
        /\ \A d : Known(d)' = Known(d)
        /\ \A item : IsLast(item)' = IsLast(item)
    BY <2>1, SameJob DEF Number, Item, Known, IsLast, ShownItems, All
  <2>3. (Covered' <=> Covered) /\ (Excused' <=> Excused)
    BY <2>1, <2>2 DEF Covered, Excused
  <2>4. QED
    BY <2>1, <2>2, <2>3 DEF StatusInv
<1>2. CASE Next
  <2>1. pc # "exit"
    BY <1>2
    DEF Next, Begin, Loop, GetValue, GetDesc, GetLocal, GetPeer, SetValue
  <2>2. said = "none"
    BY <2>1 DEF StatusInv, QueryInv, TypeOK
  <2>3. QED
    BY <1>2, <2>2, BeginSays, LoopSays, GetValueSays, GetDescSays,
       GetLocalSays, GetPeerSays, SetValueSays DEF Next
<1>3. QED
  BY <1>1, <1>2

LEMMA StatusThroughout == Spec => []StatusInv
<1>1. Init => StatusInv
  BY DEF Init, StatusInv
<1>2. QueryInv /\ ReadAllInv /\ StatusInv /\ [Next]_vars => StatusInv'
  BY StatusStep
<1>3. QED
  BY <1>1, <1>2, Inductive, MetThroughout, PTL DEF Spec

\* For tables of any length, whatever fails: 0 hides a failure only when
\* READ_ALL could read a later attribute or flag, or a string is stored; an
\* error without a failure comes from a stored file's size, a descriptor of an
\* unknown size, an attribute with the value of ERROR or a refused item; and
\* what is said to be stored is.
THEOREM SaysWhy == Spec => []ExitStatus
<1>1. StatusInv => ExitStatus
  BY DEF StatusInv, ExitStatus, Covered, Excused
<1>2. QED
  BY <1>1, StatusThroughout, PTL
=============================================================================

------------------------- MODULE RpmbDevice_proofs -------------------------
(***************************************************************************)
(* Lemmas about the device, for every number of regions, keys and blocks:  *)
(* its variables keep their types, and what a request does to the data and *)
(* the counter of a region.                                                *)
(***************************************************************************)
EXTENDS RpmbDevice, TLAPS

LEMMA AnswerTyped ==
  ASSUME NEW what \in Results, NEW c \in Nat, NEW b \in Seq(Int)
  PROVE  Answer(what, c, b) \in Answers
BY DEF Answer, Answers

LEMMA BlocksTyped ==
  ASSUME NEW n \in Nat, NEW blocks \in [1 .. n -> Int]
  PROVE  blocks \in Seq(Int)
OBVIOUS

LEMMA EarlierTyped ==
  ASSUME NEW r \in Regions, NEW a \in Addrs
  PROVE  Earlier(r, a) \in Int
BY RegionsAssumption, BoundsAssumption DEF Earlier, Addrs

LEMMA ObjectionsAreFailures ==
  ASSUME NEW f, NEW why \in Objections(f)
  PROVE  why \in Results
BY DEF Objections, Results

\* A request the device accepts finds its counter not exhausted.
LEMMA AcceptedRoom ==
  ASSUME DevTypeOK, NEW f \in Requests, Objections(f) = {}
  PROVE  /\ counter[f.region] < CounterMax
         /\ counter[f.region] = f.counter
<1>1. /\ "Write failure" \in Failures /\ "Write failure" \notin Objections(f)
      /\ "Counter failure" \in Failures /\ "Counter failure" \notin Objections(f)
  BY DEF Failures
<1>2. ~ (counter[f.region] >= CounterMax) /\ counter[f.region] = f.counter
  BY <1>1, Zenon DEF Objections
<1>3. counter[f.region] \in Int
  BY DEF DevTypeOK, Requests
<1>4. QED
  BY <1>2, <1>3, BoundsAssumption

\* Whatever request the device executes, its variables keep their types.
LEMMA ExecuteTyped ==
  ASSUME DevTypeOK, NEW f \in Requests, DevExecute(f)
  PROVE  DevTypeOK'
<1> DEFINE r == f.region
<1>0. /\ r \in Regions /\ f.mac \in Keys \cup {NoKey}
      /\ f.addr \in Nat /\ f.count \in Nat /\ f.first \in Int
  BY DEF Requests
<1>r. ASSUME NEW what \in Results, NEW c \in Nat, NEW b \in Seq(Int),
             Respond(f, what, c, b), purge' \in [Regions -> PurgeStates]
      PROVE  DevTypeOK'
  <2>1. resp' \in [Regions -> Answers]
    BY <1>0, <1>r, AnswerTyped DEF Respond, DevTypeOK
  <2>2. QED
    BY <1>r, <2>1 DEF Respond, DevTypeOK
<1>e. << >> \in Seq(Int)
  OBVIOUS
<1>f. {"Success", "Key not programmed", "Purge in progress",
       "Address failure", "General failure"} \subseteq Results
  BY DEF Results, Failures
<1>n. ASSUME Refuse(f) PROVE DevTypeOK'
  BY <1>n, <1>0, ObjectionsAreFailures DEF Refuse, DevTypeOK
<1>a. ASSUME Accepted(f)
      PROVE  /\ counter' \in [Regions -> 0 .. CounterMax]
             /\ result' \in [Regions -> Results]
  <2>1. counter[r] < CounterMax
    BY <1>a, AcceptedRoom DEF Accepted
  <2>2. counter[r] + 1 \in 0 .. CounterMax
    BY <2>1, <1>0, BoundsAssumption DEF DevTypeOK
  <2>3. QED
    BY <1>a, <1>0, <1>f, <2>2 DEF Accepted, DevTypeOK
<1>1. CASE DevWriteKey(f)
  BY <1>1, <1>0, <1>f DEF DevWriteKey, DevTypeOK
<1>2. CASE DevWrite(f)
  <2>1. ASSUME Accepted(f), data' = AfterWrite(f),
               UNCHANGED <<key, conf, purge, resp>>
        PROVE  DevTypeOK'
    <3>1. AfterWrite(f) \in [Regions -> [Addrs -> Int]]
      <4>1. [a \in Addrs |-> IF a \in Stored(f) THEN f.first + (a - f.addr)
                                                ELSE data[r][a]]
              \in [Addrs -> Int]
        <5>1. ASSUME NEW a \in Addrs
              PROVE  data[r][a] \in Int /\ f.first + (a - f.addr) \in Int
          BY <1>0, BoundsAssumption DEF DevTypeOK, Addrs
        <5>2. QED
          BY <5>1
      <4>2. QED
        BY <4>1, <1>0 DEF AfterWrite, DevTypeOK
    <3>2. QED
      BY <3>1, <2>1, <1>a DEF DevTypeOK
  <2>2. QED
    BY <1>2, <1>n, <2>1 DEF DevWrite
<1>3. CASE DevConfWrite(f)
  BY <1>3, <1>0, <1>n, <1>a DEF DevConfWrite, DevTypeOK
<1>4. CASE DevReadResult(f)
  <2>1. result[r] \in Results /\ counter[r] \in Nat
    BY <1>0, BoundsAssumption DEF DevTypeOK
  <2>2. purge' \in [Regions -> PurgeStates]
    BY <1>4 DEF DevReadResult, DevTypeOK
  <2>3. QED
    BY <1>4, <1>r, <1>e, <2>1, <2>2 DEF DevReadResult
<1>5. CASE DevReadCounter(f)
  <2>1. counter[r] \in Nat
    BY <1>0, BoundsAssumption DEF DevTypeOK
  <2>2. purge' \in [Regions -> PurgeStates]
    BY <1>5 DEF DevReadCounter, DevTypeOK
  <2>3. QED
    BY <1>5, <1>r, <1>e, <1>f, <2>1, <2>2 DEF DevReadCounter
<1>6. CASE DevRead(f)
  <2>1. ASSUME f.addr + f.count - 1 <= MaxAddr
        PROVE  [i \in 1 .. f.count |-> data[r][f.addr + i - 1]] \in Seq(Int)
    <3>1. ASSUME NEW i \in 1 .. f.count
          PROVE  data[r][f.addr + i - 1] \in Int
      <4>1. f.addr + i - 1 \in Addrs
        BY <1>0, <2>1, BoundsAssumption DEF Addrs
      <4>2. QED
        BY <4>1, <1>0 DEF DevTypeOK
    <3>2. f.count \in Nat
      BY <1>0
    <3>3. [i \in 1 .. f.count |-> data[r][f.addr + i - 1]]
            \in [1 .. f.count -> Int]
      BY <3>1
    <3>4. QED
      BY <3>2, <3>3, BlocksTyped
  <2>2. purge' \in [Regions -> PurgeStates]
    BY <1>6 DEF DevRead, DevTypeOK
  <2>3. QED
    BY <1>6, <1>0, <1>r, <1>e, <1>f, <2>1, <2>2 DEF DevRead
<1>7. CASE DevConfRead(f)
  <2>1. <<conf>> \in Seq(Int)
    BY DEF DevTypeOK
  <2>2. purge' \in [Regions -> PurgeStates]
    BY <1>7 DEF DevConfRead, DevTypeOK
  <2>3. QED
    BY <1>7, <1>r, <1>e, <1>f, <2>1, <2>2 DEF DevConfRead
<1>8. CASE DevPurgeEnable(f)
  <2>1. purge' \in [Regions -> PurgeStates]
    BY <1>8, <1>0 DEF DevPurgeEnable, DevTypeOK, PurgeStates
  <2>2. QED
    BY <1>8, <1>r, <1>e, <1>f, <2>1, ObjectionsAreFailures DEF DevPurgeEnable
<1>9. CASE DevPurgeStatus(f)
  <2>1. <<PurgeCode(purge[r])>> \in Seq(Int)
    BY <1>0 DEF PurgeCode, DevTypeOK, PurgeStates
  <2>2. purge' \in [Regions -> PurgeStates]
    BY <1>9 DEF DevPurgeStatus, DevTypeOK
  <2>3. QED
    BY <1>9, <1>r, <1>f, <2>1, <2>2 DEF DevPurgeStatus
<1>10. QED
  BY <1>1, <1>2, <1>3, <1>4, <1>5, <1>6, <1>7, <1>8, <1>9 DEF DevExecute

LEMMA DevUntouched == DevTypeOK /\ UNCHANGED devVars => DevTypeOK'
BY DEF DevTypeOK, devVars

LEMMA PurgeEndsTyped ==
  ASSUME DevTypeOK, NEW r \in Regions, DevPurgeEnds(r)
  PROVE  DevTypeOK'
BY DEF DevPurgeEnds, DevTypeOK, PurgeStates

LEMMA ForeignWriteTyped ==
  ASSUME DevTypeOK, NEW r \in Regions, NEW a \in Addrs, DevForeignWrite(r, a)
  PROVE  DevTypeOK'
<1>1. counter[r] \in Nat /\ counter[r] + 1 \in 0 .. CounterMax
  BY BoundsAssumption DEF DevTypeOK, DevForeignWrite
<1>2. "Success" \in Results /\ << >> \in Seq(Int) /\ Foreign \in Int
  BY DEF Results, Foreign
<1>3. Answer("Success", counter[r] + 1, << >>) \in Answers
  BY <1>1, <1>2 DEF Answer, Answers
<1>4. data' \in [Regions -> [Addrs -> Int]]
  BY <1>2 DEF DevForeignWrite, DevTypeOK
<1>5. QED
  BY <1>1, <1>2, <1>3, <1>4 DEF DevForeignWrite, DevTypeOK

\* The states an earlier use may have left.
LEMMA DevInitTyped ==
  ASSUME DevInit
  PROVE  DevTypeOK
<1>1. \A r \in Regions : result[r] \in Results
  BY DEF DevInit, Results, Failures
<1>2. data \in [Regions -> [Addrs -> Int]]
  BY EarlierTyped DEF DevInit
<1>3. PICK old \in [Regions -> 0 .. CounterMax] :
        resp = [r \in Regions |-> Answer(result[r], old[r], << >>)]
  BY DEF DevInit
<1>4. resp \in [Regions -> Answers]
  <2>1. ASSUME NEW r \in Regions
        PROVE  Answer(result[r], old[r], << >>) \in Answers
    <3>1. old[r] \in Nat /\ << >> \in Seq(Int)
      BY <1>3, BoundsAssumption
    <3>2. QED
      BY <1>1, <3>1, AnswerTyped
  <2>2. QED
    BY <1>3, <2>1
<1>5. QED
  <2>1. /\ key \in [Regions -> Keys \cup {NoKey}]
        /\ counter \in [Regions -> 0 .. CounterMax]
    BY Zenon DEF DevInit
  <2>2. conf = Foreign
    BY Zenon DEF DevInit
  <2>3. Foreign \in Int
    BY DEF Foreign
  <2>4. purge \in [Regions -> PurgeStates]
    BY DEF DevInit, PurgeStates
  <2>5. result \in [Regions -> Results]
    BY <1>1 DEF DevInit
  <2>6. QED
    BY <1>2, <1>4, <2>1, <2>2, <2>3, <2>4, <2>5 DEF DevTypeOK

-----------------------------------------------------------------------------
(* What one request does to a region's data and counter                    *)

LEMMA ExecuteQuery ==
  ASSUME NEW f, f.req \in {"READ_CNT", "READ_RESP"}, DevExecute(f)
  PROVE  UNCHANGED <<data, counter>>
BY DEF DevExecute, DevWriteKey, DevWrite, DevConfWrite, DevReadResult,
       DevReadCounter, DevRead, DevConfRead, DevPurgeEnable, DevPurgeStatus,
       Respond

LEMMA ExecuteWrite ==
  ASSUME DevTypeOK, NEW f \in Requests, f.req = "WRITE", DevExecute(f)
  PROVE  \/ UNCHANGED <<data, counter>>
         \/ /\ counter[f.region] = f.counter
            /\ counter' = [counter EXCEPT ![f.region] = @ + 1]
            /\ counter'[f.region] = f.counter + 1
            /\ counter' # counter
            /\ data' = AfterWrite(f)
<1>1. DevWrite(f)
  BY DEF DevExecute, DevWriteKey, DevConfWrite, DevReadResult,
         DevReadCounter, DevRead, DevConfRead, DevPurgeEnable, DevPurgeStatus
<1>2. CASE Refuse(f)
  BY <1>2 DEF Refuse
<1>3. CASE Accepted(f) /\ data' = AfterWrite(f)
  <2>1. f.region \in Regions /\ f.counter \in Nat
    BY DEF Requests
  <2>2. counter[f.region] = f.counter
    BY <1>3, AcceptedRoom DEF Accepted
  <2>3. counter' = [counter EXCEPT ![f.region] = @ + 1]
    BY <1>3 DEF Accepted
  <2>4. counter'[f.region] = f.counter + 1
    BY <2>1, <2>2, <2>3 DEF DevTypeOK
  <2>5. counter' # counter
    BY <2>1, <2>2, <2>4
  <2>6. QED
    BY <1>3, <2>2, <2>3, <2>4, <2>5
<1>4. QED
  BY <1>1, <1>2, <1>3 DEF DevWrite

\* A refused write says why, and changes nothing but the result register.
LEMMA WriteRefused ==
  ASSUME DevTypeOK, NEW f \in Requests, f.req = "WRITE", DevExecute(f),
         result'[f.region] # "Success"
  PROVE  /\ UNCHANGED <<key, counter, data, conf, purge, resp>>
         /\ result'[f.region] \in Objections(f)
<1>1. f.region \in Regions /\ DOMAIN result = Regions
  BY DEF Requests, DevTypeOK
<1>2. DevWrite(f)
  BY DEF DevExecute, DevWriteKey, DevConfWrite, DevReadResult,
         DevReadCounter, DevRead, DevConfRead, DevPurgeEnable, DevPurgeStatus
<1>3. CASE Refuse(f)
  BY <1>1, <1>3 DEF Refuse
<1>4. CASE Accepted(f)
  BY <1>1, <1>4 DEF Accepted
<1>5. QED
  BY <1>2, <1>3, <1>4 DEF DevWrite

\* Only a key request changes a key, and only a purge request a purge.
LEMMA ExecuteKeeps ==
  ASSUME NEW f, DevExecute(f)
  PROVE  /\ f.req # "WRITE_KEY" => key' = key
         /\ f.req # "PURGE_ENABLE" => purge' = purge
         /\ f.req \notin {"WRITE", "SEC_CONF_WRITE"} => counter' = counter
         /\ f.req # "WRITE" => data' = data
         /\ f.req # "SEC_CONF_WRITE" => conf' = conf
BY DEF DevExecute, DevWriteKey, DevWrite, DevConfWrite, DevReadResult,
       DevReadCounter, DevRead, DevConfRead, DevPurgeEnable, DevPurgeStatus,
       Respond, Refuse, Accepted

\* The answer to a counter request.
LEMMA ExecuteCounter ==
  ASSUME DevTypeOK, NEW f \in Requests, f.req = "READ_CNT", DevExecute(f)
  PROVE  /\ UNCHANGED <<key, counter, data, conf, purge, result>>
         /\ IF key[f.region] = NoKey
              THEN resp'[f.region].result = "Key not programmed"
              ELSE /\ resp'[f.region].result = "Success"
                   /\ resp'[f.region].counter = counter[f.region]
<1>1. f.region \in Regions /\ DOMAIN resp = Regions
  BY DEF Requests, DevTypeOK
<1>2. DevReadCounter(f)
  BY DEF DevExecute, DevWriteKey, DevWrite, DevConfWrite, DevReadResult,
         DevRead, DevConfRead, DevPurgeEnable, DevPurgeStatus
<1>3. UNCHANGED <<key, counter, data, conf, purge, result>>
  BY <1>2 DEF DevReadCounter, Respond
<1>4. ASSUME NEW what, NEW c, Respond(f, what, c, << >>)
      PROVE  resp'[f.region].result = what /\ resp'[f.region].counter = c
  BY <1>1, <1>4 DEF Respond, Answer
<1>5. CASE key[f.region] = NoKey
  BY <1>2, <1>3, <1>4, <1>5 DEF DevReadCounter
<1>6. CASE key[f.region] # NoKey
  BY <1>2, <1>3, <1>4, <1>6 DEF DevReadCounter
<1>7. QED
  BY <1>5, <1>6

\* The answer to a read: the region's blocks, or the reason why not.
LEMMA ExecuteRead ==
  ASSUME DevTypeOK, NEW f \in Requests, f.req = "READ", DevExecute(f)
  PROVE  /\ UNCHANGED <<key, counter, data, conf, purge, result>>
         /\ \/ /\ resp'[f.region].result = "Success"
               /\ f.addr + f.count - 1 <= MaxAddr
               /\ key[f.region] # NoKey
               /\ resp'[f.region].blocks =
                    [i \in 1 .. f.count |-> data[f.region][f.addr + i - 1]]
            \/ /\ resp'[f.region].result # "Success"
               /\ \/ purge[f.region] = "running"
                  \/ key[f.region] = NoKey
                  \/ f.addr + f.count - 1 > MaxAddr
<1>1. f.region \in Regions /\ DOMAIN resp = Regions
  BY DEF Requests, DevTypeOK
<1>2. DevRead(f)
  BY DEF DevExecute, DevWriteKey, DevWrite, DevConfWrite, DevReadResult,
         DevReadCounter, DevConfRead, DevPurgeEnable, DevPurgeStatus
<1>3. UNCHANGED <<key, counter, data, conf, purge, result>>
  BY <1>2 DEF DevRead, Respond
<1>4. ASSUME NEW what, NEW c, NEW blocks, Respond(f, what, c, blocks)
      PROVE  resp'[f.region].result = what /\ resp'[f.region].blocks = blocks
  BY <1>1, <1>4 DEF Respond, Answer
<1>5. CASE Respond(f, "Purge in progress", 0, << >>) /\ purge[f.region] = "running"
  BY <1>3, <1>4, <1>5
<1>6. CASE Respond(f, "Key not programmed", 0, << >>) /\ key[f.region] = NoKey
  BY <1>3, <1>4, <1>6
<1>7. CASE /\ Respond(f, "Address failure", 0, << >>)
           /\ f.addr + f.count - 1 > MaxAddr
  BY <1>3, <1>4, <1>7
<1>8. CASE /\ Respond(f, "Success", 0,
                      [i \in 1 .. f.count |-> data[f.region][f.addr + i - 1]])
           /\ f.addr + f.count - 1 <= MaxAddr /\ key[f.region] # NoKey
  BY <1>3, <1>4, <1>8
<1>9. QED
  BY <1>2, <1>5, <1>6, <1>7, <1>8 DEF DevRead

\* The answer to a result request is the result register.
LEMMA ExecuteResult ==
  ASSUME DevTypeOK, NEW f \in Requests, f.req = "READ_RESP", DevExecute(f)
  PROVE  /\ UNCHANGED <<key, counter, data, conf, purge, result>>
         /\ resp'[f.region].result = result[f.region]
<1>1. f.region \in Regions /\ DOMAIN resp = Regions
  BY DEF Requests, DevTypeOK
<1>2. DevReadResult(f)
  BY DEF DevExecute, DevWriteKey, DevWrite, DevConfWrite, DevRead,
         DevReadCounter, DevConfRead, DevPurgeEnable, DevPurgeStatus
<1>3. QED
  BY <1>1, <1>2 DEF DevReadResult, Respond, Answer

\* The answer to a configuration read shows the configuration block.
LEMMA ExecuteConfRead ==
  ASSUME DevTypeOK, NEW f \in Requests, f.req = "SEC_CONF_READ", DevExecute(f),
         resp'[f.region].result = "Success"
  PROVE  UNCHANGED conf /\ resp'[f.region].blocks = <<conf>>
<1>1. f.region \in Regions /\ DOMAIN resp = Regions
  BY DEF Requests, DevTypeOK
<1>2. DevConfRead(f)
  BY DEF DevExecute, DevWriteKey, DevWrite, DevConfWrite, DevReadResult,
         DevRead, DevReadCounter, DevPurgeEnable, DevPurgeStatus
<1>3. ASSUME NEW what, NEW blocks, Respond(f, what, 0, blocks)
      PROVE  /\ resp'[f.region].result = what
             /\ resp'[f.region].blocks = blocks /\ conf' = conf
  BY <1>1, <1>3 DEF Respond, Answer
<1>4. CASE Respond(f, "Key not programmed", 0, << >>)
  <2>1. resp'[f.region].result = "Key not programmed"
    BY <1>3, <1>4
  <2>2. QED
    BY <2>1
<1>5. CASE Respond(f, "Success", 0, <<conf>>)
  BY <1>3, <1>5
<1>6. QED
  BY <1>2, <1>4, <1>5 DEF DevConfRead

\* A purge request answered with success has started the purge.
LEMMA ExecutePurgeEnable ==
  ASSUME DevTypeOK, NEW f \in Requests, f.req = "PURGE_ENABLE", DevExecute(f),
         resp'[f.region].result = "Success"
  PROVE  purge'[f.region] = "running"
<1>1. f.region \in Regions /\ DOMAIN resp = Regions /\ DOMAIN purge = Regions
  BY DEF Requests, DevTypeOK
<1>2. DevPurgeEnable(f)
  BY DEF DevExecute, DevWriteKey, DevWrite, DevConfWrite, DevReadResult,
         DevRead, DevReadCounter, DevConfRead, DevPurgeStatus
<1>3. ASSUME NEW why \in Objections(f) PROVE ~ Respond(f, why, 0, << >>)
  <2>1. why # "Success"
    BY DEF Objections, Failures
  <2>2. QED
    BY <1>1, <2>1 DEF Respond, Answer
<1>4. purge' = [purge EXCEPT ![f.region] = "running"]
  BY <1>2, <1>3 DEF DevPurgeEnable
<1>5. QED
  BY <1>1, <1>4

\* The answer to a purge status request is the region's purge state.
LEMMA ExecutePurgeStatus ==
  ASSUME DevTypeOK, NEW f \in Requests, f.req = "PURGE_STATUS", DevExecute(f)
  PROVE  /\ UNCHANGED purge
         /\ resp'[f.region].blocks = <<PurgeCode(purge[f.region])>>
<1>1. f.region \in Regions /\ DOMAIN resp = Regions
  BY DEF Requests, DevTypeOK
<1>2. DevPurgeStatus(f)
  BY DEF DevExecute, DevWriteKey, DevWrite, DevConfWrite, DevReadResult,
         DevRead, DevReadCounter, DevConfRead, DevPurgeEnable
<1>3. QED
  BY <1>1, <1>2 DEF DevPurgeStatus, Respond, Answer

\* What a change did when the result register says it succeeded.
LEMMA KeyWritten ==
  ASSUME DevTypeOK, NEW f \in Requests, f.req = "WRITE_KEY", DevExecute(f),
         result'[f.region] = "Success"
  PROVE  key'[f.region] = f.mac
<1>1. /\ f.region \in Regions /\ DOMAIN result = Regions
      /\ DOMAIN key = Regions
  BY DEF Requests, DevTypeOK
<1>2. DevWriteKey(f)
  BY DEF DevExecute, DevWrite, DevConfWrite, DevReadResult, DevRead,
         DevReadCounter, DevConfRead, DevPurgeEnable, DevPurgeStatus
<1>3. QED
  BY <1>1, <1>2 DEF DevWriteKey

LEMMA RefusalShows ==
  ASSUME DevTypeOK, NEW f \in Requests, Refuse(f)
  PROVE  result'[f.region] # "Success"
<1>1. f.region \in Regions /\ DOMAIN result = Regions
  BY DEF Requests, DevTypeOK
<1>2. PICK why \in Objections(f) : result' = [result EXCEPT ![f.region] = why]
  BY DEF Refuse
<1>3. why # "Success"
  BY DEF Objections, Failures
<1>4. QED
  BY <1>1, <1>2, <1>3

LEMMA ConfWritten ==
  ASSUME DevTypeOK, NEW f \in Requests, f.req = "SEC_CONF_WRITE",
         DevExecute(f), result'[f.region] = "Success"
  PROVE  conf' = f.first
<1>1. DevConfWrite(f)
  BY DEF DevExecute, DevWriteKey, DevWrite, DevReadResult, DevRead,
         DevReadCounter, DevConfRead, DevPurgeEnable, DevPurgeStatus
<1>2. QED
  BY <1>1, RefusalShows DEF DevConfWrite

LEMMA BlocksWritten ==
  ASSUME DevTypeOK, NEW f \in Requests, f.req = "WRITE",
         DevExecute(f), result'[f.region] = "Success"
  PROVE  /\ counter[f.region] = f.counter
         /\ counter'[f.region] = f.counter + 1
         /\ counter' # counter
         /\ data' = AfterWrite(f)
<1>1. DevWrite(f)
  BY DEF DevExecute, DevWriteKey, DevConfWrite, DevReadResult, DevRead,
         DevReadCounter, DevConfRead, DevPurgeEnable, DevPurgeStatus
<1>2. Accepted(f) /\ data' = AfterWrite(f)
  BY <1>1, RefusalShows DEF DevWrite
<1>3. /\ f.region \in Regions /\ f.counter \in Nat
      /\ counter[f.region] = f.counter /\ counter \in [Regions -> Int]
  BY <1>2, AcceptedRoom, BoundsAssumption DEF Accepted, Requests, DevTypeOK
<1>4. counter'[f.region] = f.counter + 1
  BY <1>2, <1>3 DEF Accepted
<1>5. QED
  BY <1>2, <1>3, <1>4

\* A write is stored as a whole, for the reasons that apply to none of them,
\* or refused for one that applies.
LEMMA WriteDecided ==
  ASSUME DevTypeOK, NEW f \in Requests, f.req = "WRITE", DevExecute(f)
  PROVE  /\ UNCHANGED <<key, conf, purge, resp>>
         /\ \/ /\ UNCHANGED <<data, counter>>
               /\ result'[f.region] # "Success"
               /\ result'[f.region] \in Objections(f)
            \/ /\ counter[f.region] = f.counter
               /\ counter'[f.region] = f.counter + 1
               /\ counter' # counter
               /\ data' = AfterWrite(f)
               /\ key[f.region] = f.mac
               /\ f.addr + f.count - 1 <= MaxAddr
<1>1. DevWrite(f)
  BY DEF DevExecute, DevWriteKey, DevConfWrite, DevReadResult, DevRead,
         DevReadCounter, DevConfRead, DevPurgeEnable, DevPurgeStatus
<1>2. CASE Refuse(f)
  BY <1>2, RefusalShows, WriteRefused DEF Refuse
<1>3. CASE Accepted(f) /\ data' = AfterWrite(f) /\ UNCHANGED <<key, conf, purge, resp>>
  <2>1. Objections(f) = {}
    BY <1>3 DEF Accepted
  <2>2. /\ "Authentication failure" \in Failures
        /\ "Authentication failure" \notin Objections(f)
        /\ "Address failure" \in Failures
        /\ "Address failure" \notin Objections(f)
    BY <2>1 DEF Failures
  <2>3. key[f.region] = f.mac /\ ~ (f.addr + f.count - 1 > MaxAddr)
    BY <2>2, Zenon DEF Objections
  <2>4. f.addr + f.count - 1 <= MaxAddr
    BY <2>3, BoundsAssumption DEF Requests
  <2>5. f.region \in Regions /\ DOMAIN result = Regions
    BY DEF Requests, DevTypeOK
  <2>6. result'[f.region] = "Success"
    BY <1>3, <2>5 DEF Accepted
  <2>7. QED
    BY <1>3, <2>3, <2>4, <2>6, BlocksWritten
<1>4. QED
  BY <1>1, <1>2, <1>3 DEF DevWrite

\* The counter in an answer to a counter request is not ahead of the device's.
LEMMA CounterShown ==
  ASSUME DevTypeOK, NEW f \in Requests, f.req = "READ_CNT", DevExecute(f)
  PROVE  resp'[f.region].counter <= counter[f.region]
<1>1. f.region \in Regions /\ DOMAIN resp = Regions
  BY DEF Requests, DevTypeOK
<1>2. counter[f.region] \in Nat
  BY <1>1, BoundsAssumption DEF DevTypeOK
<1>3. CASE key[f.region] # NoKey
  <2>1. resp'[f.region].counter = counter[f.region]
    BY <1>3, ExecuteCounter
  <2>2. QED
    BY <1>2, <2>1
<1>4. CASE key[f.region] = NoKey
  <2>1. DevReadCounter(f)
    BY DEF DevExecute, DevWriteKey, DevWrite, DevConfWrite, DevReadResult,
           DevRead, DevConfRead, DevPurgeEnable, DevPurgeStatus
  <2>2. Respond(f, "Key not programmed", 0, << >>)
    BY <1>4, <2>1 DEF DevReadCounter
  <2>3. resp'[f.region].counter = 0
    BY <1>1, <2>2 DEF Respond, Answer
  <2>4. QED
    BY <1>2, <2>3
<1>5. QED
  BY <1>3, <1>4
=============================================================================

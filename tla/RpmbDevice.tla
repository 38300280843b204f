----------------------------- MODULE RpmbDevice -----------------------------
(***************************************************************************)
(* The replay protected memory block of a UFS device, as the tool's        *)
(* requests use it.  The device is not part of the repository: this module *)
(* states what ufs_rpmb.c relies on, that is the request types of          *)
(* ufs_rpmb.h, the operation results of rpmb_res_txt, and the way          *)
(* do_rpmb_op collects an answer.                                          *)
(*                                                                         *)
(* Every region has its own key, write counter and data, a result register *)
(* that the requests which change something leave behind, and the answer   *)
(* the next SECURITY PROTOCOL IN returns.  A request that changes          *)
(* something leaves the answer alone: RPMB_READ_RESP moves the result      *)
(* register into it.                                                       *)
(***************************************************************************)
EXTENDS Integers, Sequences

CONSTANTS
  Regions,      \* the RPMB regions of the device, 0 among them
  Keys,         \* the authentication keys a user may hold
  NoKey,        \* the key of a region before key programming
  MaxAddr,      \* MAX_ADDRESS: the last block address of a region
  CounterMax    \* the value at which a write counter is exhausted

ASSUME RegionsAssumption == Regions \subseteq Nat /\ 0 \in Regions
ASSUME KeysAssumption    == NoKey \notin Keys
ASSUME BoundsAssumption  == MaxAddr \in Nat /\ CounterMax \in Nat

(***************************************************************************)
(* Block contents.  Block number i of a user's input file is the integer i *)
(* itself, so the contents that no input file can hold are not positive.   *)
(***************************************************************************)
Foreign   == -1    \* what another host writes
ZeroFrame == -2    \* the data of a frame nobody filled in (calloc)

\* What block a of region r holds before the run: all different.
Earlier(r, a) == -3 - a - r * (MaxAddr + 1)

Addrs == 0 .. MaxAddr

RequestTypes == {"WRITE_KEY", "READ_CNT", "WRITE", "READ", "READ_RESP",
                 "SEC_CONF_WRITE", "SEC_CONF_READ", "PURGE_ENABLE",
                 "PURGE_STATUS"}

Failures == {"General failure", "Authentication failure", "Counter failure",
             "Address failure", "Write failure", "Key not programmed",
             "Purge in progress"}
Results  == Failures \cup {"Success"}

(***************************************************************************)
(* A request stands for the frames of one SECURITY PROTOCOL OUT: they      *)
(* carry the same address, block count and counter, and the last one the   *)
(* MAC.  first is the number of the input block in the first frame; mac is *)
(* the key the MAC was computed with (for WRITE_KEY, the key itself).      *)
(***************************************************************************)
Requests == [req : RequestTypes, region : Regions, addr : Nat, count : Nat,
             counter : Nat, mac : Keys \cup {NoKey}, first : Int]

Answers == [result : Results, counter : Nat, blocks : Seq(Int)]

VARIABLES key, counter, data, conf, purge, result, resp

devVars == <<key, counter, data, conf, purge, result, resp>>

Answer(what, c, blocks) == [result |-> what, counter |-> c, blocks |-> blocks]

(***************************************************************************)
(* The device any earlier use may have left: a region is programmed or     *)
(* not, its counter is anywhere, and the result register and the pending   *)
(* answer are those of some earlier exchange, whose counter may be old.    *)
(***************************************************************************)
DevInit ==
  /\ key \in [Regions -> Keys \cup {NoKey}]
  /\ counter \in [Regions -> 0 .. CounterMax]
  /\ data = [r \in Regions |-> [a \in Addrs |-> Earlier(r, a)]]
  /\ conf = Foreign
  /\ purge \in [Regions -> {"none", "running"}]
  /\ result \in [Regions -> {"Success", "Counter failure", "Key not programmed"}]
  /\ \E old \in [Regions -> 0 .. CounterMax] :
       /\ \A r \in Regions : old[r] <= counter[r]
       /\ resp = [r \in Regions |-> Answer(result[r], old[r], << >>)]
  /\ \A r \in Regions :
       IF key[r] = NoKey THEN counter[r] = 0 /\ result[r] = "Key not programmed"
                         ELSE result[r] # "Key not programmed"

(***************************************************************************)
(* Why the device may refuse an authenticated request: any one of the      *)
(* reasons that apply is reported, so nothing depends on the order of the  *)
(* device's checks.                                                        *)
(***************************************************************************)
Objections(f) ==
  { why \in Failures :
      \/ why = "Purge in progress"      /\ purge[f.region] = "running"
      \/ why = "Key not programmed"     /\ key[f.region] = NoKey
      \/ why = "Authentication failure" /\ key[f.region] # f.mac
      \/ why = "Write failure"          /\ counter[f.region] >= CounterMax
      \/ why = "Counter failure"        /\ counter[f.region] # f.counter
      \/ why = "Address failure"        /\ f.req = "WRITE"
                                        /\ f.addr + f.count - 1 > MaxAddr }

Stored(f) == f.addr .. (f.addr + f.count - 1)

AfterWrite(f) ==
  [data EXCEPT ![f.region] =
     [a \in Addrs |-> IF a \in Stored(f) THEN f.first + (a - f.addr)
                                         ELSE data[f.region][a]]]

\* The register records the refusal; the request has no other effect.
Refuse(f) ==
  /\ \E why \in Objections(f) : result' = [result EXCEPT ![f.region] = why]
  /\ UNCHANGED <<key, counter, data, conf, purge, resp>>

Accepted(f) ==
  /\ Objections(f) = {}
  /\ counter' = [counter EXCEPT ![f.region] = @ + 1]
  /\ result' = [result EXCEPT ![f.region] = "Success"]

DevWriteKey(f) ==
  /\ f.req = "WRITE_KEY"
  /\ \/ /\ key[f.region] = NoKey
        /\ key' = [key EXCEPT ![f.region] = f.mac]
        /\ result' = [result EXCEPT ![f.region] = "Success"]
     \/ /\ key[f.region] # NoKey
        /\ result' = [result EXCEPT ![f.region] = "General failure"]
        /\ UNCHANGED key
  /\ UNCHANGED <<counter, data, conf, purge, resp>>

DevWrite(f) ==
  /\ f.req = "WRITE"
  /\ \/ Refuse(f)
     \/ /\ Accepted(f)
        /\ data' = AfterWrite(f)
        /\ UNCHANGED <<key, conf, purge, resp>>

DevConfWrite(f) ==
  /\ f.req = "SEC_CONF_WRITE"
  /\ \/ Refuse(f)
     \/ /\ Accepted(f)
        /\ conf' = f.first
        /\ UNCHANGED <<key, data, purge, resp>>

Respond(f, what, c, blocks) ==
  /\ resp' = [resp EXCEPT ![f.region] = Answer(what, c, blocks)]
  /\ UNCHANGED <<key, counter, data, conf, result>>

DevReadResult(f) ==
  /\ f.req = "READ_RESP"
  /\ Respond(f, result[f.region], counter[f.region], << >>)
  /\ UNCHANGED purge

DevReadCounter(f) ==
  /\ f.req = "READ_CNT"
  /\ \/ /\ key[f.region] = NoKey
        /\ Respond(f, "Key not programmed", 0, << >>)
     \/ /\ key[f.region] # NoKey
        /\ Respond(f, "Success", counter[f.region], << >>)
  /\ UNCHANGED purge

DevRead(f) ==
  /\ f.req = "READ"
  /\ \/ /\ purge[f.region] = "running"
        /\ Respond(f, "Purge in progress", 0, << >>)
     \/ /\ key[f.region] = NoKey
        /\ Respond(f, "Key not programmed", 0, << >>)
     \/ /\ f.addr + f.count - 1 > MaxAddr
        /\ Respond(f, "Address failure", 0, << >>)
     \/ /\ purge[f.region] # "running"
        /\ key[f.region] # NoKey
        /\ f.addr + f.count - 1 <= MaxAddr
        /\ Respond(f, "Success", 0,
                   [i \in 1 .. f.count |-> data[f.region][f.addr + i - 1]])
  /\ UNCHANGED purge

DevConfRead(f) ==
  /\ f.req = "SEC_CONF_READ"
  /\ \/ key[f.region] = NoKey /\ Respond(f, "Key not programmed", 0, << >>)
     \/ key[f.region] # NoKey /\ Respond(f, "Success", 0, <<conf>>)
  /\ UNCHANGED purge

\* do_rpmb_op asks for no result after RPMB_PURGE_ENABLE: the device answers
\* the request itself.
DevPurgeEnable(f) ==
  /\ f.req = "PURGE_ENABLE"
  /\ \/ \E why \in Objections(f) : Respond(f, why, 0, << >>) /\ UNCHANGED purge
     \/ /\ Objections(f) = {}
        /\ Respond(f, "Success", 0, << >>)
        /\ purge' = [purge EXCEPT ![f.region] = "running"]

PurgeCode(state) == CASE state = "none" -> 0 [] state = "running" -> 1
                      [] state = "done" -> 2

DevPurgeStatus(f) ==
  /\ f.req = "PURGE_STATUS"
  /\ Respond(f, "Success", 0, <<PurgeCode(purge[f.region])>>)
  /\ UNCHANGED purge

\* What the device does when a SECURITY PROTOCOL OUT reaches it.
DevExecute(f) ==
  \/ DevWriteKey(f) \/ DevWrite(f) \/ DevConfWrite(f) \/ DevReadResult(f)
  \/ DevReadCounter(f) \/ DevRead(f) \/ DevConfRead(f) \/ DevPurgeEnable(f)
  \/ DevPurgeStatus(f)

\* A purge the device runs by itself comes to its end.
DevPurgeEnds(r) ==
  /\ purge[r] = "running"
  /\ purge' = [purge EXCEPT ![r] = "done"]
  /\ UNCHANGED <<key, counter, data, conf, result, resp>>

\* Another host holding the region's key completes a write of one block.
DevForeignWrite(r, a) ==
  /\ key[r] # NoKey
  /\ counter[r] < CounterMax
  /\ purge[r] # "running"
  /\ data' = [data EXCEPT ![r][a] = Foreign]
  /\ counter' = [counter EXCEPT ![r] = @ + 1]
  /\ result' = [result EXCEPT ![r] = "Success"]
  /\ resp' = [resp EXCEPT ![r] = Answer("Success", counter[r] + 1, << >>)]
  /\ UNCHANGED <<key, conf, purge>>

PurgeStates == {"none", "running", "done"}

DevTypeOK ==
  /\ key \in [Regions -> Keys \cup {NoKey}]
  /\ counter \in [Regions -> 0 .. CounterMax]
  /\ data \in [Regions -> [Addrs -> Int]]
  /\ conf \in Int
  /\ purge \in [Regions -> PurgeStates]
  /\ result \in [Regions -> Results]
  /\ resp \in [Regions -> Answers]
=============================================================================

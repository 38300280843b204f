----------------------------- MODULE RpmbPromise -----------------------------
(***************************************************************************)
(* What a user may expect of "rpmb -t 3": the blocks of the input file     *)
(* appear in the region in order, in portions of at most bRPMB_ReadWrite-  *)
(* Size, nothing else in the region changes, and the verdict comes last.   *)
(* A good verdict means that all of them are there, or all that fit below  *)
(* the end of the address space.  A bad verdict says nothing: the blocks   *)
(* stored so far stay.  No transport, no retry and no counter appears.     *)
(***************************************************************************)
EXTENDS Integers

CONSTANT LastAddr    \* the last address of the region, a natural number

VARIABLES
  area,      \* the region: address |-> block
  stored,    \* how many input blocks it holds
  verdict,   \* "none", "good" or "bad"
  start,     \* where the first block goes
  goal       \* how many blocks the user asked for

promiseVars == <<area, stored, verdict, start, goal>>

Init ==
  /\ stored = 0 /\ verdict = "none"
  /\ start \in 0 .. LastAddr
  /\ goal \in Nat
  /\ DOMAIN area = 0 .. LastAddr

\* The next n blocks of the input file land behind the ones already there.
Store(n) ==
  /\ verdict = "none"
  /\ stored + n <= goal
  /\ start + stored + n - 1 <= LastAddr
  /\ area' = [a \in 0 .. LastAddr |->
                IF a \in (start + stored) .. (start + stored + n - 1)
                  THEN a - start + 1 ELSE area[a]]
  /\ stored' = stored + n
  /\ UNCHANGED <<verdict, start, goal>>

Good == stored = goal \/ start + stored > LastAddr

Conclude ==
  /\ verdict = "none"
  /\ \/ verdict' = "good" /\ Good
     \/ verdict' = "bad"
  /\ UNCHANGED <<area, stored, start, goal>>

Next == (\E n \in 1 .. goal : Store(n)) \/ Conclude

Spec     == Init /\ [][Next]_promiseVars
FairSpec == Spec /\ WF_promiseVars(Conclude)
=============================================================================

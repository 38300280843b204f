---------------------------- MODULE HelpDefaults ----------------------------
(***************************************************************************)
(* A user runs "ufs-utils rpmb" and then "ufs-utils arpmb" with the same   *)
(* options: the variables of the second run have an "a" before their       *)
(* names.  What rpmb_help and arpmb_help say of the options is compared    *)
(* with what each command makes of them.  As reading changes no data, one  *)
(* device stands for two, each in the mode its command needs.              *)
(***************************************************************************)
EXTENDS MCRpmb

VARIABLES ajob, apc, aret, aaddr, aleft, acnt, abuff, aout, aresend, aprinted,
          afaults, aforeign, azeros, ainSync, aapplied

Arpmb == INSTANCE Arpmb WITH
  job     <- ajob,     pc      <- apc,      ret     <- aret,   addr <- aaddr,
  left    <- aleft,    cnt     <- acnt,     buff    <- abuff,  out  <- aout,
  resend  <- aresend,  printed <- aprinted, faults  <- afaults,
  foreign <- aforeign, zeros   <- azeros,   inSync  <- ainSync,
  applied <- aapplied

rpmbVars  == <<toolVars, faults, foreign, history>>
arpmbVars == <<ajob, apc, aret, aaddr, aleft, acnt, abuff, aout, aresend, aprinted,
               afaults, aforeign, azeros, ainSync, aapplied>>

BothInit ==
  /\ Init /\ Arpmb!Init
  /\ <<ajob.region, ajob.start, ajob.num>> = <<job.region, job.start, job.num>>

BothNext ==
  \/ pc # "exit" /\ Next /\ UNCHANGED arpmbVars
  \/ pc = "exit" /\ Arpmb!Next /\ UNCHANGED rpmbVars

BothSpec == BothInit /\ [][BothNext]_<<devVars, rpmbVars, arpmbVars>>

-----------------------------------------------------------------------------

Smaller(m, n) == IF m < n THEN m ELSE n

\* The blocks a read is about, with the defaults of the two help texts.
Meant ==
  LET first == Default(job.start, 0)
      count == Smaller(Default(job.num, 1), MaxAddr + 1 - first)
  IN  [i \in 1 .. count |-> Here[first + i - 1]]

\* rpmb_help and arpmb_help, of -s and -n: "default value is 0" and "default
\* value is 1".  When nothing fails and the device answers, a read has the
\* blocks these defaults mean, with either command.
HelpDefaults ==
  (/\ pc = "exit" /\ apc = "exit"
   /\ Reading /\ ajob.cmd = "READ_RPMB"
   /\ faults + foreign + afaults + aforeign = 0
   /\ key[job.region] # NoKey /\ purge[job.region] = "none")
     => out = Meant /\ aout = Meant
=============================================================================

----------------------------- MODULE MCQueries -----------------------------
(***************************************************************************)
(* An instance of Queries for TLC: a byte has four values and a word six,  *)
(* the table of attributes has one entry more than a byte has values and   *)
(* that of flags one entry less, as 257 and 255 entries have against 256.  *)
(* The second attribute is a DWORD: its limit is the largest word.         *)
(***************************************************************************)
EXTENDS Queries

Attr(mode, limit) == [mode |-> mode, limit |-> limit]
MCAttrTable ==
  << Attr("readable", 3), Attr("write_only", 5), Attr("readable", 3),
     Attr("reserved", 0), Attr("vendor", 3) >>
MCFlagTable ==
  << [mode |-> "reserved"], [mode |-> "readable"], [mode |-> "write_only"] >>
MCMibTable ==
  << [get |-> TRUE, set |-> TRUE], [get |-> FALSE, set |-> TRUE],
     [get |-> TRUE, set |-> FALSE] >>

\* The arguments of -w: -1 becomes the value of ERROR, 7 becomes 1.
MCWritten == {-1, 0, 2, 3, 4, 7}

\* A device like those the specifications describe; one with a descriptor of an
\* odd size; one whose last UniPro attribute has the value of ERROR.
MCDevice(health, last) ==
  [i \in Items |->
     CASE i[1] = "flag" -> i[2] % 2
       [] i = <<"peer", 2>> -> last
       [] i = <<"desc", 9>> -> health
       [] i = <<"desc", 10>> -> health
       [] OTHER -> 2]
MCDevices == {MCDevice(2, 2), MCDevice(3, 2), MCDevice(2, Err)}
=============================================================================

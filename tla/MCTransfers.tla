---------------------------- MODULE MCTransfers ----------------------------
(***************************************************************************)
(* An instance of Transfers for TLC.  The unit is half of ALIGNMENT_CHUNK_ *)
(* SIZE: two chunk sizes fit MaxIo, and two transfers of MaxIo fill what   *)
(* the offset field of the CDB can address.                                *)
(***************************************************************************)
EXTENDS Transfers, TLC

\* Refused, one portion, a last short portion, longer than the offset field.
MCFileSize == "f1" :> 6 @@ "f2" :> 3 @@ "f3" :> 10

\* Sizes of -s: refused, one and two units of 4 KB, negative, 2^32 bytes.
MCSizes == {-2, 0, 2, 3, 4, 6, 32}

Dir(length, first, second) ==
  [length |-> length, entries |-> <<first, second>>]
Entry(id, len) == [id |-> id, len |-> len]

\* Two entries of two units each: legal ones, of one portion, several, the
\* longest; illegal ones first and second; counts that wrap to 0 and 1, a count
\* that is too large, an empty and a ragged header.
MCDirectories ==
  { Dir(4, Entry("h1", 6), Entry("h2", 3)),
    Dir(4, Entry("h2", 14), Entry("h1", 4)),
    Dir(4, Entry("h1", 4), Entry("blank", 4)),
    Dir(4, Entry("h1", 3), Entry("h2", 15)),
    Dir(2, Entry("h1", 0), NoEntry),
    Dir(8, Entry("h1", 4), Entry("h2", 4)),
    Dir(10, Entry("h1", 4), Entry("h2", 4)),
    Dir(6, Entry("h1", 4), Entry("h2", 4)),
    Dir(0, NoEntry, NoEntry),
    Dir(3, Entry("h1", 4), NoEntry) }
=============================================================================

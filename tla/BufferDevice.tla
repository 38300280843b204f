---------------------------- MODULE BufferDevice ----------------------------
(***************************************************************************)
(* The buffers of the device behind WRITE BUFFER and READ BUFFER, as       *)
(* ufs_ffu.c, ufs_vendor.c and ufs_err_hist.c rely on them, with the CDB   *)
(* fields of scsi_bsg_util.c that address them.                            *)
(*                                                                         *)
(* One cell of a buffer says where its content came from: <<f, i>> is unit *)
(* i of file f or of error history buffer f.                               *)
(***************************************************************************)
EXTENDS Integers, Sequences

CONSTANTS
  Files,        \* input files
  FileSize,     \* the size of each
  HistoryIds,   \* legal buffer ids of the error history
  Span,         \* 2^24: what the offset and length fields of the CDB hold
  HostMax,      \* the largest transfer the host adapter accepts
  VendorIds,    \* vendor buffers
  VendorSize    \* the size of each

ASSUME FilesAssumption  == FileSize \in [Files -> Nat]
ASSUME HostAssumption   == Span \in Nat /\ HostMax \in Nat /\ HostMax < Span
ASSUME VendorAssumption == VendorSize \in Nat

VARIABLES
  image,        \* the firmware image the device has collected
  vendor        \* the vendor buffers

devVars == <<image, vendor>>

\* Blank: never written.  Zero: cleared memory of the tool.  Junk: memory
\* nobody has written to.
Blank == <<"blank", 0>>
Zero  == <<"zero", 0>>
Junk  == <<"junk", 0>>
Names == Files \cup HistoryIds \cup {"blank", "zero", "junk"}
Cells == Names \X Nat

Range24 == 0 .. 2 * Span - 1

\* put_unaligned_be24: three bytes of a 32-bit value.
Field24(v) == v % Span

\* The cells from at on replaced by n units of f, from unit first on.
Stored(mem, at, n, f, first) ==
  [c \in DOMAIN mem |->
     IF at <= c /\ c < at + n THEN <<f, first + (c - at)>> ELSE mem[c]]

\* WRITE BUFFER in FFU mode: a portion of the image for its offset.
DevFlash(f, offset, n) ==
  image' = Stored(image, Field24(offset), Field24(n), f, offset)

InVendorBuffer(offset, n) == Field24(offset) + Field24(n) <= VendorSize

\* WRITE BUFFER in vendor mode.
DevVendorWrite(id, f, offset, n) ==
  vendor' = [vendor EXCEPT ![id] = Stored(@, Field24(offset), n, f, 0)]

\* READ BUFFER: what the device answers over the beginning of buf, which keeps
\* what it had where the device sends less than was asked for.
Received(buf, answer) ==
  [j \in DOMAIN buf |-> IF j \in DOMAIN answer THEN answer[j] ELSE buf[j]]

\* n units of an error history buffer from an offset on, of a vendor buffer.
HistoryAnswer(id, offset, n) == [j \in 1 .. n |-> <<id, Field24(offset) + j - 1>>]
VendorAnswer(id, offset, n) ==
  [j \in 1 .. n |-> vendor[id][Field24(offset) + j - 1]]

DevInit ==
  /\ image = [c \in Range24 |-> Blank]
  /\ vendor = [v \in VendorIds |-> [c \in 0 .. VendorSize - 1 |-> Blank]]

DevTypeOK ==
  /\ image \in [Range24 -> Cells]
  /\ vendor \in [VendorIds -> [0 .. VendorSize - 1 -> Cells]]
=============================================================================

# A verification project for ufs-utils

`ufs-utils` (7.14.12) is a command line tool that configures and services a UFS
storage device from a Linux host. Every invocation is one sequential process
that parses its options, opens one or two device files, sends a series of
SCSI or query commands through `ioctl(SG_IO)`, and prints what it got. What
makes it hard is not concurrency inside the tool but everything around it: the
device keeps state from one request to the next, a call may fail although the
device executed it, the tool repeats calls, other hosts and other processes use
the same device, and the tool may be killed half way through a long operation
and started again.

This directory holds TLA+ models of the parts where that matters, the TLC
configurations that check them, and TLAPS proofs about them. `PROJECT.json`
lists the components, the runs, the source lines each definition stands for,
the hazards and the theorems.

## Inventory

| Component | Source | State it keeps | Operations | Hard behaviour | Correct when |
|---|---|---|---|---|---|
| rpmb | `ufs_rpmb.c` | the request and answer frames of one exchange; write counter, address, remaining blocks, open files | eight commands, all through `do_rpmb_op` | retries of requests the device may have executed, errors that are overwritten, another host's writes, the end of the address space, chunk size 0 | the device holds a prefix of the file, each chunk once, and a message is true |
| hmr | `ufs_hmr.c` | cached health descriptor, total count, stages to skip | precondition, method and unit, refresh loop, postcondition | kill and restart in the middle of a cycle, status reset by any reader, polls with and without bound, a limited number of cycles | a cycle has one method, a run spends one cycle, and "verified" means refreshed |
| arpmb | `ufs_arpmb.c` | as rpmb, in EHS frames over BSG | key, counter, read, write | a write that is interrupted and sent again, a loop without progress, uninitialised buffer and padding | as rpmb |
| transport | `scsi_bsg_util.c` | none | SECURITY PROTOCOL IN/OUT, READ/WRITE BUFFER, query UPIUs | interrupted calls that are repeated, status fields that are not looked at, short reads, three-byte fields | a failure is reported |
| ffu | `ufs_ffu.c` | offset and rest of the firmware file | flash, status | failure or kill in the middle of a download, a chunk size that wraps | the device holds a beginning of the file at every moment, and the whole of it after the message |
| vendor | `ufs_vendor.c` | one buffer | read, write | short files, short reads, an offset that was not given | the buffer, or the file, is what the message says |
| err_hist | `ufs_err_hist.c` | directory, the entry and offset it is at, one buffer for all portions | read directory, read each buffer | a count truncated to a byte, illegal entries in the middle, portions that come back short | every unit of the file is in its place, and the history is complete when it is said to be |
| uic | `unipro.c` | retries left, the local value | read and write local and peer attributes, read a group | a retry loop for one direction only, a value that looks like an error | a write changes the one attribute, a group is read as a whole |
| emon | `ufs_emon.c` | eye monitor configuration, sample array | configure, scan, report | settings that are sent twice, error exits that leave the monitor enabled, the array's end, a scan that repeats | the monitor is off afterwards |
| desc, attr, fl | `ufs_cmds.c` | the place in a table, the result so far, the file of a descriptor | read, write, set, clear, toggle, read all | read all goes on after an error, an 8-bit counter, a number used as an index before it is checked, a repeated toggle | only the named item changes, to a value that fits; read all asks for its whole list; an error is returned |
| spec_version, list_bsg | `ufs_cmds.c` | none | print one field; list a directory | | |
| command line | `options.c`, `ufs.c` | `struct tool_options` | one check per option, defaults per command | defaults that are set for some commands only | what the help text says |
| HMAC | `hmac_sha2.c`, `sha2.c` | third-party | | | |

The components meet in two ways. `main` calls exactly one of the command
functions with the verified options and turns its return code into the exit
status. The command functions call the transport and the query functions of
`ufs_cmds.c` (rpmb reads the geometry descriptor for its chunk size, hmr does
everything through queries). They share nothing else: what one invocation
leaves behind for the next is in the device.

## Modules

* `RpmbDevice`: the device's RPMB as `ufs_rpmb.c` relies on it, with a key,
  counter, data, result register and pending answer per region. External: the
  repository holds only its request types and result codes.
* `Rpmb`: one run of `rpmb` against that device. `pc` names the next ioctl
  (`so1`, `so2`, `si`) or the code between two of them; `caller` is the
  function `do_rpmb_op` returns to; `frame`, `reply`, `tries`, `ret`, `addr`,
  `left`, `cnt` are the C variables `frame_in`, `frame_out`, `try_again`,
  `ret`, `start_addr`, `num_blocks`, `cnt`. There is one action for each call of
  the transport (succeeds, fails with or without the device having executed
  it, is interrupted with or without that and sent again by `send_scsi_cmd`,
  which costs no try, or, for SG_IO version 3, vanishes unnoticed), and one for the code that
  runs when `do_rpmb_op` returns to each command. `ForeignWrite` and `PurgeEnds`
  are the other parties.
  The contents of the blocks are numbers: block *i* of the input file is *i*, so
  that a block in the device or in the output file says where it came from.
* `RpmbPromise`: what a user may expect of a write: portions of the file arrive
  in order, then comes a verdict, and a good one is true. No retries and no
  counters. The refinement mapping to it is at the end of `Rpmb`.
* `MCRpmb`: instances of `Rpmb` for TLC.
* `HelpDefaults`: a run of `rpmb` and then one of `arpmb` with the same `-r`, `-s` and
  `-n`, by an instance of `Arpmb` beside `Rpmb` with its own variables and the same
  device. It compares both with what the two help texts say of `-s` and `-n`.
* `Arpmb`: one run of `arpmb` against the same device. A request and its answer
  are one ioctl here, so an action is one ioctl with the code up to the next.
  `do_arpmb_op` repeats none, but `send_bsg_scsi_trs` below it sends an interrupted
  one again: `Interrupted` is an ioctl the device executed and that is then sent
  once more, with the same frame (`SameFrame`, `resend`). A write that this happens
  to is stored and answered "Counter failure". `addr`, `left`, `cnt`, `buff`, `ret` are `start_addr`,
  `num_blocks`, `cnt`, the pointer `buff` of `do_write_arpmb` (unset, null, or
  dangling in a mutant) and `ret`; `printed` is what the tool said last. The four
  uninitialised bytes of `arpmb_calc_hmac_sha256` are a choice made in every
  `WriteChunk`, and so is the `free` of a pointer nobody set.
* `MCArpmb`: instances of `Arpmb` for TLC.
* `RpmbDevice_proofs`: lemmas about the device, used by the next three.
* `Rpmb_proofs`, `RpmbEnd_proofs`: theorems about `Rpmb`, the first about what
  reaches the region, the second about what a run says at its end and about the
  promise. `Arpmb_proofs`: theorems about `Arpmb`.
* `EmonDevice`: the eye monitors of the two lanes, with their step and count
  attributes and the power mode change that starts a test. External: the
  repository holds the attributes' names and the comments of `config_eom`. That
  enabling a monitor clears its counts is an assumption the tool makes too:
  without it `eom_scan` could log the counts of an earlier test.
* `Emon`: one run of `emon`. `pc` names the attribute the tool accesses next, so
  an action is one attribute access of `unipro.c` with the code of `config_eom`,
  `eom_scan` or `do_emon` up to the next; `lane`, `t`, `v` are `l`, `t`, `v` of the
  main loop, `seen` is `eom_tested_count`, `er` is `data->er`, `report` the result file.
  `DeviceStep` and `OtherDisables` are the other parties. An attribute may be set
  twice, as the transport sends an interrupted call again: `SetAttr` and `Disable`
  then stay where they are. `doubled` remembers that this happened to the power mode
  change, whose second execution may end at any later time.
* `Emon_proofs`: theorems about `Emon`.
* `HmrDevice`: the refresh attributes of the device: a cycle of `Units` units, a
  status that reading resets, a count of cycles with a limit. External.
* `Hmr`: any number of runs of `hmr` after each other, each killed anywhere. `pc`
  names the query the tool sends next, `passer` is `stage_passer`, `health` the
  cached descriptor, `rc` the return code before the device file is closed and
  `exit` what `do_hmr` returns. `Interrupted` is a query the device executed and that
  `send_bsg_scsi_trs` sends again; at `enable_again` it is the one that sets
  `fRefreshEnable`, between whose two executions the device may refresh, or
  end the unit or the cycle (`resent` counts them). `OtherReader` and `OtherAborts` are the other
  processes the comments of `ufs_hmr.c` speak of.
* `Hmr_proofs`: theorems about `Hmr`.
* `BufferDevice`: the device's buffers behind READ BUFFER and WRITE BUFFER, with
  the CDB fields of `write_buffer` and `read_buffer` that address them. A cell of
  a buffer says where its content came from: a unit of a file, of an error
  history buffer, cleared memory, or memory nobody wrote.
* `Transfers`: any number of runs of `ffu`, `vendor` and `err_hist` against that
  device, each killed anywhere. An action is one ioctl with the code up to the
  next. `off` and `left` are `buf_offset` and `file_size` of `flash_ffu`, `off` also
  `sent` of `log_ehs_buffer`; `listed`, `cnt`, `entry`, `buf` are `ehs_dir->entries`,
  `buffers_cnt`, `i` and `buf` of `log_error_history`; `saved` is
  `error_history.dat`, `vfile` is `read_vendor_buffer.dat`. `cmd` holds the verified
  options. A call may fail, executed or not; with SG_IO version 3 a write may be
  lost unnoticed; a read may bring less than was asked for, which nobody
  notices either (`resid` is not looked at).
* `MCTransfers`: the instance of `Transfers` for TLC.
* `Transfers_proofs`: theorems about `Transfers`.
* `Queries`: one run of `desc`, `attr`, `fl` or `uic`. An action is one request with
  the code up to the next. `cur` is `att_idn`, `flag_idn`, `index` of `unipro_read`, or the
  place in the `||` chain of `do_desc`; `tries`, `mine` are `retries` of
  `ufshcd_dme_get_attr` and `mib_val_local`; `Outcomes` is what the code before the
  first request may decide, a crash or an arbitrary answer included where it
  reads `ufs_attrs[idn]` or `ufs_flags[idn]` beyond the table.
  `Kept` is what the 32 bits of `options->data` keep of `-w`; the value of `ERROR`,
  0xFFFFFFFF, is one of them and is refused for no attribute of four bytes.
* `MCQueries`: the instance of `Queries` for TLC.
* `Queries_proofs`: theorems about `Queries`.

Operators named as mutants in a comment are the same operator with a plausible
bug. They are used by no action; each shows that a property notices the bug.

## Runs

| Run | Shows | Bounds |
|---|---|---|
| `Rpmb_write` | at every moment of a write the region holds a prefix of the file (`PrefixOnly`, `PrefixDespiteOthers`), every chunk is stored once and costs one counter value, an error leaves a point to resume from, success is true if no error was masked, and without faults a write is refused only for a reason | three blocks in chunks of 1, 2 or 3, so one to three chunks; address space of 3, so the write ends at and beyond its end; two tries per call and three faults (a failed, lost or interrupted call each), so that all tries of a call are lost and one more fails; two foreign writes |
| `Rpmb_commands` | the other commands' messages are true, the output file is the region's data, and the tool always ends | two regions; start and count not given, zero, across the end; chunk sizes not given, 0, 1 and 2, so a read has several chunks and the place of each block counts; two faults; one key, which a region has or has not (a region with another key is in `Rpmb_write`, and the proofs are for all keys) |
| `Rpmb_promise` | with fewer faults than tries and one host, a write implements `RpmbPromise`, the verdict included | three tries, two faults |
| `Rpmb_finish` | **violated**: the success message of a write whose first SO was lost three times | |
| `Help_defaults` | **violated**: the defaults of `-s` and `-n` the help texts of `rpmb` and `arpmb` state, for a read | starts and counts as in `Rpmb_commands`; nothing fails |
| `Arpmb_all` | of every command: the device holds a prefix of the file, the counter agrees with the device's but for one chunk whose answer was lost, an error leaves the counted chunks and at most the one under way, and names a refusal for a stored chunk only if its command was sent twice, the success messages are true up to the last address, a run without faults fails only for a reason, only a run that transferred nothing can crash, and all runs end but one kind | address space of 4; starts not given, inside, at and beyond the last address; counts not given, 0 and 3; chunks of 1 and 2, so two or three of them and a shorter last one; chunk size 0 and unknown; files of 2 and 3 blocks; a counter that may be exhausted; two calls that fail or are interrupted, so that a command is sent three times, or twice and then fails; one foreign write |
| `Arpmb_mac` | **violated**: a write with the region's key has the MAC its comment describes | as `Arpmb_all`, writes only, nothing fails |
| `Emon_scan` | every sample is of a finished test of its point, unless a power mode change that was sent twice may still end, the sweep has every point once and fits its array, at most the monitor of the lane where an error happened stays on, an error has a reason, and the scan ends unless its monitor is disabled under it | one or both lanes; a timing step of 1 and voltage steps of 2, limited to 1 or not, so lines of 3 and 5 points; a test count and an error limit of 2, so that either fills first and a test can be seen half done; one call that fails or is executed twice, one monitor disabled from outside; counts of an earlier test or a test still going on at the start |
| `Hmr_runs` | a cycle has one method however the tool is killed and restarted, a run spends one cycle (two if it continued one) and at most one more for each set of `fRefreshEnable` the transport repeats, the postcondition is sound and does not fail for nothing, the tool never decides to enable the minimum unit while the device refreshes, and all runs end | three units per cycle, so one is first, middle and last; three cycles of life; three runs, two faults, one abort, two retries |
| `Hmr_exit` | **violated**: zero from `do_hmr` means success | |
| `Transfers_all` | while a firmware is flashed, also after an error or a kill, the device holds what it held with a beginning of the file over it; every unit of `error_history.dat` is in its place, with zeros where a read was short and never a leftover; the messages of success are true, but for what the code does not look at; a run is refused only for a reason; and all runs end but one kind | two runs, two faults; files of no portion, one, several, a short last one, and one longer than the offset field (scaled to 8 units); portions of every legal size, of a negative `-s` and of a product of 2^32; transfers the host refuses; vendor offsets not given, inside and wrapping; directories of legal entries of one, several and the most units, illegal ones first and second, and counts at and beyond the wrap of a byte |
| `Query_all` | at most the named item changes, to the value asked for, which fits its width, and a run that ends well has changed it; READ_ALL asks for its whole list and nothing else; when the exit status is 0 although something failed and when it is not although nothing did; every run ends | a byte of four values with tables one entry shorter and one longer, as in the code, an index up to past the first wrap; entries of every mode; values at, below and above the width; descriptors of an odd size; a UniPro attribute with the value of `ERROR`; two faults and two retries, so that a call fails for good and another once |

In `Arpmb` and `Emon` a failing call ends the run, so there is at most one; further
faults are calls that are interrupted and sent again. Two for `Arpmb` are a write
that is sent three times, or two chunks of which each is sent twice, or one sent
twice and then failing. One for `Emon` is a power mode change left under way, or
a failure; both together are covered by the proofs, which bound nothing. One
foreign write is enough to make the counter stale and to overwrite a block; a
second repeats one of the two.

The bounds (`MaxFaults`, `MaxForeign`, `MaxRuns`, `MaxAborts`, the counter's and
the count's limit) count what the environment may do; nothing of the tool is
cut off by them. Three faults against two tries is enough for one call to lose
all its tries and another to be repeated; a further one only repeats either
case. Blocks and units are three because code that treats first, next and last
alike has no further case. `MaxRetry` and `RetryCount` are 2 or 3 in place of 3
and 10: nothing depends on the number but the bound of the loops.

What the violated runs found is in `PROJECT.json` under `findings`. `Rpmb_finish`
and `Hmr_exit` are the first to act on: `do_rpmb_op` may return success for a request
that was never delivered, and `do_hmr` returns success for a refused refresh.
`Arpmb_mac` is the third: whether an Advanced RPMB write is authentic depends on
what the stack held. Two more cases are part of properties of `Arpmb_all`
instead of findings, as no document of the repository speaks of them:
`CrashOnlyAtTheStart` says when `do_write_arpmb` frees a pointer it never set (a
start beyond the last address, or no blocks), and `EndsUnlessEmpty` when
`do_read_arpmb` never ends (`bRPMB_ReadWriteSize` is 0 and the device grants a
read of no blocks).

Other cases are exceptions in a property. For all but the first no document of
the repository says otherwise:
* `ffu -s 4194304` (kilobytes) passes the check, since the product is 0 as an `int`
  but the argument is not, and `flash_ffu` writes portions of no bytes for ever
  (`RunsEnd`). The message of `options.c:231`, "The chunk should be multiple value of
  4k, between 4k and ...", says that such a chunk is refused: it is not.
* `err_hist` accepts buffers of up to `READ_BUF_MAX_AVAIL_LEN` bytes, almost twice
  what the three bytes of the offset field reach. From 2^24 on the offset wraps
  and the file holds the beginning of the buffer again, without an error
  (`HistoryPlaced` speaks of the units below).
* An Advanced RPMB write that is interrupted after the device executed it is
  reported as "Counter failure" although it is stored (`ErrorLeavesKnownState`); a
  refresh that is enabled twice in this way may cost a cycle more (`WearBound`);
  and an eye scan whose power mode change was executed twice may log a count
  of the steps before (`SamplesReal`, `doubled`). The loop in `send_bsg_scsi_trs`
  (`scsi_bsg_util.c:385-387`) is the cause of all three.
* `err_hist` says it has created the history when an entry after the first is
  illegal (`rc` is still that of the entry before), when the directory lists 256
  buffers or more (the count is a byte), and when a read came back short
  (`Overlooked` in `TrueMessage`).
* `vendor -r` says it has created the file whatever `write_file` returned, and
  fills the rest of a short answer with what `malloc` gave it.
* `attr -r` or `fl -r` of a write-only item prints an error and exits with 0; a
  failed `desc -r -t 5 -D file` stores an empty or cleared string and exits with 0
  or with the size; a stored descriptor makes the exit status 1, as
  `store_data_file` returns the number of bytes; and a UniPro attribute with the
  value 0xFFFFFFFF is taken for an error (`ExitStatus`).
* A number of 256 or more given to `attr` or `fl` passes unchecked and names
  another item, since the field of the query is a byte (`TrueWrite` speaks of
  smaller ones only), and a toggle that was interrupted may be undone by its
  repetition.
* `desc -w file` of a descriptor that cannot be written reads it and stores it in
  the input file (`DescOutcomes` and `Stores`; no property).

`hmr_precondition_verify_run` also returns the code of the method when the unit
differs, and that of the unit when the method does. Nobody sees it: `do_hmr`
replaces the code (`Hmr_exit`).

Two properties needed a condition, and TLC shows that each is necessary:
`PrefixDespiteOthers` fails with a masked error (the tool then counts a chunk
that was never stored, catches up with the other host's counter, and the next
chunk lands behind a hole) and while a purge makes the device refuse.
`TrueWrite`, `TrueRead`, `TrueMessage` and `ErrorLeavesKnownState` of `Rpmb` hold only
if no error was masked: by `do_rpmb_op`, which `Rpmb_finish` shows, or by SG_IO
version 3, whose status fields `send_scsi_cmd` does not look at. Only
`PrefixOnly` and `OneCounterPerChunk` speak of such runs too. `TrueMessage` of
`Transfers` excepts what `Overlooked` lists, and `TrueWrite` of `Queries` the toggle
that its own repetition undoes.

What `arpmb` makes of a read without `-s` or `-n` is taken as it is by `TrueRead` and
`RefusedForAReason` of `Arpmb`; that the help text states something else is the
matter of `Help_defaults`.

### Fairness

`Terminates` (`Rpmb`) and `EndsUnlessEmpty` (`Arpmb`) need only that the tool goes
on: it is one process that is not suspended for ever, and every ioctl comes
back. The fairness is on `ToolNext /\ UNCHANGED faults`, so a run never ends only
because some call had to fail. For `Hmr`
the device also goes on with a refresh it began, `WF(DeviceStep)`. No fairness
is assumed of other hosts, readers, aborts or restarts. For `Emon` the
device ends the power mode changes it began and the tests of enabled monitors,
`WF(DeviceStep)`; `EndsUnlessDisabled` excepts a monitor that another process
disables, since `eom_scan` repeats without looking at `RX_EYEMON_Enable`. `EndsUnlessAborted`
excepts one case because the code does: `hmr_full_start` polls the progress and
never the status, so it waits for ever when somebody stopped the refresh. For `Transfers` the fairness is
`WF(Call)` and for `Queries` `WF(Next)`: a run makes its next call, and every call
returns. Starts and kills need not happen.

## Proofs

All theorems are about the specifications as they stand, for every value of the
constants that satisfies the named assumptions (natural numbers, region 0
exists, a key is not `NoKey`, at least one try).

`Rpmb_proofs`:
* `TypeCorrect`: `Spec => []TypeOK`, by one lemma per action.
* `Inductive`: `Spec => []IInv`. `PrefixOnly` is not inductive: that a retried
  chunk cannot land twice depends on where device counter and tool counter stand
  to each other. `IInv` states this for each point of `do_rpmb_op`: between two
  chunks they are equal, while a chunk is sent they are equal and nothing of it
  is stored or they differ by one and all of it is, and after an error was
  masked the device is behind for good.
* `WritesPrefix`: `Spec => []PrefixOnly`, and `WritesOnce`:
  `Spec => []OneCounterPerChunk`, from `IInv`.

`RpmbEnd_proofs`, on top of these, one invariant behind the other, as each
needs those before it:
* `Calls`: `Spec => []CallInv`. While `do_rpmb_op` runs, the frame it sends is the
  caller's request or the result request of the same region.
* `Answered`: `Spec => []TruthInv`. While nothing is masked and no other host
  writes (`Undisturbed`), the answer the tool looks at is the device's to the
  last request, and a change whose result is "Success" was made by this call.
  A repeated `so1` of a write is refused by its counter, so the argument is that
  the device's *kept* result is that of the last try, executed or not.
* `Messages`: `Spec => []TrueMessage` for all commands but read and write.
* `Counted`, `TrueWrites`, `KnownState`: with `WriteInv` (the tool's counter is the
  device's between two chunks), `Spec => []TrueWrite` and
  `Spec => []ErrorLeavesKnownState`.
* `Collected`, `TrueReads`: `Spec => []TrueRead`, with `ReadInv`, which says what is in
  the output file after each chunk.
* `FaultFreeSucceeds`: `Spec => []FaultFreeWriteSucceeds`.
* `PrefixAmongOthers`: `Spec => []PrefixDespiteOthers`, with `OthersInv`: the device's
  counter is never behind the tool's; while they are equal, what the tool
  counted is what it stored; and a result the tool takes for its own although
  it was another host's has moved the device's counter ahead, after which
  no chunk of the tool is accepted any more.
* `Promised`: `Spec /\ [](Writing /\ Undisturbed) => Promise!Spec`: each step of
  an undisturbed write is a step of `RpmbPromise` or a stutter, for every number
  of tries, faults and blocks. `NeverDisturbed` and `KeepsPromiseSafely`: in the
  configuration of `Rpmb_promise` (writes only, SG_IO version 4, one host, fewer
  faults than tries; every other constant free) nothing can disturb a write, so
  `Spec => Promise!Spec`. That the verdict is reached, the rest of
  `KeepsPromise`, is liveness and stays with TLC.

`Arpmb_proofs`:
* `TypeCorrect`: `Spec => []TypeOK`, by one lemma per action.
* `Inductive`: `Spec => []IInv`, with `IInv` the types, `PrefixOnly`,
  `CountersAgree` and `LoopInv`. The two properties alone are not inductive: that
  a chunk lands behind the ones before it needs that in the loop the address is
  the start plus the blocks counted as done, and that every block counted is
  stored. The latter holds because every error leaves the loop.
  A command that was sent and will be sent again (`resend`) has stored its chunk
  and moved the device's counter ahead of the tool's, so the repetition
  changes nothing.
* `WritesPrefix`: `Spec => []PrefixOnly`, and `CountersKept`:
  `Spec => []CountersAgree`, from `IInv`.
* `ErrorsKnown`: `Spec => []ErrorLeavesKnownState`, `CrashesEarly`:
  `Spec => []CrashOnlyAtTheStart`, and `TrueWrites`: `Spec => []TrueWrite`, from
  `EndInv` (theorem `Endings`). It ties the pointer to the loop: a buffer no chunk
  has set means that no chunk was sent.
* `TrueReads`: `Spec => []TrueRead`, with `ReadInv` (theorem `Collected`). A block another
  host overwrote after it was read is the one exception.
* `Refusals`: `Spec => []RefusedForAReason`. `Unrefused` says what `ret` can be inside the
  loops: an error only before the first chunk, left there by the geometry query.

`Hmr_proofs`:
* `OneMethod`: `Spec => []OneMethodPerCycle`, and `Verified`:
  `Spec => []VerifiedMeansRefreshed`. The inductive invariant (`MethodInv`) adds
  that from the progress check to the method write of a run that opens a cycle
  the device refreshes nothing and has no unit done, and that afterwards the
  device's method is the requested one.
* `QuietWhenEnabled`: `Spec => []EnablesWhenQuiet`, with the points at which the
  tool has seen a final status (`QuietInv`). It is about the tool's decision: the
  repetition of a set that was executed (`enable_again`) may meet a device that
  refreshes, and what that can cost is `Wear`.
* `Wear`: `Spec => []WearBound`. `SpendInv` counts an open cycle as spent and says
  where a run has one left; `resent` sets may each have opened one more.
* `Passes`: `Spec => PassesWhenDone`, an action property. `DoneInv` says that once the
  refresh was enabled without a failure, a cycle is open or one more was
  closed than the run found, and that from the end of the loop on none is open;
  so the total count read last is the device's, and it has grown.
* `TypeCorrect`: `Spec => []TypeOK`; it needs that a cycle is not opened when the
  device's life is over, so that the total count stays in its range.

`Emon_proofs`:
* `SamplesAreReal`: `Spec => []SamplesReal`. `ScanInv` has two parts. `RowInv` is
  what holds whatever is repeated. `PointInv` says whose counts a monitor holds:
  from the enabling to the end of the power mode change they are zero,
  afterwards they are of the step attributes, which the tool has set by then;
  it holds unless `doubled`. A count that is full therefore is of the point, and
  since a running monitor is not full, its test is over. `Finished` alone
  carries the argument: the start bit that `eom_scan` reads first is not needed.
  A sample taken while no change is under way ends the exception: all
  attributes are set anew for the next point.
* `DisablesItsMonitors`: `Spec => []MonitorsOff`, from `LaneInv`, which says which
  monitors may be on at each point of the main loop.
* `SweepsAll`: `Spec => []SweepComplete`. `SweepInv` says that the array holds the
  points behind the one the tool is at (`Behind`), and that there are `Taken` of
  them: the lanes done, the lines done and the place in the line. That this
  never exceeds what `do_emon` allocated is arithmetic with products (`Products`,
  `RoomFor`), and the end of each of the three loops is a case of it.
* `TypeCorrect`: `Spec => []TypeOK`.

`Transfers_proofs`:
* `FlashesPrefix`: `Spec => []FlashedPrefix`. The invariant behind it (in `CmdInv`)
  says of a run that flashes that `off + left` is the size of the file and `left` is
  not 0, so the portion under way stays inside the file.
* `KeepsPlaces`: `Spec => []HistoryPlaced`. `LogInv` adds that between two portions
  `buf` is cleared, that `off` is the length of the part being written, and that
  the file has as many parts as entries were begun: without the `memset` a short
  read would leave units of another buffer, and the induction fails there.
* `TrueMessages`: `Spec => []TrueMessage`, and `RefusesForAReason`:
  `Spec => []RefusedForAReason`, with `MsgInv`: while the history is logged the
  entries before this one are complete, and the directory is the one that was
  read, unless a read was short.
* `TypeCorrect`: `Spec => []TypeOK`, by one lemma per action.

`Queries_proofs`:
* `WritesTruly`: `Spec => []TrueWrite`. `PlaceInv` says that before the one request
  that writes nothing has changed, and that it is reached only for options that
  passed the width check; `FlagInv` that a flag is 0 or 1, so that toggling it twice
  leaves it as it was.
* `ReadsAll`: `Spec => []ReadAllComplete`. `ReadAllInv` says that the list up to `cur`
  has been met, and that `cur` is not beyond the end of the list by more than one
  step; it needs that the tables are shorter than the 8-bit counters count
  (`LoopsAssumption`).
* `SaysWhy`: `Spec => []ExitStatus`. `StatusInv` keeps, at every point of a run, what
  failed without being in `rc` (`Covered`: a failure before the last item of a
  "read all", a stored string) and what is in `rc` without a failure (`Excused`).
* `TypeCorrect`: `Spec => []TypeOK`; that `cur` is inside its table while an item is
  asked for is part of it.

Every invariant and every action property of the passing runs is proved, and
each run that checks one is its small instance. Two definitions changed because
their proofs did not go through. `TrueRead` of `Rpmb` placed a block by its
address and not by the 16 bits of it a frame carries, which differ for a start
that was not given; the run had missed it because no chunk was
shorter than the read, and now has chunks of one block. `Verdict`, the mapping to
`RpmbPromise`, was a CASE whose guards overlapped, so that its value was TLC's
choice.

Only model-checked: all liveness (`Terminates`, `EndsUnlessEmpty`,
`EndsUnlessAborted`, `EndsUnlessDisabled`, `RunsEnd`, `QueryEnds`, and that
`KeepsPromise` reaches a verdict), since fairness is a matter of `ENABLED`, which is
beyond the prover. The four violated runs are counterexamples; nothing is to be
proved of them.

## Plan

1. `Rpmb` with its device, promise and proofs (done).
2. `Hmr` with its device and proofs (done).
3. `Arpmb` over the same device, with its proofs (done).
4. `Transfers`: ffu, vendor and err_hist over one model of READ/WRITE BUFFER,
   with its proofs (done).
5. `Emon` with its device and proofs (done).
6. `Queries`: attributes, flags, descriptors and UniPro attributes, with the exit
   status, and its proofs (done).
7. Proofs of the endings, of the promise and of the remaining invariants and
   action properties (done).
8. The two hazards of `hmr` no property covers: two processes at the same time.

## Not modelled

The key file, the parsing of a single option (the checks and defaults a run
depends on are part of the sets of command lines), `spec_version` and `list_bsg`
(they read and print one thing), printed text
(except where a property is about a message), the memory behind `write_buf` of
`do_write_desc` (a configuration file of more than 255 bytes is read beyond it), the files of a DEBUG build, HMAC-SHA256 (a MAC is the key it
was computed with; a mismatch on a read only prints a warning), and the tables
of descriptor fields. The device's behaviour is modelled from how the tool uses
it, not from the standard: for instance that a request which changes something
leaves the pending answer alone, that an open refresh cycle shows a progress
other than 0, and that the total count, the progress and the status change
together at a cycle's end.

# Verification of the AC695x sound box firmware

This directory is a verification project for the firmware in `src/`: TLA+ modules that model the
parts of it that keep state across concurrent events, TLC configurations that check them on small
instances, and TLAPS proofs about them for every instance.

Run a check with `tlc -config FileTransferFaults.cfg MCFileTransfer.tla`, a proof with
`tlapm FileTransferProofs.tla`.

## 1. The system

The firmware is a Bluetooth sound box on Jieli's BR23 chip: C code over an RTOS, with the Bluetooth
stack, the decoders and the FAT file system in binary libraries. The application code is under
`apps/`. Most of it runs in one task, `app_core`, that takes events from a queue: key and device
events, messages from the stack, timers (`sys_timer`, `sys_timeout`: the callback runs in the task
that added it), and callbacks that another task posted. Storage drivers run in whatever task calls
them, under a mutex. Power can go at any time, and several parts keep state in flash.

### Components

| Component | State it keeps | Operations | Interacts with | Hard about it | Correct when |
|---|---|---|---|---|---|
| **File transfer** `smartbox/file_transfer/file_transfer.c`, `smartbox_task.c` | `ftp_d` (offset, window, check counters, FILE, three timers), the file and its resume mark on disk, the action mode | PREPARE, START, data, CANCEL, END, RENAME, disconnect, two timeouts, mark timer, check callback | app over RCSP, device manager, FAT library, task switching | late and lost packets, resume after power loss, a check that runs across messages, failed sends | only files that match the announced CRC get a final name; marks never lie; a transfer ends; the mode is left |
| **NOR flash driver** `common/device/norflash/norflash.c` | 4 KB write-back cache (address, buffer, dirty flag), sync timer, open count, partition table | register, open, close, read, write, ioctl, sync timer | FAT library, recording FS, resource FS; SPI chip | write-back behind a timer, erase then program with power loss between, two views (cached, raw) of one chip, partitions side by side in one sector | a read returns the last write; a failure costs at most the sector being written back; dirty data reach the chip |
| **Recording FS** `common/rec_nor/nor_rec_fs.c`, `nor_interface.c` | ring of recordings, each with a header sector; index of the newest | create, write (erases ahead), close (writes header), scan, open by index, seek, clear | NOR flash driver (raw) | power loss before the header is written, the ring overtaking its oldest file, 16-bit index wrap | the newest closed recording survives; no two files share a sector |
| **Device manager** `common/dev_manager/dev_manager.c`, `soundbox/common/dev_status.c`, `dev_update.c` | list of devices with mounted FS, valid flag, stamp of last use | add, del, mount, unmount, find first/next/prev/active/last, check | hot-plug events, music player, file transfer | unplug while a caller holds a device pointer, list test outside the mutex | one entry per device; find walks every device once; no use of a removed one |
| **Music player** `common/music/*`, `task_manager/music/music.c` | player with device, scan handle, FILE, breakpoint | play first/last/next/prev/by index, device switch, decoder end/error callbacks, delete, repeat modes | device manager, file server, decoder tasks | decoder events of an earlier file, removal while playing, error counters deciding between next file and next device | a late event of an old file changes nothing; a failing set of files ends the search |
| **Keys** `common/key/key_driver.c` and the io/ad/ir/rdec/touch drivers | per scanner: filter counters, last key, click and long counters | periodic scan | app event queue | click, long, hold and up from a bouncing sample | each press gives one well-formed sequence of events |
| **Task switching** `task_manager/app_task_switch.c`, `app_main.c`, `common/task_table.c` | previous, current and next task | switch to, prev, next, exitting, back | all modes, message queue | switch requested while another is pending; a target that refuses to start | the loop always ends in a task that agrees to run |
| **Charging** `app_charge.c`, `app_chargestore.c`, `common/charge_box/*`, `cpu/br23/charge.c` | charge and box state, timers | plug/unplug, full, lid open/close, box messages | power management, TWS | debounced pins racing timers | charging and working modes exclude each other |
| **Update** `common/update/*`, `smartbox_update*.c` | update state, ring of data, TWS update handshake | start, data, verify, jump | RCSP, TWS | both ears agree, retry of lost blocks | no jump into an image that was not verified |
| **Bluetooth and TWS** `task_manager/bt/*` | connection, pairing and role state | stack events, user commands, timers | stack (binary), task switching, tone player | role switch and tone sync between two ears | both ears settle on one master |
| **RTC alarms** `task_manager/rtc/*` | alarm table in VM, active alarm | set, delete, ring, snooze | RTC chip, VM | alarm while another mode runs, alarms at equal times | each enabled alarm rings once |
| **Recorder, FM, line-in, SPDIF, PC, sleep modes** `task_manager/*` | mode state | start, stop, key handling | task switching, audio | device removed in the mode | modes release what they take |
| **FAT on NOR, NAND, virtual FAT** `common/fat_nor/*`, `common/device/nandflash/*` | block maps | read, write, erase | USB, FAT library | wear and bad blocks | as a disk |
| **USB** `common/usb/*`, `cpu/br23` USB glue | class state machines | bulk and control transfers | host | bus reset in a transfer | answers match requests |
| **Audio** `cpu/br23/audio_*`, `common/audio/*` | streams, effects | open, close, volume | decoders (binary) | sample timing | no glitch |
| **UI** `common/ui/*`, `soundbox/ui` | screens | refresh | all modes | none of protocol nature | shows the state |
| **Other RCSP, GMA, DMA** `smartbox/*`, `common/third_party_profile/*` | settings, function switches | get, set, notify | app, modes | as file transfer | settings match what was set |

Boards (`apps/soundbox/board/*`) are configuration tables; `include_lib` and the libraries are
external.

## 2. Plan

Done, in this order: file transfer; the NOR flash driver with its abstract store, and the partition
table; the recording file system with its abstract log; the device manager, the switching of modes
and the music player, composed in `MusicPlayer`; the key scanner with its abstract events.

| Modules | Composition | Abstract specification | Proofs |
|---|---|---|---|
| `FileTransfer` | alone, with the app as environment | none | `FileTransferProofs`, `FileTransferLine`, `FileTransferSafety` |
| `NorFlash`, `FlashStore` | driver and chip | `FlashStore`: what file systems on the cached view rely on | `NorFlashProofs` |
| `NorPartitions` | alone | none | `NorPartitionsProofs` |
| `RecFs`, `RecordingLog` | file system and recorder | `RecordingLog`: what a recorder relies on | `RecFsProofs` |
| `DevManager`, `AppTask`, `MusicPlayer` | `MusicPlayer` EXTENDS the other two: one task, one queue | none | `MusicPlayerProofs` |
| `KeyScan`, `KeyEvents` | one driver, the others as far as they share a counter | `KeyEvents`: what the application relies on | `KeyScanProofs` |

Not done, the most valuable first: `RecFs` over the raw view of `NorFlash` (power loss inside a
program of the driver); the record folders and the device tone of music mode; the other modes on
`AppTask`.

Every run stays under two minutes: instances have two or three of each thing, one or two failures,
and bounds named in CONSTANTS.

## 3. File transfer

`FileTransfer.tla` models the download of one file from the phone app to the active storage device.

### State and actions

| Module | Code |
|---|---|
| `ftp` (a record, or `NoFtp`) | `*ftp_d`: `off` file_offset, `id`/`idMax` packet_id/packet_id_max, `last` last_packet_flag, `counter`/`remain`/`read` struct \_\_file\_check, `file` and `pos` the FILE and its position, `start`, `get`, `mark` the three timer ids, `hosted` end_callback |
| `disk`, `published` | the file under the download name, the renamed files |
| `task` | the smartbox action mode: not current, being switched to, current |
| `calls` | posted `__file_transfer_download_file_check_caculate` callbacks |
| `marks` | mark timers that exist in the system, owned or leaked |
| `net`, `toApp`, `app`, `up`, `starts`, `losses` | the link, both directions, and the app (external) |

Every handler is one action, because every handler, timer and callback of this component runs in
`app_core`: RCSP packets are posted there (`JL_recieve_packet_parse_process`), the disconnect event
too, and a timer fires in the task that added it. The actions are `RcvPrepare`, `TaskStart`,
`RcvStart`, `RcvData`, `RcvCancel`, `RcvStop` (disconnect, and the answer to END), `RcvRenameRsp`,
`StartTimeout`, `GetTimeout`, `MarkScan` and `Calculate`; what they share (`Close`, `GetData`,
`FillMark`, `SendOrClose`) are operators named for the C functions. The app's actions (`AppPrepare`,
`AppStart`, `AppCancel`, `AppServe`) are external: an app that asks once, answers pulls from the
file it sends, and accepts a RENAME only after it handed over block 0.

Data are blocks of 512 bytes: a block is `<<content, number>>`, the mark, or junk, and the CRC is
ideal (equal exactly when the blocks read are equal).

### Runs

| Run | Asks | Answer |
|---|---|---|
| `FileTransferFaults` | Two transfers of either content, one lost packet, every failure but an early restart, answers later than the timeouts, at every step. Are types kept, is each renamed file the announced one (`PublishedIntact`), does the FILE stand at the offset between two packets (`AppendsAtOffset`), is each block that is counted written at the offset and nowhere else (`AppendsBehind`), does a mark promise only blocks that were written (`MarkCoversData`), does the mark timer belong to the session (`MarkTimerOwned`), is the start timer harmless (`StartTimerIdle`), is the offset inside the file (`OffsetWithinFile`), and does the mark never go back (`ResumeNeverRegresses`)? | Yes |
| `FileTransferLive` | One packet is lost, the app answers in time. Does a transfer with an open file end (`TransferEnds`)? | Yes; not after a second loss |
| `FileTransferOverlap` | With cancel and restart, is `PublishedIntact` still true? | No, see finding 1 |

Bounds. Content `a` has four blocks with a partial tail, `b` two whole ones, so that a mark of one
can lie inside, at the end of, or beyond the other. A window of two makes `a` take two windows and
`b` one. `CheckMax` = 2 (10 in the code) makes the check of `a` take two callbacks, so a message can
come between them. Two transfers are what a resume, a leftover session or an overlap needs. One lost
packet is enough to lose any of them.

Fairness (`FairSpec`): weak fairness of the message loop, the mode switch, the check callback, the two
one-shot timers and the app's answers. The `app_core` loop takes every queued message in order and
the timer library fires every armed timer, so each of these happens once it stays enabled. Nothing
is assumed of starts, cancels, losses or link events. Every packet that arrives sets the pull timeout
back, so an app that answers in time keeps it from firing: without `"late"` among the `Faults` it
fires only when nothing is on its way any more. `FileTransferLive` is such a run, the safety runs have
`"late"`.

### Findings

1. `file_transfer_close` does nothing while the check is counting, yet CANCEL is answered SUCCESS.
   A START that follows shares the session with the old check, which then has the new, half-received
   file renamed to its final name. Neither an orderly app nor the CRC prevents it.

Without a run of their own:

* A session pulls again only once. The pull timeout that fires leaves its id in `get_timeout`, and
  `file_transfer_download_get_data` (line 310) arms no other while there is one; only block 0 clears
  it. One lost packet is pulled again (`FileTransferLive`), but after a second one in the same session
  nothing is: with `MaxLoss` = 2, or with one loss and `"late"` (an answer that was only slow has used up the
  timeout), the same run violates `TransferEnds`.
* `if (ftp_d)` after `zalloc` (line 371) is inverted. A START without a session keeps the fresh one
  and answers FAIL; the next transfer uses it, and as it has no `end_callback` the action mode stays
  when the transfer is over.

### Proofs

`FileTransferProofs.tla` proves, for all contents, sizes, windows, bounds and sets of faults that
satisfy `ConstantsAssumption`, that `Spec` keeps `TypeOK`, `StartTimerIdle` and `OffsetWithinFile`.
None of them is inductive alone: `Close` takes one off `marks`, so `marks \in Nat` needs that a session
with a mark timer has one in the system; deleting a renamed file needs that there is one; writing a block
needs that the file is there. `IInv` is `TypeOK`, the two invariants of the session (`Sound`) and
these three references (`Refers`). Each action has a lemma that it keeps `IInv`; the actions share
lemmas about `Close`, `SendOrClose`, `GetData`, `CheckRecord` and `Opened`.

The other five safety properties relate the session to what is on its way between the app and the
device. They are proved under one hypothesis, `"restart" \notin Faults`: the app lets one transfer come to
rest before it prepares the next. Without it finding 1 refutes `PublishedIntact`, and
in the same overlap the old check moves the FILE that the new transfer appends to, against
`AppendsAtOffset` and `AppendsBehind`. `AbsenceAssumption` (the absent session is no session, the absent file no file) is
used besides. The invariant has three layers:

* `LineInv` in `FileTransferLine.tla`, what is on the link: until a START is handled the queue holds only
  prepares before it and what ends it (cancel, disconnect) behind it (`StartInv`), so a START meets a
  session that has received nothing (`FreshInv`); for one that has received a START the app is still
  sending, or a message or a check callback is under way (`LiveInv`). So START never arms a second mark
  timer: `MarkTimerOwned`, which is a conjunct since `Close` takes away just one.
* `DiskSafe` in `FileTransferSafety.tla`, what is on disk: packets and pulls under way belong to the
  session's file, and block 0 is among them only when it is the one waited for (`Feeds`); once the check
  has begun block 0 is not pulled again (`Checks`); the open FILE is there (`DiskInv`); the blocks below
  the offset are written and no mark is ahead of it (`Covers`). It gives `AppendsAtOffset`,
  `AppendsBehind` and `MarkCoversData`, and each of its steps is a `Forward`, which gives `ResumeNeverRegresses`.
* `FileSafe` adds what a rename rests on: nothing comes behind block 0 (`Ordered`), what is granted is
  the rename of a file whose check has read every block of it (`Reads`, `Verified`), and nothing writes
  to it any more (`Clear`). It gives `PublishedIntact`, power losses and resumed files included.

`TransferEnds`, a liveness property, stays with TLC.

### Left out

`file_transfer_download_active_cancel` (nothing calls it); file names and paths; allocations that fail
(the code dereferences NULL then); packets that are not one block long; FILE handles and path buffers
leaked by a second START; old bytes behind the end of a shorter file (what `w+` keeps is up to the
external file system); a start timeout that survives a session freed by a failed answer; the latency
of a mode switch; a pull timeout that is left in `get_timeout` when the answer to a START cannot be sent
while a check counts (lines 446-453): it takes a third START to meet it, and the effect is one pull more.
Packets carry no offset, so a late packet of a window that was pulled again is taken for the one that
is waited for when its number matches: which block lands where is told by the CRC alone
(`PublishedIntact`). Reading from a NULL FILE is modelled as reading junk; `ftp_d->dev` read through
NULL after a failed END (line 475) as a restart or as going on.

## 4. NOR flash driver

`NorFlash.tla` models `norflash.c`, `FlashStore.tla` what its cached view promises.

### State and actions

| Module | Code |
|---|---|
| `flash` | the cells of the chip, sector by sector, page by page |
| `addr`, `buf`, `dirty`, `timer` | `flash_cache_addr`, `_buf`, `_is_dirty`, `_timer`; a `timer` that is `"stale"` is the id of a one-shot timer that has fired |
| `refs`, `opens` | the device's reference count (kept by the device framework), `open_cnt` |
| `op`, `pc`, `page`, `req` | who holds the driver's mutex, where, the next page to program, what is left of the request |
| `weak`, `failures` | history: a command of the last write-back failed; how many have |

An operation that takes the mutex and issues several chip commands is several actions with `pc` in
between, because power can go there; others wait for `op = "none"`. `WriteBegin`, `Load`, `Fill`
are `_norflash_write`; `SyncBegin` the timer callback; `EraseSector`, `ProgramPage`, `WrittenBack` the
write-back that write, callback and last close share; `RawWrite` and `IoctlErase` go past the cache;
`PowerLoss` can leave the sector of the command under way in any state. Reads change nothing and are
the operator `ReadPage`.

Every chip command picks from `Waits` how many polls it takes. `WaitFails` is `_norflash_wait_ok` as
it is written: an error is reported when the chip gets ready at the last poll, and success when it
never does. `Program` can only clear bits: a page programmed over other data is `Mixed`.

`FlashStore` has one variable `data` (what a read of one sector returns), and `weak`: at most one
sector whose last write-back failed. It can `Write`, `Fail` (change or weaken one sector) and
`Settle` (the weak sector is lost, or not). `StoreSpec` says `NorFlash` implements it, with
`Visible` and `WeakSectors` as the refinement mapping.

### Runs

| Run | Asks | Answer |
|---|---|---|
| `NorFlashFaults` | Commands that end in time, at the last poll or never, two failures, power loss at every step. Does the cached view keep the promise of the store (`StoreSpec`), and is a clean cache on the chip (`CleanMeansWritten`)? | Yes |
| `NorFlashViews` | A cached and a raw partition, two references each. Types; is the buffer there exactly while needed (`BufferWhileOpen`), have dirty data a timer (`SyncArmed`), does what lies outside the cached partitions change by its own clients only, although the first open reads sector 0 into the cache whoever's it is (`RawKept`), are dirty data written back once writes pause (`FlushedEventually`, under `FairSpec`)? | Yes, unless a command ends at the very last poll |

Bounds. Two sectors: one in the cache and one to evict it for; a write over both covers the loop of
`_norflash_write`. Two pages per sector (16 in the code) put a step between the first and the last
page, and let a write end inside a sector. Two values tell old from new. Two failures let a second
one hit a sector that is already weak. `Polls` = 3 with waits of 1, 3 and 4 are the three cases: in
time, last poll, never; `NorFlashViews` has the first and the third. Two references per partition cover first, further and last open and close.

Fairness (`FairSpec`): the steps of an operation that holds the mutex, and the firing of an armed
timer. A task in the driver runs to its end; the timer library fires each timer once. Each write
inside a sector re-runs the timer, so `FlushedEventually` asks that writes pause; the code promises
no more.

### Findings

None of these has a run of its own:

* `while (timeout--)` ends with `timeout` at 2^32 - 1 when the chip is never ready, and at 0 when it is
  ready at the last poll: the test behind it reports the wrong case. With 4 among the `Waits` the driver
  programs sectors that it has not erased, which `StoreSpec` excuses as a failure of that one sector;
  with 3 an erase that went well ends the sync callback early, the stale timer id stays, and `SyncArmed`
  and `FlushedEventually` no longer hold: `NorFlashViews` and `DirtyIsArmed` leave that case out.
* `_norflash_read` looks up only the sector it starts in: a read that begins before the cached sector
  returns old data for it.

### Proofs

`NorFlashProofs.tla` proves for every chip, partition table, number of clients, pattern of waits and
number of failures, under `Apart`: raw partitions and erasing clients do not touch the sectors behind
the cache. The driver does not look at the cache in a raw write or an erase ioctl, although its
comment (line 789) says that all its ops may be used at the same time; the boards' partitions have
`Apart`, and so has `MCSideBySide`.

* `IInv`: types, who holds the mutex at which `pc` (`LockInv`), when the buffer exists (`BufferInv`),
  and what the write-back has done so far (`CacheInv`: pages below `page` are on the chip, the others
  erased, unless a command failed). `CleanMeansWritten` is not inductive without it, since it speaks
  of the end of a write-back only. The count of open partitions uses the cardinality theorems.
* `TypeCorrect`, `BufferKept`, `CleanWritten` follow from `IInv`.
* `DriverIsStore`: `Spec => StoreSpec`. Lemmas `SettleSeen`, `FailSeen` and `CalmSeen` say what clients
  see of three kinds of step; each action is one of them, and `Fill` is the `Write`.
* `RawSafe`: `RawKept`, for all waits and power losses. A step that holds the mutex erases and programs
  only the sector in the cache, and writes back only when that one is of a cached partition
  (`StepRaw`): the first open's copy of sector 0 is never dirty unless sector 0 is cached.
* `DirtyIsArmed`: `SyncArmed` if no command ends at the last poll. The condition is needed: an erase
  that is reported as failed in the callback leaves a stale timer.

`FlushedEventually` is a liveness property and stays with TLC.

### Left out

Page, block and chip erase; the other ioctls, which change nothing; the chip's identification, 4-byte
addresses, SPI framing and clock hooks; pages are whole (clients of the cached view write 512 bytes,
two pages); a raw write of several pages is that many steps. The framework's `dev_open` and
`dev_close` (binary) are taken to count references, to call `close` for the last one, and to let nobody
in between: `norflash_dev_open` and `norfs_dev_open` look at the reference count outside the driver's
mutex (lines 680, 818), and `_norflash_open` counts the open later, under it; `Open` is one step. Two first
opens of one partition at the same time, or an open that overlaps the last close, are not covered.

## 5. NOR flash partitions

`NorPartitions.tla` models `_norflash_init` (one `Register` per line of the board's device table, with
its assertions), and open and close as far as they concern the table. An assertion that fails ends the
run (`halted`).

| Run | Asks | Answer |
|---|---|---|
| `NorPartitions` | Are partitions of an ascending table disjoint (`AscendingApart`), do open ones lie on the chip (`OpenFits`)? | Yes |

Three slots with four names reach the full table; addresses 0 to 2, sizes 1 and 2 on a chip of three
give overlaps of every kind and partitions beyond the end. `NorPartitionsProofs.tla` proves both
properties for all tables and chips; that `max_end_addr` bounds all ends and only registered
partitions are open is the invariant behind `OpenFits`.

`AscendingApart` is as much as holds: the comment at line 782 promises an assertion for every overlap,
but `norflash_verify_part` only asks whether the new partition starts inside an old one. A partition
registered later that starts lower may end inside an earlier one, and nothing asserts it: the property
leaves such tables out. The boards' tables ascend.

## 6. Recording file system

`RecFs.tla` models `nor_rec_fs.c` and its file operations in `nor_interface.c`, as the recorder of
`encode_write_file.c` drives them; `RecordingLog.tla` models what a recorder may expect.

### State and actions

| Module | Code |
|---|---|
| `head` | the header in each sector, if its CRC is right: index, length, and which recording it is |
| `owner` | whose data a sector holds: nobody's (erased), one recording's, or `Junk` |
| `newest`, `last` | `pfs->index`, `nor_fs_index` |
| `file` | `recfile`: `sector`, `index`, `len`, `rw` (rw_p); `busy` the bytes of the write under way, `stop` the recorder gave up |
| `made`, `lost` | bounds and history: recordings begun, the last one was not kept |

A recording is `Create` (erases its first sector), then for each frame `WriteBegin`, as many `Extend`
(each erases one sector ahead) as it needs and one `Program`, then `Close` (the format's head is
rewritten, the tail cut, the header programmed) or `Discard` (too short). `Mount` is the scan of the
ring after power-on; `Play` opens the last recording, as record mode does after every recording, and
closes it. `PowerLoss` can come between any two flash commands and leaves only the flash. A sector
programmed over the data of another recording is `Junk` and loses its header.

`Jump` with `Reached`, and `Step` with `Walk`, are the two scans: they step over a recording by its length, and
neither follows the turn of the ring exactly (`rec_pfs_scan` stops at the end, `recfile_index_scan`
starts again at the first sector). That headers are met all the same is what the properties are for.

`RecordingLog` is a set of recordings: one is finished, younger than all others, or the oldest is
forgotten. `LogSpec` says `RecFs` implements it, with the recordings a mount would find.

### Runs

| Run | Asks | Answer |
|---|---|---|
| `RecFs` | Are recordings that a mount finds whole (`WholeRecordings`), is the index in RAM that of the youngest (`NewestKnown`), does the search by index end (`SearchEnds`), and are recordings only lost oldest first, through power loss and discards (`LogSpec`)? | Yes |
| `RecFsLost` | Does a recording start in the ring (`StartsInRing`) if one that was not kept is played? | No, see finding 2 |

Bounds. Four sectors of the real sizes (4096 and 32 bytes): recordings of one to three sectors fit,
and five of them go round the ring more than once. Frames of 2048 and 4096 bytes end inside, at and
across the end of a sector; a head of 90 bytes is WAV's, 0 that of formats without one; `Cut` = 600,
and `Limit` = 3000 is the value of `record.c`. The recorder stops at `Capacity` less one sector.

Assumptions. `Cut >= H`: the position the recorder gets from the file counts the 32 bytes of the
header, and `recfile_seek` adds them again, so a smaller cut could close a recording behind the space
it erased. `PlayLost` is false in the run that passes, because of finding 2. With it `SearchEnds` does
not hold either: once a dropped recording was played the next search starts at sector 0, in front of the
ring, and never meets that sector again, so that for a second dropped recording it goes on for ever. The system has no
`fdelete` for this file system: a short recording is dropped.

### Findings

2. `nor_fs_open` does not look at the result of `open_nor_recfile`. Playing a recording that was
   dropped leaves index 0 and sector 0 in the file system, and the next recording starts in sector 0,
   in front of the ring and not erased.

Without a run of their own:

* `NOR_FS_E_SECTOR` is 4095: for 2 MB the last sector becomes 512, one behind the partition. It is
  erased and written like the others.
* The 16-bit index is not reached with five recordings. With `IndexMod` = 4 the same model violates
  `NewestKnown`: after the wrap a mount takes the recording with the largest index for the newest.

### Proofs

`RecFsProofs.tla` proves, for every ring, sector size, header, frame and cut, that `Spec` keeps
`TypeOK`, `WholeRecordings`, `NewestKnown`, `SearchEnds` and `StartsInRing`, and implements
`RecordingLog` (`ImplementsLog`). Two hypotheses stand in every theorem because the code needs them:
`PlayLost = FALSE` (finding 2) and `MaxMade < IndexMod` (the 16-bit index has not wrapped). Both are
values the run `RecFs` has; `RecFsLost` and `IndexMod` = 4 show what happens without them.

* `Flash` is what is true of the chip alone, so it survives power loss and `Mount` can rely on it: a
  recording owns all sectors its header's length covers (`Arc`, which turns with the ring), indices
  grow with age, and three recordings lie round the ring in order of age (`Cyc`).
* `Known`: `newest` is the youngest recording's. `Under`: the recording under way lies behind the
  youngest in that order, its sectors are erased or its own and have no header, and they are written
  up to its position. `LastKept`: what was recorded last is the newest, unless it was dropped.
* `Cyc` is what makes the rest inductive. Erasing ahead takes sectors of old recordings; that it
  takes them from the oldest one, and never from the one under way, follows from the order round
  the ring. From the same order follows that the two scans, which jump by lengths, meet every
  header (`AllFound`, `Ends`).
* The scans are stated as the least set of sectors closed under the jump (`Reached`, `Walk`), not by
  recursion: what a recursive definition computes cannot be proved, what every closed set contains
  can. Where an induction over sectors is needed, a least counterexample takes its place
  (`FS_StrictSubsetOrderingWellFounded`).

Each action has a lemma for each conjunct of `IInv` it touches. The parts of `IInv` were checked as
invariants on the instance of `RecFs`, and on one with sectors of four bytes.

### Left out

`recfile_read` and relative seeks (they change no state of the file system), `recpfs_clear` and
`recfile_idx_clear` (nothing calls them), the data bytes, and the recorder's cases for an encoder that
gives no head. A header is programmed whole or not at all.

## 7. Devices, modes and the music player

`DevManager.tla` models the list of storage devices (`dev_manager.c`), `AppTask.tla` the switching of
modes (`app_task_switch.c`), `MusicPlayer.tla` music mode (`music.c`, `music_player.c`) on top of both,
with `dev_status_event_filter` and the loop of modes. They are one state machine because the code is
one task, `app_core`, with one queue.

### State and actions

| Module | Code |
|---|---|
| `node` | the `struct __dev` at each address malloc gives: its name, and whether it is free, did not mount (`fmnt` NULL), is invalid (mounted, no file to play) or valid |
| `list`, `recent` | the list of entries; the same ordered by `active_stamp` |
| `curr`, `next` | `app_curr_task`, `app_next_task` |
| `queue` | messages to `app_core`: keys, plugs, Bluetooth events that want Bluetooth mode (`CALL`), and the end of a file with its read error and whether its magic number is still the latest |
| `pc`, `job`, `err` | what `app_core` does: wait for a message, scan a device, select a file, handle an error, leave the mode |
| `dev`, `fsn`, `stale`, `cur`, `dec`, `ended` | `music_player`'s device and scan (by the device it is of; `stale` when that was unmounted), the file's number, the decoder |
| `errs`, `back`, `brk`, `tone` | `file_err_counter`, `file_play_direct`, `scandisk_break`, the tone on entering the mode |
| `port`, `told`, `inputs` | devices plugged in, and as last reported (external) |

A message is taken by `TakeKey` (`music_key_event_opr`), `TakeSwitch`, `TakeCall`
(`bt_background_event_handler`, which leaves for Bluetooth mode and sends the event again), `TakeIn` or
`TakeOut` (the mode's handler, then the common one) and `PassOver` (other modes). A device that comes is
listed already or refused (`StaysOut`), listed without being mounted (`ComesInvalid`), or mounted
(`ComesIn`); music mode may not be switched to then, as by a PC, on the charger or just after power-on. A handler that plays something
stops the decoder and goes on in steps, because scanning and selecting run a callback that takes
messages itself: `Poll` is `music_player_scandisk_break`, which breaks the scan and sends the message
again, or swallows it (an unplug of another device is carried out on the spot). `ScanDone` and
`SelectDone` end the two, `ErrDeal` is `music_player_err_deal`, which posts the next key. `Exit` leaves
the mode and enters the next. `Plug`, `Detect`, `Press`, `FileEnds` and `ToneEnd` are the environment.

A file is a number; `Bad` are those the decoder cannot open. Whether a failing start is reported to
the caller or only by an event is up to the decoder library: `WaitReports`. Whether the mode key is always
heeded is `ModeKeyDrops`: with TRUE it may be passed over, as in the time after power-on or by the
smartbox application's filter.

### Runs

| Run | Asks | Answer |
|---|---|---|
| `MusicPlayer` | Types; one entry per device, the list and the order of activity hold the same (`Registered`); the decoder plays from a mounted device only (`DecodesMounted`); the scan is of the current device (`ScanOfDevice`), also when a new entry has the address of an old one; a broken scan is not remembered (`BreakDealt`); the device that plays is the active one, unless it became invalid meanwhile (`PlaysActive`); music does not fall silent (`RestPlays`) | Yes |
| `MusicLive` | Do the messages that handlers post to themselves end (`Drains`), when the decoder's errors are reported to the caller? | Yes |
| `MusicBreak` | Is `RestPlays` true when a new device may fail to mount? | No, see finding 3 |

Bounds. Two devices are what switching, swapping and address reuse need; one has two files, the other
one file that does not decode, so the error counter and the search for another device come to their
ends. Three modes: music, Bluetooth (which may refuse to leave) and one that does neither. Four
inputs (plugs, keys, calls, ends of files; a device that is there at power-on counts as a plug): with one
device in music mode an unplug, a plug and a key in one scan. `MaxQueue` = 2 bounds the messages
that wait when a key is pressed, not what handlers post. `MusicLive` has three inputs, devices
that may not mount and a mode key that may be passed over.

Fairness: weak fairness of `app_core`, the end of the tone and the report of a plug. The loop takes
every message; a handler runs to its end; nothing is assumed of the user or of files ending.

`RestPlays` asks for a valid device: a device whose files all fail is invalid, and music mode may stay
without sound then. In `MusicPlayer` a device that is plugged stays until it is added, and mounts unless it is
gone again by then, because of finding 3, and the mode key is always heeded: one that breaks a scan and is
passed over afterwards leaves the same silence. Devices that are there but wrongly invalid, or not
listed, do not count for `RestPlays` (see below): what it says of late errors and of dropped messages is
that they end in silence only together with one of these.

### Finding

3. A scan is given up when a new device comes in, and the handler leaves it to that event to start
   again: it does nothing itself (line 503). If the new device does not mount, its event starts
   nothing. Music mode stays silent although the first device is fine.

Met while modelling, without a run:

* The same silence comes of other events that break a scan and then start nothing: a USB slave event
  (`music.c:294-311` takes every event of the OTG port for a USB disk) whose mode does not start, and a
  mode key that is passed over when it is taken again (`ModeKeyDrops` = TRUE violates `RestPlays`).
* A scan that is broken by the mode key, with NEXT in the queue behind it: the mode key goes to the end
  of the queue, NEXT finds no scan, `scandisk_break` is clear by then, and the error handler takes that
  for a device without files: a good device becomes invalid.
* A read error reported late unmounts the device that plays by then if its magic number still matches
  (no file was started in between). An end without error has no such test: taken late, it skips a file.
* `KEY_MUSIC_PLAYER_QUIT` is posted when no device is left; if one is plugged in before it is taken,
  music mode is left all the same.
* Where the start of a decoder does not report its error (`WaitReports` false), two late error events
  of a device of bad files make the device invalid that plays by then: `DEC_ERR` does not say whose
  it is. So `PlaysActive` asks that the device is still valid, and the comment that a device is made
  invalid if "所有文件都是错误的" (all its files are bad, `music.c:479`) is not kept.
* The break of a scan puts the message that broke it at the end of the queue. An unplug and a plug of
  the device that is scanned can so be taken in the wrong order: the plug finds the old entry and does
  nothing, the unplug then removes it, and a device that is there is not listed. In the same way the
  entry of an absent device may stay, as one that did not mount, and the next plug of it is passed over.
* `AUTO_NEXT_DEV` does nothing when the device it was posted for is gone by then.
* When the start of a decoder reports its error to the caller and by an event too, a file counts twice;
  when it reports only by event, the success of the call clears the count each time, and a device of
  bad files is never given up (`WaitReports` = FALSE violates `Drains`).
* Keys pressed during a scan are lost, except the mode key.

### Proofs

`MusicPlayerProofs.tla` proves, for all devices, addresses, files, modes, keys and bounds, and whether or
not devices mount and decoders report, that `Spec` keeps `TypeOK`, `Registered`, `DecodesMounted`,
`ScanOfDevice`, `BreakDealt` and `PlaysActive`.

* `DevInv`: an address is free exactly if it has no name, names differ, and the list and the order of
  activity hold each entry once (`Lists`). `AddKeeps`, `DelKeeps`, `MarkKeeps` and `ActivateKeeps` are the
  four changes of the list; a list of distinct entries is as long as there are entries (`ListsLength`).
* `PlayInv` (`Fits`): what is scanned or played fits `dev` as it is mounted, and at `pc = "select"` there
  is a scan of a mounted device. The last part makes it inductive: `SelectDone` starts the decoder
  without another look at the device, and only the scan or `PlayHere` before it, and `Poll`, which
  breaks the select when the device goes, account for that.
* `ActiveInv`: no valid entry comes behind that of the device that plays (`Top`). An entry that goes
  leaves the others in order (`WithoutTop`); a plug that mounts stops the decoder, one that does not
  adds an entry that is not valid (`AppendTop`); a start makes its device the last one
  (`ActivatedTop`). That `dev_manager_find_active` finds it is `TopIsActive`.
* `Kinds`: the types `DevInv` and `PlayInv` leave over, with two facts that they rest on: a scan that
  is kept found files (the next file is a number modulo their count), and a mode that is left has one
  that follows. That the queue stays a sequence of messages when a mode change drops its keys
  (`Kept`) needs the nth of the kept positions: `Ranked`, by a least counterexample.
* Handlers leave the player as it was, stopped, or turned to another device (`Moves`); each key is
  one of these, and each kind keeps `PlayInv` and `ActiveInv`. The actions that change devices have a
  lemma each.

`NeverSilent` proves `RestPlays` where every device that is plugged mounts (`MountFails = FALSE`; where one
may not, the run `MusicBreak` refutes it, finding 3) and the mode key is heeded (`ModeKeyDrops = FALSE`). Two more invariants carry it, both of the queue.

* `Alive`: music mode that does not play, or is on its way to an error handler that posts nothing
  (`Owes`), has what will make it play (`Calls`): no valid device, a tone that ends with START, or a
  message that plays on, posts another, or leaves the mode (`Woken`: `Rouses` and, for a plug that
  finds no entry of its name when its turn comes, `Arrives`). A message counts by what it meets: START only
  while nothing plays, AUTO_NEXT_DEV only while the current device is not valid, an unplug only of the
  current device. A handler either goes on (`Goes`), or takes a message that calls nobody (`Rest`,
  `KeyGoes`), which leaves the calls of the others (`TailWakes`, `Calmer`); `err_deal` posts one
  (`PostAnyCalls`). It rests on searches that find what there is: the active device (`ActiveFound`), the
  next one once the current one went (`NextFound`), a mode to leave for (`OtherMode`).
* `Plugs`: a device that waits to be added is there and was reported once, and if it still has an entry,
  its unplug waits too. So a plug that breaks a scan, and goes to the end of the queue, comes behind
  the unplug and adds the device. A change of mode keeps this although it drops messages (`SameNoKeys`),
  and so does the turn of the queue (`SameTurn`).

TLC checked both on the run's instance before they were proved. The hypothesis `MountFails = FALSE` serves
twice: a plug that is taken mounts, and the device stays until it is.

Only model-checked: the liveness property `Drains`, which needs fairness.

### Left out

Record folders (`_rec` devices), the tone of a device, deletion of a file, fast forward, repeat modes,
playing by cluster or path, breakpoints' contents (whether one fits is a choice), TWS, the remount
after PC mode, `dev_manager_mount`; searches that count invalid devices; the previous mode and
`app_task_switch_back`; firmware update from a device; what other modes do with their messages. The
USB slave events of the OTG port; `MUSIC_PLAYER_ERR_POINT`, which only a NULL path gives; why the
mode key is passed over (start-up time, the smartbox filter, a TWS key that is not initialised, the UI
taking over): that it may be is `ModeKeyDrops`. Which Bluetooth events want Bluetooth mode is up to
`bt_background_event_handler_filter` and the stack; that a broken scan surfaces as FSCAN or FILE_NOFOUND is
what `music.c` says of the binary file library, and `BreakDealt` holds as far as it does.

## 8. Keys

`KeyScan.tla` models `key_driver_scan` for one driver, whole; `KeyEvents.tla` what its events mean.

| Module | Code |
|---|---|
| `filter_value`, `filter_cnt` | the debouncing |
| `last_key`, `press_cnt`, `click_cnt`, `click_delay_cnt`, `notify_value` | the same fields of `struct key_driver_para` |
| `is_key_active` | the counter that keeps the system from sleeping, shared by all drivers |
| `value`, `steady` | history: what the last scans read |
| `out` | the event notified by the last scan |
| `due` | other drivers still to be scanned in this period |

`Scan` reads any value and does what the code does with it: `Changed`, `Counted` (filter), `Released`,
`Pressed`, `Idle`, `Wait`, `Clicked`, `Held`. `OtherScan` is the scan of another driver as far as it
counts `is_key_active`; `Wakeup` is `key_active_set`.

| Run | Asks | Answer |
|---|---|---|
| `KeyScan` | Types; only steady values count (`Debounced`); the events are those of `KeyEvents` (`EventsSpec`); the system stays awake while something is open (`Awake`); clicks are reported (`Reported`), a held key repeats (`Repeats`) | Yes |

Bounds. Two keys, one of which reports every click alike; times of 2, 4, 6 and 2 scans leave room
between each pair of events; six clicks go past the largest count reported. The counter is 14 for two
drivers, which is exactly enough. Fairness: the scans' timers fire.

`KeyScanProofs.tla` proves `TypeOK`, `Awake`, `Debounced` and `EventsSpec` for all keys, times and
numbers of drivers. `IInv` adds to the types that the filter count tells how long the value was read
(`FilterInv`), and how much of `is_key_active` is left at each stage of a press and its clicks
(`ActiveInv`): without it `Awake` is not inductive. `ImplementsEvents` maps each branch of the scan to
one step of `KeyEvents`. `Reported` and `Repeats` are liveness properties and stay with TLC.

`Awake` needs `LongEnough`: 35 scans must cover (drivers) x (filter + click delay + 3). That holds for
one driver of pins (27), of a ladder (25) or of touch keys (24); it does not for ctmu touch pads (45),
nor for a ladder and a remote control together (50, as `ac695x_demo` has), where a click may be open
when the system already may sleep. And while the comment at line 120 says a press comes after a
release, a ladder may slide from one key to another: the first then has no UP though it was long.
`KeyEvents` allows it, so no property objects to it; on a ladder with a remote control `Awake` is not
claimed.

Left out: `MOUSE_KEY_SCAN_MODE`, the IR sensor's early return, the map from events to messages, the
drivers' sampling. `click_cnt` is a u8: `MaxClicks` keeps it from wrapping.

## 9. Not modelled

Charging (analog thresholds), update, Bluetooth and TWS (their protocol state is in binary libraries),
RTC alarms (calendar arithmetic), the other modes (key handling around audio calls), audio, UI, USB
class drivers (vendored), FAT on NAND and virtual FAT, other RCSP functions and vendor profiles
(settings read and written one by one). Board files are configuration. The repository is mostly
drivers, configuration, headers of binary libraries and resources: the modules cover what keeps state
across concurrent events in code that is there.

------------------------------ MODULE NorFlash ------------------------------
(***************************************************************************)
(* The SPI NOR flash driver (norflash.c): one chip, one 4 KB write-back     *)
(* cache, several partitions.                                              *)
(*                                                                         *)
(* A partition registered with norflash_dev_ops is read and written through *)
(* the cache; one registered with norfs_dev_ops goes past it, and so do the *)
(* erase ioctls of both.  Every operation holds the driver's mutex, so they *)
(* run one at a time, but an operation is many chip commands, and power can *)
(* go between any two: hence the program counter pc.  Reads change nothing  *)
(* and appear as the operator ReadPage.                                     *)
(***************************************************************************)
EXTENDS Naturals, FiniteSets

CONSTANTS
  Last,         \* number of the last sector
  K,            \* pages per sector (16 of 256 bytes in the code)
  Value,        \* what clients write
  Erased,       \* a page of 0xff bytes
  Mixed,        \* a page programmed over other data
  Parts,        \* the partitions
  View,         \* View[d]: the sectors of partition d
  Cached,       \* the partitions registered with norflash_dev_ops
  Eraser,       \* the partitions whose clients issue erase ioctls
  Polls,        \* polls _norflash_wait_ok makes before it gives up
  Wrapped,      \* 2^32 - 1, what timeout-- makes of 0
  Waits,        \* polls a chip command may take (> Polls: it never ends)
  PowerCuts,    \* may power go?
  MaxRefs,      \* bound: opens of one partition
  MaxFailures,  \* bound: failed commands and power losses
  NoBuf,        \* flash_cache_buf == NULL
  NoReq         \* no write under way

Sector == 0..Last
Page == 0..(K - 1)
Data == Value \cup {Erased, Mixed}
Blank == [q \in Page |-> Erased]

ASSUME NorFlashAssumption ==
  /\ Last \in Nat /\ K \in Nat \ {0}
  /\ Erased \notin Value /\ Mixed \notin Value /\ Erased # Mixed
  /\ View \in [Parts -> SUBSET Sector]
  /\ Cached \subseteq Parts /\ Eraser \subseteq Parts
  /\ Polls \in Nat \ {0} /\ Wrapped \in Nat /\ Wrapped > Polls
  /\ Waits \subseteq 1..(Polls + 1)
  /\ PowerCuts \in BOOLEAN
  /\ MaxRefs \in Nat /\ MaxFailures \in Nat
  /\ NoBuf \notin [Page -> Data]
  /\ IsFiniteSet(Parts)

VARIABLES
  flash,      \* the cells of the chip
  addr,       \* flash_cache_addr, as a sector
  buf,        \* flash_cache_buf, or NoBuf
  dirty,      \* flash_cache_is_dirty
  timer,      \* flash_cache_timer: "none", "armed", or "stale" (an id that has fired)
  refs,       \* device.ref of each partition (external: kept by dev_open, dev_close)
  opens,      \* open_cnt
  op,         \* who holds the mutex: "none", "write", "sync" or "close"
  pc,         \* where: "idle", "erase", "prog", "load" or "fill"
  page,       \* next page to program
  req,        \* what is left of the write
  weak,       \* history: a command of the last write-back failed
  failures    \* failures so far

cache == <<addr, buf, dirty, timer>>
mutex == <<op, pc, page, req>>
vars == <<flash, addr, buf, dirty, timer, refs, opens, op, pc, page, req, weak,
          failures>>

\* A write of v from page p of sector s up to page r of sector e.
Requests == [s : Sector, p : Page, e : Sector, r : 1..K, v : Value]

CachedView == UNION {View[d] : d \in Cached}
-----------------------------------------------------------------------------
(* The chip.                                                                *)

\* Programming can only clear bits.
Program(old, new) ==
  IF new = Erased THEN old ELSE IF old \in {Erased, new} THEN new ELSE Mixed

\* _norflash_wait_ok after a command that takes k polls: the loop leaves
\* timeout at Polls - k, or wraps it when the chip never gets ready, and then
\* compares it with 0.
Left(k) == IF k <= Polls THEN Polls - k ELSE Wrapped
WaitFails(k) == Left(k) = 0

Done(k) == k <= Polls
Failed(k) == ~Done(k) \/ WaitFails(k)

\* A failed command is counted; the sector written back is weak from then on.
Counts(k, w) ==
  /\ Failed(k) => failures < MaxFailures
  /\ failures' = IF Failed(k) THEN failures + 1 ELSE failures
  /\ weak' = (Failed(k) \/ w)
-----------------------------------------------------------------------------
(* Open and close.                                                          *)

Idle == op = "none"
Release == op' = "none" /\ pc' = "idle" /\ page' = 0 /\ req' = NoReq

\* norflash_dev_open; the first partition opened reads sector 0 to the cache.
\* The code looks at the reference count before it takes the mutex and counts
\* the open under it: that dev_open lets nobody in between is assumed.
CountedOnce == IF opens = 0 THEN 1 ELSE opens      \* mutant
Counted == opens + 1

Open(d) ==
  /\ Idle /\ refs[d] < MaxRefs
  /\ refs' = [refs EXCEPT ![d] = @ + 1]
  /\ IF refs[d] > 0 THEN UNCHANGED <<opens, addr, buf>>
     ELSE /\ opens' = Counted
          /\ IF opens = 0 THEN addr' = 0 /\ buf' = flash[0]
             ELSE UNCHANGED <<addr, buf>>
  /\ UNCHANGED <<flash, dirty, timer, mutex, weak, failures>>

\* _norflash_close, when dev_close finds the last reference gone: the last
\* partition to close writes a dirty cache back and frees it.
Close(d) ==
  /\ Idle /\ refs[d] > 0
  /\ refs' = [refs EXCEPT ![d] = @ - 1]
  /\ IF refs[d] > 1 THEN UNCHANGED <<opens, buf, dirty, mutex, weak>>
     ELSE /\ opens' = opens - 1
          /\ IF opens > 1 THEN UNCHANGED <<buf, dirty, mutex, weak>>
             ELSE IF dirty
             THEN /\ dirty' = FALSE
                  /\ op' = "close" /\ pc' = "erase" /\ UNCHANGED <<page, req>>
                  /\ UNCHANGED <<buf, weak>>
             ELSE buf' = NoBuf /\ weak' = FALSE /\ UNCHANGED <<dirty, mutex>>
  /\ UNCHANGED <<flash, addr, timer, failures>>
-----------------------------------------------------------------------------
(* Reading and writing through the cache.                                   *)

\* What a cached read that starts in sector s returns for page q of sector t:
\* only its first sector is looked up in the cache.
ReadPage(s, t, q) == IF s = t /\ t = addr /\ buf # NoBuf THEN buf[q] ELSE flash[t][q]

\* A write to another sector writes a dirty cache back first.
EvictsNever == FALSE     \* mutant
Evicts == dirty

\* _norflash_write takes the mutex.
WriteBegin(w) ==
  /\ Idle /\ \E d \in Cached : refs[d] > 0 /\ w.s..w.e \subseteq View[d]
  /\ w.s < w.e \/ (w.s = w.e /\ w.p < w.r)
  /\ op' = "write" /\ page' = 0 /\ req' = w
  /\ IF w.s = addr THEN pc' = "fill" /\ UNCHANGED dirty
     ELSE IF Evicts THEN pc' = "erase" /\ dirty' = FALSE
     ELSE pc' = "load" /\ UNCHANGED dirty
  /\ UNCHANGED <<flash, addr, buf, timer, refs, opens, weak, failures>>

\* The sector to write comes into the cache; the old one is no longer there.
Load ==
  /\ pc = "load"
  /\ buf' = flash[req.s] /\ addr' = req.s
  /\ weak' = FALSE
  /\ pc' = "fill"
  /\ UNCHANGED <<flash, dirty, timer, refs, opens, op, page, req, failures>>

\* sys_timer_re_run on the id in flash_cache_timer, or sys_timeout_add.
RerunOnly(t) == t        \* mutant: never added
Rearm(t) == IF t = "none" THEN "armed" ELSE t

\* A segment that ends inside its sector stays in the cache for the timer.
SegmentEnd == IF req.s = req.e THEN req.r ELSE K
EndsInside == SegmentEnd < K

Fill ==
  /\ pc = "fill"
  /\ buf' = [q \in Page |-> IF q >= req.p /\ q < SegmentEnd THEN req.v ELSE buf[q]]
  /\ IF EndsInside
     THEN /\ dirty' = TRUE
          /\ timer' = Rearm(timer)
          /\ Release
     ELSE /\ dirty' = FALSE
          /\ pc' = "erase"
          /\ UNCHANGED <<timer, op, page, req>>
  /\ UNCHANGED <<flash, addr, refs, opens, weak, failures>>

\* _norflash_cache_sync_timer fires (a one-shot timer).
SyncBegin ==
  /\ Idle /\ timer = "armed"
  /\ IF dirty
     THEN /\ dirty' = FALSE
          /\ op' = "sync" /\ pc' = "erase"
          /\ UNCHANGED <<timer, page, req>>
     ELSE timer' = "none" /\ UNCHANGED <<dirty, mutex>>
  /\ UNCHANGED <<flash, addr, buf, refs, opens, weak, failures>>
-----------------------------------------------------------------------------
(* Writing the cache back: erase, program page by page, go on.              *)

TargetNext == (addr + 1) % (Last + 1)     \* mutant
Target == addr

\* On an error a write gives up, and so does the sync callback, which keeps
\* the id of its timer; close goes on.
EraseSector ==
  /\ pc = "erase"
  /\ \E k \in Waits :
       /\ flash' = IF Done(k) THEN [flash EXCEPT ![Target] = Blank] ELSE flash
       /\ Counts(k, FALSE)
       /\ IF WaitFails(k) /\ op # "close"
          THEN Release /\ timer' = IF op = "sync" THEN "stale" ELSE timer
          ELSE pc' = "prog" /\ page' = 0 /\ UNCHANGED <<timer, op, req>>
  /\ UNCHANGED <<addr, buf, dirty, refs, opens>>

\* An error ends _norflash_write_pages; sync and close do not look at it.
ProgramPage ==
  /\ pc = "prog" /\ page < K
  /\ \E k \in Waits :
       /\ flash' = IF Done(k)
                   THEN [flash EXCEPT ![addr][page] = Program(@, buf[page])] ELSE flash
       /\ Counts(k, weak)
       /\ IF ~WaitFails(k) THEN page' = page + 1 /\ UNCHANGED <<op, pc, req>>
          ELSE IF op = "write" THEN Release
          ELSE page' = K /\ UNCHANGED <<op, pc, req>>
  /\ UNCHANGED <<addr, buf, dirty, timer, refs, opens>>

\* What follows a write-back.
AfterSync ==
  /\ op = "sync"
  /\ timer' = "none" /\ Release
  /\ UNCHANGED <<buf, weak>>

AfterClose ==
  /\ op = "close"
  /\ buf' = NoBuf /\ weak' = FALSE /\ Release
  /\ UNCHANGED timer

\* The old sector is out of the way: load the one to write.
AfterEvict ==
  /\ op = "write" /\ req.s # addr
  /\ pc' = "load" /\ page' = 0
  /\ UNCHANGED <<buf, weak, timer, op, req>>

\* The segment is on the chip: go on with the next sector, if any.
AfterSegment ==
  /\ op = "write" /\ req.s = addr
  /\ IF req.s = req.e THEN Release
     ELSE /\ req' = [req EXCEPT !.s = @ + 1, !.p = 0]
          /\ pc' = "load" /\ page' = 0 /\ UNCHANGED op
  /\ UNCHANGED <<buf, weak, timer>>

WrittenBack ==
  /\ pc = "prog" /\ page = K
  /\ AfterSync \/ AfterClose \/ AfterEvict \/ AfterSegment
  /\ UNCHANGED <<flash, addr, dirty, refs, opens, failures>>
-----------------------------------------------------------------------------
(* Past the cache, and power.                                               *)

\* _norflash_write with cache = 0: page programs, no erase.
RawWrite(d, s, q, v) ==
  /\ Idle /\ d \in Parts \ Cached /\ refs[d] > 0 /\ s \in View[d]
  /\ flash' = [flash EXCEPT ![s][q] = Program(@, v)]
  /\ UNCHANGED <<cache, refs, opens, mutex, weak, failures>>

\* IOCTL_ERASE_SECTOR, of either ops: the cache is not looked at.
IoctlErase(d, s) ==
  /\ Idle /\ d \in Eraser /\ refs[d] > 0 /\ s \in View[d]
  /\ flash' = [flash EXCEPT ![s] = Blank]
  /\ UNCHANGED <<cache, refs, opens, mutex, weak, failures>>

\* Power goes; a command the chip was busy with leaves its sector in any state.
PowerLoss ==
  /\ PowerCuts /\ failures < MaxFailures
  /\ IF pc = "erase" \/ (pc = "prog" /\ page < K)
     THEN \E c \in [Page -> Data] : flash' = [flash EXCEPT ![addr] = c]
     ELSE UNCHANGED flash
  /\ addr' = 0 /\ buf' = NoBuf /\ dirty' = FALSE /\ timer' = "none"
  /\ refs' = [d \in Parts |-> 0] /\ opens' = 0
  /\ Release
  /\ weak' = FALSE /\ failures' = failures + 1

Init ==
  /\ flash = [s \in Sector |-> Blank]
  /\ addr = 0 /\ buf = NoBuf /\ dirty = FALSE /\ timer = "none"
  /\ refs = [d \in Parts |-> 0] /\ opens = 0
  /\ op = "none" /\ pc = "idle" /\ page = 0 /\ req = NoReq
  /\ weak = FALSE /\ failures = 0

WriteBegins == \E w \in Requests : WriteBegin(w)

WriteBack == EraseSector \/ ProgramPage \/ WrittenBack

Next ==
  \/ \E d \in Parts : Open(d) \/ Close(d)
  \/ WriteBegins \/ Load \/ Fill
  \/ SyncBegin
  \/ WriteBack
  \/ \E d \in Parts, s \in Sector, q \in Page, v \in Value : RawWrite(d, s, q, v)
  \/ \E d \in Parts, s \in Sector : IoctlErase(d, s)
  \/ PowerLoss

Spec == Init /\ [][Next]_vars

\* An operation that holds the mutex runs to its end, and an armed timer fires.
Fairness == WF_vars(WriteBack) /\ WF_vars(Load) /\ WF_vars(Fill) /\ WF_vars(SyncBegin)

FairSpec == Spec /\ Fairness
-----------------------------------------------------------------------------
(* Properties.                                                              *)

\* Every variable has its type.
TypeOK ==
  /\ flash \in [Sector -> [Page -> Data]]
  /\ addr \in Sector /\ buf \in [Page -> Data] \cup {NoBuf}
  /\ dirty \in BOOLEAN /\ timer \in {"none", "armed", "stale"}
  /\ refs \in [Parts -> 0..MaxRefs] /\ opens \in Nat
  /\ op \in {"none", "write", "sync", "close"}
  /\ pc \in {"idle", "erase", "prog", "load", "fill"}
  /\ page \in 0..K /\ req \in Requests \cup {NoReq}
  /\ weak \in BOOLEAN /\ failures \in 0..MaxFailures

\* The cache is there exactly as long as some partition is open, however opens
\* and closes of the partitions interleave: no operation runs on a freed buffer.
BufferWhileOpen ==
  /\ opens = Cardinality({d \in Parts : refs[d] > 0})
  /\ buf # NoBuf <=> opens > 0 \/ op = "close"

\* A cache that is not dirty equals its sector on the chip ("caches 4K of data,
\* the same as the data in flash", norflash.c), unless a write-back failed.
CleanMeansWritten ==
  Idle /\ buf # NoBuf /\ ~dirty /\ ~weak /\ addr \in CachedView
    => buf = flash[addr]

\* Data that wait in the cache have a timer that will write them back.
SyncArmed == dirty => timer = "armed"

\* What lies outside the cached partitions only changes when nobody holds the
\* mutex, by a raw write or an erase of its own client.  The first open reads
\* sector 0 into the cache, whoever's it is, and that copy grows old while raw
\* clients write: no eviction, timer, last close or power loss in the middle of
\* one puts it, or anything else, over their data.
RawKept ==
  [][ \A s \in Sector \ CachedView : flash'[s] # flash[s] => Idle ]_vars

\* Once clients pause, data in the cache get to the chip.
FlushedEventually ==
  <>[][~WriteBegins]_vars => (dirty ~> ~dirty)

\* What clients of the cached view read, one sector at a time, and the sector
\* of which it is uncertain that it is on the chip.
Visible == [s \in CachedView |-> [q \in Page |-> ReadPage(s, s, q)]]
WeakSectors == IF weak /\ addr \in CachedView THEN {addr} ELSE {}

\* To clients of the cached view the driver is a FlashStore: sectors hold what
\* was last written, and a failure touches one sector only.
Store ==
  INSTANCE FlashStore WITH Sectors <- CachedView, data <- Visible, weak <- WeakSectors

StoreSpec == Store!Spec
=============================================================================

--------------------------- MODULE NorFlashProofs ---------------------------
(***************************************************************************)
(* Proofs about NorFlash for every chip, partition table, pattern of waits  *)
(* and number of failures.                                                 *)
(*                                                                         *)
(* IInv adds to the run invariants who holds the mutex, what the write-back *)
(* has done so far, and that a dirty or weak cache is there.  From it the   *)
(* driver implements FlashStore.                                           *)
(***************************************************************************)
EXTENDS NorFlash, FiniteSetTheorems, TLAPS

\* Raw clients and erase ioctls stay clear of the sectors behind the cache.
Apart ==
  /\ \A d \in Parts \ Cached : View[d] \cap CachedView = {}
  /\ \A d \in Eraser : View[d] \cap CachedView = {}

Image == [Page -> Data]

\* The mutex, the program counter and the request belong together.
LockInv ==
  /\ op = "none" <=> pc = "idle"
  /\ pc \in {"load", "fill"} => op = "write"
  /\ op = "write" => req \in Requests /\ req.s..req.e \subseteq CachedView
                       /\ req.s <= req.e
  /\ pc = "fill" => addr = req.s
  /\ op = "close" => opens = 0

\* The buffer is there while somebody needs it.
BufferInv ==
  /\ BufferWhileOpen
  /\ op # "none" \/ dirty \/ weak => buf # NoBuf

\* Pages before `page` are on the chip, the others are erased.
SoFar ==
  \A q \in Page : flash[addr][q] = IF q < page THEN buf[q] ELSE Erased

\* Only clients' sectors are written back; a clean cache is on the chip.
CacheInv ==
  /\ dirty => addr \in CachedView /\ pc \in {"idle", "fill"}
  /\ pc \in {"erase", "prog"} => addr \in CachedView
  /\ pc = "prog" /\ ~weak => SoFar
  /\ buf # NoBuf /\ ~dirty /\ ~weak /\ addr \in CachedView
       /\ pc \in {"idle", "load", "fill"} => buf = flash[addr]

IInv == TypeOK /\ LockInv /\ BufferInv /\ CacheInv
-----------------------------------------------------------------------------
\* The sets of the model: pages, sectors and what a blank sector is.
LEMMA Shapes ==
  /\ 0 \in Sector /\ 0 \in Page /\ Blank \in Image /\ CachedView \subseteq Sector
  /\ NoBuf \notin Image /\ K \in Nat /\ K > 0
BY NorFlashAssumption DEF Sector, Page, Blank, Image, Data, CachedView

\* Programming a page gives a page; on an erased one, what was asked for.
LEMMA ProgramType ==
  ASSUME NEW old \in Data, NEW new \in Data
  PROVE  Program(old, new) \in Data /\ Program(Erased, new) = new
BY DEF Program, Data

\* A part that is open is counted.
LEMMA OpenCounted ==
  ASSUME TypeOK, BufferInv, NEW d \in Parts, refs[d] > 0
  PROVE  opens > 0
<1> DEFINE S == {x \in Parts : refs[x] > 0}
<1>1. IsFiniteSet(S) /\ d \in S
  BY FS_Subset, NorFlashAssumption
<1>2. Cardinality(S) # 0
  BY <1>1, FS_EmptySet
<1> QED BY <1>2 DEF BufferInv, BufferWhileOpen, TypeOK

\* Taking the first reference of d counts one more open partition.
LEMMA OpenCount ==
  ASSUME TypeOK, BufferWhileOpen, NEW d \in Parts, refs[d] < MaxRefs,
         refs' = [refs EXCEPT ![d] = @ + 1]
  PROVE  /\ refs' \in [Parts -> 0..MaxRefs]
         /\ Cardinality({x \in Parts : refs'[x] > 0})
              = IF refs[d] > 0 THEN opens ELSE opens + 1
<1> DEFINE S == {x \in Parts : refs[x] > 0}
           T == {x \in Parts : refs'[x] > 0}
<1>1. refs' \in [Parts -> 0..MaxRefs]
  BY NorFlashAssumption DEF TypeOK
<1>2. refs \in [Parts -> 0..MaxRefs] /\ refs'[d] = refs[d] + 1
      /\ \A x \in Parts : x # d => refs'[x] = refs[x]
  BY DEF TypeOK
<1>3. T = S \cup {d}
  BY <1>1, <1>2, NorFlashAssumption
<1>4. IsFiniteSet(S) /\ opens = Cardinality(S)
  BY FS_Subset, NorFlashAssumption DEF BufferWhileOpen
<1>5. Cardinality(T) = IF d \in S THEN Cardinality(S) ELSE Cardinality(S) + 1
  BY <1>3, <1>4, FS_AddElement
<1>6. d \in S <=> refs[d] > 0
  OBVIOUS
<1> QED BY <1>1, <1>4, <1>5, <1>6

\* Giving up the last reference of d counts one less.
LEMMA CloseCount ==
  ASSUME TypeOK, BufferWhileOpen, NEW d \in Parts, refs[d] > 0,
         refs' = [refs EXCEPT ![d] = @ - 1]
  PROVE  /\ refs' \in [Parts -> 0..MaxRefs]
         /\ Cardinality({x \in Parts : refs'[x] > 0})
              = IF refs[d] > 1 THEN opens ELSE opens - 1
<1> DEFINE S == {x \in Parts : refs[x] > 0}
           T == {x \in Parts : refs'[x] > 0}
<1>1. refs' \in [Parts -> 0..MaxRefs]
  BY NorFlashAssumption DEF TypeOK
<1>2. refs \in [Parts -> 0..MaxRefs] /\ refs'[d] = refs[d] - 1
      /\ \A x \in Parts : x # d => refs'[x] = refs[x]
  BY DEF TypeOK
<1>3. IsFiniteSet(S) /\ opens = Cardinality(S) /\ d \in S
  BY FS_Subset, NorFlashAssumption DEF BufferWhileOpen
<1>4. CASE refs[d] > 1
  <2>1. T = S
    BY <1>1, <1>2, <1>4, NorFlashAssumption
  <2> QED BY <1>1, <1>3, <1>4, <2>1
<1>5. CASE ~(refs[d] > 1)
  <2>1. T = S \ {d}
    BY <1>1, <1>2, <1>5, NorFlashAssumption
  <2>2. Cardinality(T) = Cardinality(S) - 1
    BY <1>3, <2>1, FS_RemoveElement
  <2> QED BY <1>1, <1>3, <1>5, <2>2
<1> QED BY <1>4, <1>5
-----------------------------------------------------------------------------
(* One lemma per action: it keeps IInv.                                     *)

\* The first partition opened fills the buffer from sector 0.
LEMMA OpenKeeps ==
  ASSUME IInv, NEW d \in Parts, Open(d)
  PROVE  IInv'
<1>1. /\ refs' \in [Parts -> 0..MaxRefs]
      /\ Cardinality({x \in Parts : refs'[x] > 0})
           = IF refs[d] > 0 THEN opens ELSE opens + 1
  BY OpenCount DEF IInv, BufferInv, Open
<1>2. refs[d] > 0 => opens > 0
  BY OpenCounted DEF IInv
<1>3. TypeOK'
  BY <1>1, Shapes DEF IInv, TypeOK, Open, mutex, Counted, Image
<1>4. LockInv'
  BY DEF IInv, LockInv, Open, mutex, Idle
<1>5. BufferInv'
  <2>1. CASE opens = 0 /\ refs[d] = 0
    BY <1>1, <2>1, Shapes DEF IInv, TypeOK, BufferInv, BufferWhileOpen, Open,
       mutex, Counted, Image
  <2>2. CASE ~(opens = 0 /\ refs[d] = 0)
    BY <1>1, <1>2, <2>2, Shapes DEF IInv, TypeOK, BufferInv, BufferWhileOpen, Open,
       mutex, Counted, Image
  <2> QED BY <2>1, <2>2
<1>6. CacheInv'
  <2>1. CASE opens = 0 /\ refs[d] = 0
    BY <2>1 DEF IInv, LockInv, BufferInv, BufferWhileOpen, CacheInv, SoFar, Open,
       mutex, Idle
  <2>2. CASE ~(opens = 0 /\ refs[d] = 0)
    BY <1>2, <2>2, NorFlashAssumption DEF IInv, TypeOK, LockInv, CacheInv, SoFar, Open,
      mutex, Idle
  <2> QED BY <2>1, <2>2
<1> QED BY <1>3, <1>4, <1>5, <1>6 DEF IInv

\* The last partition to close takes the buffer away, or first writes it back.
LEMMA CloseKeeps ==
  ASSUME IInv, NEW d \in Parts, Close(d)
  PROVE  IInv'
<1>1. /\ refs' \in [Parts -> 0..MaxRefs]
      /\ Cardinality({x \in Parts : refs'[x] > 0})
           = IF refs[d] > 1 THEN opens ELSE opens - 1
  BY CloseCount DEF IInv, BufferInv, Close
<1>2. opens > 0 /\ opens \in Nat /\ op = "none" /\ pc = "idle" /\ buf # NoBuf
  BY OpenCounted DEF IInv, TypeOK, LockInv, BufferInv, BufferWhileOpen, Close, Idle
<1>3. TypeOK'
  <2>0. opens' \in Nat /\ buf' \in {buf, NoBuf}
    BY <1>2 DEF Close
  <2>1. dirty' \in BOOLEAN /\ weak' \in BOOLEAN
    BY Zenon DEF IInv, TypeOK, Close
  <2>2. op' \in {"none", "close"} /\ pc' \in {"idle", "erase"} /\ page' = page /\ req' = req
    BY <1>2 DEF Close, mutex
  <2> QED BY <1>1, <2>0, <2>1, <2>2 DEF IInv, TypeOK, Close, Image
<1>4. LockInv'
  BY <1>2 DEF IInv, LockInv, Close, mutex
<1>5. BufferInv'
  BY <1>1, <1>2 DEF IInv, BufferInv, BufferWhileOpen, Close, mutex
<1>6. CacheInv'
  BY <1>2 DEF IInv, CacheInv, SoFar, Close, mutex
<1> QED BY <1>3, <1>4, <1>5, <1>6 DEF IInv

\* A write starts with a buffer, since a partition is open.
LEMMA WriteBeginKeeps ==
  ASSUME IInv, NEW r \in Requests, WriteBegin(r)
  PROVE  IInv'
<1>1. PICK d \in Cached : refs[d] > 0 /\ r.s..r.e \subseteq View[d]
  BY DEF WriteBegin
<1>2. r.s..r.e \subseteq CachedView /\ d \in Parts
  BY <1>1, NorFlashAssumption DEF CachedView
<1>3. buf # NoBuf /\ op = "none" /\ pc = "idle"
  BY <1>1, <1>2, OpenCounted DEF IInv, TypeOK, LockInv, BufferInv, BufferWhileOpen,
     WriteBegin, Idle
<1>4. r.s \in Nat /\ r.e \in Nat /\ r.s <= r.e
  BY NorFlashAssumption DEF Requests, Sector, WriteBegin
<1>5. TypeOK'
  <2>1. dirty' \in BOOLEAN /\ pc' \in {"fill", "erase", "load"}
    BY DEF IInv, TypeOK, WriteBegin
  <2> QED BY <2>1, NorFlashAssumption DEF IInv, TypeOK, WriteBegin
<1>6. LockInv'
  BY <1>2, <1>4 DEF LockInv, WriteBegin
<1>7. BufferInv'
  BY <1>3 DEF IInv, BufferInv, BufferWhileOpen, WriteBegin
<1>8. CacheInv'
  BY <1>3 DEF IInv, CacheInv, SoFar, WriteBegin, Evicts
<1> QED BY <1>5, <1>6, <1>7, <1>8 DEF IInv

\* What a request in progress says of its sectors.
LEMMA RequestShape ==
  ASSUME IInv, op = "write"
  PROVE  /\ req \in Requests /\ req.s \in Sector /\ req.e \in Sector
         /\ req.p \in Page /\ req.r \in 1..K /\ req.v \in Value
         /\ req.s \in CachedView /\ req.s <= req.e
<1>1. req \in Requests /\ req.s..req.e \subseteq CachedView /\ req.s <= req.e
  BY DEF IInv, LockInv
<1>2. req.s \in Nat /\ req.e \in Nat
  BY <1>1, NorFlashAssumption DEF Requests, Sector
<1>3. req.s \in req.s..req.e
  BY <1>1, <1>2
<1> QED BY <1>1, <1>3 DEF Requests

\* Loading makes the cache equal to its sector.
LEMMA LoadKeeps ==
  ASSUME IInv, Load
  PROVE  IInv'
<1>1. op = "write" /\ pc = "load" /\ ~dirty
  BY DEF IInv, LockInv, CacheInv, Load
<1>2. req.s \in Sector /\ flash[req.s] \in Image
  BY <1>1, RequestShape DEF IInv, TypeOK, Image
<1>3. TypeOK'
  BY <1>2 DEF IInv, TypeOK, Load, Image
<1>4. LockInv'
  BY <1>1 DEF IInv, LockInv, Load
<1>5. BufferInv'
  BY <1>1, <1>2, Shapes DEF IInv, BufferInv, BufferWhileOpen, Load
<1>6. CacheInv'
  BY <1>1 DEF IInv, CacheInv, SoFar, Load
<1> QED BY <1>3, <1>4, <1>5, <1>6 DEF IInv

\* What Fill leaves in the buffer is a sector.
LEMMA FillType ==
  ASSUME IInv, Fill
  PROVE  /\ buf' \in Image /\ op = "write" /\ addr = req.s /\ addr \in CachedView
         /\ buf \in Image
<1>1. op = "write" /\ addr = req.s /\ buf # NoBuf
  BY DEF IInv, LockInv, BufferInv, Fill
<1>2. buf \in Image /\ req.v \in Data /\ addr \in CachedView
  BY <1>1, RequestShape DEF IInv, TypeOK, Image, Data
<1> QED BY <1>1, <1>2 DEF Fill, Image

\* Filling marks the buffer dirty, or goes on to write it back.
LEMMA FillKeeps ==
  ASSUME IInv, Fill
  PROVE  IInv'
<1>1. buf' \in Image /\ op = "write" /\ addr = req.s /\ addr \in CachedView
  BY FillType
<1>2. TypeOK'
  <2>1. dirty' \in BOOLEAN /\ timer' \in {"none", "armed", "stale"}
    BY DEF IInv, TypeOK, Fill, Rearm
  <2>2. /\ op' \in {"none", "write"} /\ pc' \in {"idle", "erase"}
        /\ page' \in 0..K /\ req' \in Requests \cup {NoReq}
    BY <1>1, NorFlashAssumption DEF IInv, TypeOK, Fill, Release
  <2> QED BY <1>1, <2>1, <2>2 DEF IInv, TypeOK, Fill, Image
<1>3. LockInv'
  BY <1>1 DEF IInv, LockInv, Fill, Release
<1>4. BufferInv'
  BY <1>1, Shapes DEF IInv, BufferInv, BufferWhileOpen, Fill, Release
<1>5. CacheInv'
  BY <1>1 DEF IInv, CacheInv, SoFar, Fill, Release
<1> QED BY <1>2, <1>3, <1>4, <1>5 DEF IInv

\* The timer starts a write-back of a dirty buffer.
LEMMA SyncBeginKeeps ==
  ASSUME IInv, SyncBegin
  PROVE  IInv'
<1>1. op = "none" /\ pc = "idle"
  BY DEF IInv, LockInv, SyncBegin, Idle
<1>2. TypeOK'
  BY DEF IInv, TypeOK, SyncBegin, mutex
<1>3. LockInv'
  BY <1>1 DEF IInv, LockInv, SyncBegin, mutex
<1>4. BufferInv'
  BY <1>1 DEF IInv, BufferInv, BufferWhileOpen, SyncBegin, mutex
<1>5. CacheInv'
  BY <1>1 DEF IInv, CacheInv, SoFar, SyncBegin, mutex
<1> QED BY <1>2, <1>3, <1>4, <1>5 DEF IInv
-----------------------------------------------------------------------------
(* Writing back.                                                            *)

\* A failed command is counted within the bound, and weak stays a Boolean.
LEMMA CountsType ==
  ASSUME IInv, NEW k \in Waits, NEW b \in BOOLEAN, Counts(k, b)
  PROVE  /\ failures' \in 0..MaxFailures /\ weak' \in BOOLEAN
         /\ ~weak' => ~b /\ Done(k) /\ ~WaitFails(k)
<1>1. failures' \in 0..MaxFailures
  BY NorFlashAssumption DEF IInv, TypeOK, Counts
<1>2. weak' \in BOOLEAN /\ (~weak' => ~b /\ Done(k) /\ ~WaitFails(k))
  BY Zenon DEF Counts, Failed
<1> QED BY <1>1, <1>2

\* Erasing leaves the sector blank, ready for page 0, or ends with an error.
LEMMA EraseKeeps ==
  ASSUME IInv, EraseSector
  PROVE  IInv'
<1>1. PICK k \in Waits :
        /\ flash' = IF Done(k) THEN [flash EXCEPT ![Target] = Blank] ELSE flash
        /\ Counts(k, FALSE)
        /\ IF WaitFails(k) /\ op # "close"
           THEN Release /\ timer' = IF op = "sync" THEN "stale" ELSE timer
           ELSE pc' = "prog" /\ page' = 0 /\ UNCHANGED <<timer, op, req>>
  BY DEF EraseSector
<1>2. failures' \in 0..MaxFailures /\ weak' \in BOOLEAN
      /\ (~weak' => Done(k) /\ ~WaitFails(k))
  BY <1>1, CountsType
<1>3. /\ pc = "erase" /\ op # "none" /\ addr \in CachedView /\ buf # NoBuf /\ ~dirty
      /\ UNCHANGED <<addr, buf, dirty, refs, opens>>
  BY DEF IInv, LockInv, BufferInv, CacheInv, EraseSector
<1>4. flash' \in [Sector -> Image]
      /\ (~weak' => flash' = [flash EXCEPT ![addr] = Blank])
  BY <1>1, <1>2, Shapes DEF IInv, TypeOK, Target, Image
<1>5. \/ /\ Release /\ timer' \in {timer, "stale"} /\ weak'
      \/ /\ pc' = "prog" /\ page' = 0 /\ UNCHANGED <<timer, op, req>>
  BY <1>1, <1>2
<1>6. TypeOK'
  <2>1. /\ timer' \in {"none", "armed", "stale"} /\ op' \in {"none", op}
        /\ pc' \in {"idle", "prog"} /\ page' = 0 /\ req' \in {req, NoReq}
    BY <1>5 DEF IInv, TypeOK, Release
  <2> QED BY <1>2, <1>3, <1>4, <2>1, NorFlashAssumption DEF IInv, TypeOK, Image
<1>7. LockInv'
  BY <1>3, <1>5 DEF IInv, LockInv, Release
<1>8. BufferInv'
  <2>1. op' \in {op, "none"} /\ (op' = "none" => op # "close")
    BY <1>1 DEF Release
  <2> QED BY <1>3, <2>1 DEF IInv, BufferInv, BufferWhileOpen
<1>9. CacheInv'
  <2>1. CASE weak'
    BY <1>3, <1>5, <2>1 DEF CacheInv, Release
  <2>2. CASE ~weak'
    <3>1. /\ pc' = "prog" /\ page' = 0
      BY <1>5, <2>2
    <3>2. flash'[addr] = Blank
      BY <1>4, <2>2 DEF IInv, TypeOK
    <3>3. SoFar'
      BY <1>3, <3>1, <3>2, NorFlashAssumption DEF SoFar, Blank, Page
    <3> QED BY <1>3, <3>1, <3>3 DEF CacheInv
  <2> QED BY <2>1, <2>2
<1> QED BY <1>6, <1>7, <1>8, <1>9 DEF IInv

\* A programmed page is that of the buffer, since the sector was erased.
LEMMA ProgramKeeps ==
  ASSUME IInv, ProgramPage
  PROVE  IInv'
<1>1. PICK k \in Waits :
        /\ flash' = IF Done(k)
                    THEN [flash EXCEPT ![addr][page] = Program(@, buf[page])] ELSE flash
        /\ Counts(k, weak)
        /\ IF ~WaitFails(k) THEN page' = page + 1 /\ UNCHANGED <<op, pc, req>>
           ELSE IF op = "write" THEN Release
           ELSE page' = K /\ UNCHANGED <<op, pc, req>>
  BY DEF ProgramPage
<1>2. failures' \in 0..MaxFailures /\ weak' \in BOOLEAN
      /\ (~weak' => ~weak /\ Done(k) /\ ~WaitFails(k))
  BY <1>1, CountsType DEF IInv, TypeOK
<1>3. /\ pc = "prog" /\ op # "none" /\ addr \in CachedView /\ buf # NoBuf /\ ~dirty
      /\ UNCHANGED <<addr, buf, dirty, timer, refs, opens>>
  BY DEF IInv, LockInv, BufferInv, CacheInv, ProgramPage
<1>4. /\ buf \in Image /\ flash \in [Sector -> Image] /\ addr \in Sector
      /\ page \in Page /\ buf[page] \in Data /\ flash[addr][page] \in Data
  BY <1>3, NorFlashAssumption DEF IInv, TypeOK, Image, Page, ProgramPage
<1>5. Program(flash[addr][page], buf[page]) \in Data
  BY <1>4, ProgramType
<1>6. flash' \in [Sector -> Image]
  BY <1>1, <1>4, <1>5 DEF Image
<1>7. \/ Release /\ op = "write" /\ weak'
      \/ page' \in 0..K /\ UNCHANGED <<op, pc, req>>
  BY <1>1, <1>2, <1>4, NorFlashAssumption DEF Page
<1>8. TypeOK'
  <2>1. /\ op' \in {"none", op} /\ pc' \in {"idle", pc} /\ page' \in 0..K
        /\ req' \in {req, NoReq}
    BY <1>7, NorFlashAssumption DEF Release
  <2> QED BY <1>2, <1>3, <1>6, <2>1 DEF IInv, TypeOK, Image
<1>9. LockInv'
  BY <1>3, <1>7 DEF IInv, LockInv, Release
<1>10. BufferInv'
  <2>1. op' \in {op, "none"} /\ (op' = "none" => op # "close")
    BY <1>3, <1>7 DEF Release
  <2> QED BY <1>3, <2>1 DEF IInv, BufferInv, BufferWhileOpen
<1>11. CacheInv'
  <2>1. CASE weak'
    BY <1>3, <1>7, <2>1 DEF CacheInv, Release
  <2>2. CASE ~weak'
    <3>1. ~weak /\ Done(k) /\ ~WaitFails(k) /\ pc' = "prog" /\ page' = page + 1
      BY <1>1, <1>2, <1>3, <2>2
    <3>2. SoFar
      BY <1>3, <3>1 DEF IInv, CacheInv
    <3>3. Program(flash[addr][page], buf[page]) = buf[page]
      BY <1>4, <3>2, ProgramType, NorFlashAssumption DEF SoFar, Page
    <3>4. /\ flash'[addr] \in Image /\ flash'[addr][page] = buf[page]
          /\ \A q \in Page : q # page => flash'[addr][q] = flash[addr][q]
      BY <1>1, <1>4, <1>5, <3>1, <3>3 DEF Image
    <3>5. SoFar'
      BY <1>3, <1>4, <3>1, <3>2, <3>4, NorFlashAssumption DEF SoFar, Page
    <3> QED BY <1>3, <3>1, <3>5 DEF CacheInv
  <2> QED BY <2>1, <2>2
<1> QED BY <1>8, <1>9, <1>10, <1>11 DEF IInv

\* After the last page the sector on the chip equals the buffer.
LEMMA WrittenBackMatches ==
  ASSUME IInv, WrittenBack
  PROVE  /\ pc = "prog" /\ op # "none" /\ addr \in CachedView /\ buf # NoBuf /\ ~dirty
         /\ ~weak => buf = flash[addr]
<1>1. pc = "prog" /\ op # "none" /\ addr \in CachedView /\ buf # NoBuf /\ ~dirty
  BY DEF IInv, LockInv, BufferInv, CacheInv, WrittenBack
<1>2. CASE ~weak
  <2>1. SoFar /\ page = K
    BY <1>1, <1>2 DEF IInv, CacheInv, WrittenBack
  <2>2. \A q \in Page : flash[addr][q] = buf[q]
    BY <2>1, NorFlashAssumption DEF SoFar, Page
  <2>3. buf \in [Page -> Data] /\ flash[addr] \in [Page -> Data]
    BY <1>1 DEF IInv, TypeOK
  <2> QED BY <1>1, <2>2, <2>3
<1> QED BY <1>1, <1>2

\* The end of a write-back: the sync callback and the close let go of the
\* mutex, a write goes on with the sector it wants.
LEMMA WrittenBackKeeps ==
  ASSUME IInv, WrittenBack
  PROVE  IInv'
<1>1. /\ pc = "prog" /\ op # "none" /\ addr \in CachedView /\ buf # NoBuf /\ ~dirty
      /\ ~weak => buf = flash[addr]
      /\ UNCHANGED <<flash, addr, dirty, refs, opens, failures>>
  BY WrittenBackMatches DEF WrittenBack
<1>2. CASE AfterSync
  <2>1. TypeOK'
    BY <1>1, <1>2, NorFlashAssumption DEF IInv, TypeOK, AfterSync, Release
  <2>2. LockInv'
    BY <1>2 DEF LockInv, AfterSync, Release
  <2>3. BufferInv'
    BY <1>1, <1>2 DEF IInv, BufferInv, BufferWhileOpen, AfterSync, Release
  <2>4. CacheInv'
    BY <1>1, <1>2 DEF CacheInv, AfterSync, Release
  <2> QED BY <2>1, <2>2, <2>3, <2>4 DEF IInv
<1>3. CASE AfterClose
  <2>1. TypeOK'
    <3>1. buf' \in Image \cup {NoBuf} /\ weak' \in BOOLEAN
      BY <1>3 DEF AfterClose
    <3> QED BY <1>1, <1>3, <3>1, NorFlashAssumption DEF IInv, TypeOK, AfterClose, Release, Image
  <2>2. LockInv'
    BY <1>3 DEF LockInv, AfterClose, Release
  <2>3. opens = 0
    BY <1>3 DEF IInv, LockInv, AfterClose
  <2>4. BufferInv'
    BY <1>1, <1>3, <2>3 DEF IInv, BufferInv, BufferWhileOpen, AfterClose, Release
  <2>5. CacheInv'
    BY <1>1, <1>3 DEF CacheInv, AfterClose, Release
  <2> QED BY <2>1, <2>2, <2>4, <2>5 DEF IInv
<1>4. CASE AfterEvict
  <2>1. TypeOK'
    BY <1>1, <1>4, NorFlashAssumption DEF IInv, TypeOK, AfterEvict
  <2>2. LockInv'
    BY <1>1, <1>4 DEF IInv, LockInv, AfterEvict
  <2>3. BufferInv'
    BY <1>1, <1>4 DEF IInv, BufferInv, BufferWhileOpen, AfterEvict
  <2>4. CacheInv'
    BY <1>1, <1>4 DEF CacheInv, AfterEvict
  <2> QED BY <2>1, <2>2, <2>3, <2>4 DEF IInv
<1>5. CASE AfterSegment
  <2>1. CASE req.s = req.e
    <3>1. Release /\ UNCHANGED <<buf, weak, timer>>
      BY <1>5, <2>1 DEF AfterSegment
    <3>2. TypeOK'
      BY <1>1, <3>1, NorFlashAssumption DEF IInv, TypeOK, Release
    <3>3. LockInv'
      BY <3>1 DEF LockInv, Release
    <3>4. BufferInv'
      BY <1>1, <1>5, <3>1 DEF IInv, BufferInv, BufferWhileOpen, AfterSegment, Release
    <3>5. CacheInv'
      BY <1>1, <3>1 DEF CacheInv, Release
    <3> QED BY <3>2, <3>3, <3>4, <3>5 DEF IInv
  <2>2. CASE req.s # req.e
    <3>1. /\ op = "write" /\ op' = op /\ pc' = "load" /\ page' = 0
          /\ req' = [req EXCEPT !.s = @ + 1, !.p = 0]
          /\ UNCHANGED <<buf, weak, timer>>
      BY <1>5, <2>2 DEF AfterSegment
    <3>2. /\ req \in Requests /\ req.s \in Nat /\ req.e \in Nat /\ req.s < req.e
          /\ req.s..req.e \subseteq CachedView
      BY <2>2, <3>1, RequestShape, NorFlashAssumption DEF IInv, LockInv, Sector
    <3>3. /\ req' \in Requests /\ req'.s = req.s + 1 /\ req'.e = req.e
      <4>1. req.s + 1 \in Sector /\ 0 \in Page
        BY <3>2, NorFlashAssumption DEF Requests, Sector, Page
      <4> QED BY <3>1, <3>2, <4>1 DEF Requests
    <3>4. TypeOK'
      BY <1>1, <3>1, <3>3, NorFlashAssumption DEF IInv, TypeOK
    <3>5. LockInv'
      BY <3>1, <3>2, <3>3 DEF LockInv
    <3>6. BufferInv'
      BY <1>1, <3>1 DEF IInv, BufferInv, BufferWhileOpen
    <3>7. CacheInv'
      BY <1>1, <3>1 DEF CacheInv
    <3> QED BY <3>4, <3>5, <3>6, <3>7 DEF IInv
  <2> QED BY <2>1, <2>2
<1> QED BY <1>2, <1>3, <1>4, <1>5 DEF WrittenBack
-----------------------------------------------------------------------------
(* Past the cache, and power.                                               *)

\* A change to a sector that is not behind the cache keeps everything.
LEMMA ElsewhereKeeps ==
  ASSUME IInv, op = "none", NEW s \in Sector, s \notin CachedView, NEW c \in Image,
         flash' = [flash EXCEPT ![s] = c],
         UNCHANGED <<addr, buf, dirty, timer, refs, opens, op, pc, page, req, weak, failures>>
  PROVE  IInv'
<1>1. TypeOK'
  BY DEF IInv, TypeOK, Image
<1>2. LockInv' /\ pc = "idle"
  BY DEF IInv, LockInv
<1>3. BufferInv'
  BY DEF IInv, BufferInv, BufferWhileOpen
<1>4. addr \in CachedView => flash'[addr] = flash[addr]
  BY DEF IInv, TypeOK
<1>5. CacheInv'
  BY <1>2, <1>4 DEF IInv, CacheInv
<1> QED BY <1>1, <1>2, <1>3, <1>5 DEF IInv

\* A raw write stays in the raw partition.
LEMMA RawWriteKeeps ==
  ASSUME IInv, Apart, NEW d \in Parts, NEW s \in Sector, NEW q \in Page, NEW v \in Value,
         RawWrite(d, s, q, v)
  PROVE  IInv'
<1>1. s \notin CachedView /\ op = "none"
  BY DEF Apart, RawWrite, Idle
<1>2. flash[s] \in Image /\ flash[s][q] \in Data /\ v \in Data
  BY DEF IInv, TypeOK, Image, Data
<1> DEFINE c == [flash[s] EXCEPT ![q] = Program(@, v)]
<1>3. c \in Image
  BY <1>2, ProgramType DEF Image
<1>4. flash' = [flash EXCEPT ![s] = c]
  BY DEF RawWrite
<1> QED BY <1>1, <1>3, <1>4, ElsewhereKeeps DEF RawWrite, cache, mutex

\* So does an erase.
LEMMA IoctlEraseKeeps ==
  ASSUME IInv, Apart, NEW d \in Parts, NEW s \in Sector, IoctlErase(d, s)
  PROVE  IInv'
<1>1. s \notin CachedView /\ op = "none"
  BY DEF Apart, IoctlErase, Idle
<1> QED BY <1>1, Shapes, ElsewhereKeeps DEF IoctlErase, cache, mutex

\* With nobody open there is no buffer.
LEMMA NobodyOpen == Cardinality({d \in Parts : [x \in Parts |-> 0][d] > 0}) = 0
<1>1. {d \in Parts : [x \in Parts |-> 0][d] > 0} = {}
  OBVIOUS
<1> QED BY <1>1, FS_EmptySet

\* Power loss closes everything; only the chip remembers.
LEMMA PowerLossKeeps ==
  ASSUME IInv, PowerLoss
  PROVE  IInv'
<1>1. flash' \in [Sector -> Image]
  BY DEF IInv, TypeOK, PowerLoss, Image
<1>2. TypeOK'
  <2>1. buf' \in Image \cup {NoBuf} /\ weak' \in BOOLEAN /\ dirty' \in BOOLEAN
        /\ timer' \in {"none", "armed", "stale"}
    BY DEF PowerLoss
  <2>2. refs' \in [Parts -> 0..MaxRefs] /\ opens' \in Nat /\ failures' \in 0..MaxFailures
    BY NorFlashAssumption DEF IInv, TypeOK, PowerLoss
  <2> QED BY <1>1, <2>1, <2>2, Shapes, NorFlashAssumption DEF TypeOK, PowerLoss, Release, Image
<1>3. LockInv'
  BY DEF LockInv, PowerLoss, Release
<1>4. BufferInv'
  BY NobodyOpen DEF BufferInv, BufferWhileOpen, PowerLoss, Release
<1>5. CacheInv'
  BY DEF CacheInv, PowerLoss, Release
<1> QED BY <1>2, <1>3, <1>4, <1>5 DEF IInv
-----------------------------------------------------------------------------
(* The invariant.                                                           *)

\* It holds when the chip is new.
LEMMA InitHolds == Init => IInv
<1> SUFFICES ASSUME Init PROVE IInv
  OBVIOUS
<1>1. TypeOK
  <2>1. buf \in Image \cup {NoBuf} /\ weak \in BOOLEAN /\ dirty \in BOOLEAN
        /\ timer \in {"none", "armed", "stale"}
    BY DEF Init
  <2>2. refs \in [Parts -> 0..MaxRefs] /\ opens \in Nat /\ failures \in 0..MaxFailures
    BY NorFlashAssumption DEF Init
  <2> QED BY <2>1, <2>2, Shapes, NorFlashAssumption DEF TypeOK, Init, Image
<1>2. LockInv
  BY DEF LockInv, Init
<1>3. BufferInv
  BY NobodyOpen DEF BufferInv, BufferWhileOpen, Init
<1>4. CacheInv
  BY DEF CacheInv, Init
<1> QED BY <1>1, <1>2, <1>3, <1>4 DEF IInv

\* A step that changes nothing keeps it.
LEMMA StutterKeeps == IInv /\ UNCHANGED vars => IInv'
<1> SUFFICES ASSUME IInv, UNCHANGED vars PROVE IInv'
  OBVIOUS
<1>1. TypeOK' /\ LockInv'
  BY DEF IInv, TypeOK, LockInv, vars
<1>2. BufferInv' /\ CacheInv'
  BY DEF IInv, BufferInv, BufferWhileOpen, CacheInv, SoFar, vars
<1> QED BY <1>1, <1>2 DEF IInv

\* Every step keeps it, if raw clients stay clear of the cached sectors.
LEMMA StepKeeps == Apart /\ IInv /\ [Next]_vars => IInv'
<1> SUFFICES ASSUME Apart, IInv, [Next]_vars PROVE IInv'
  OBVIOUS
<1>1. ASSUME NEW d \in Parts, Open(d) \/ Close(d) PROVE IInv'
  BY <1>1, OpenKeeps, CloseKeeps
<1>2. CASE WriteBegins
  BY <1>2, WriteBeginKeeps DEF WriteBegins
<1>3. CASE Load \/ Fill \/ SyncBegin \/ PowerLoss
  BY <1>3, LoadKeeps, FillKeeps, SyncBeginKeeps, PowerLossKeeps
<1>4. CASE WriteBack
  BY <1>4, EraseKeeps, ProgramKeeps, WrittenBackKeeps DEF WriteBack
<1>5. ASSUME NEW d \in Parts, NEW s \in Sector, NEW q \in Page, NEW v \in Value,
             RawWrite(d, s, q, v)
      PROVE  IInv'
  BY <1>5, RawWriteKeeps
<1>6. ASSUME NEW d \in Parts, NEW s \in Sector, IoctlErase(d, s) PROVE IInv'
  BY <1>6, IoctlEraseKeeps
<1>7. CASE UNCHANGED vars
  BY <1>7, StutterKeeps
<1> QED BY <1>1, <1>2, <1>3, <1>4, <1>5, <1>6, <1>7 DEF Next

\* The invariant holds in every reachable state.
THEOREM Invariance == Apart => (Spec => []IInv)
<1> SUFFICES ASSUME Apart PROVE Spec => []IInv
  OBVIOUS
<1>1. IInv /\ [Next]_vars => IInv'
  BY StepKeeps
<1> QED BY InitHolds, <1>1, PTL DEF Spec
-----------------------------------------------------------------------------
(* The properties.                                                          *)

\* The types are right.
THEOREM TypeCorrect == Apart => (Spec => []TypeOK)
<1>1. IInv => TypeOK
  BY DEF IInv
<1> QED BY Invariance, <1>1, PTL

\* No operation runs on a freed cache, and none leaves one behind.
THEOREM BufferKept == Apart => (Spec => []BufferWhileOpen)
<1>1. IInv => BufferWhileOpen
  BY DEF IInv, BufferInv
<1> QED BY Invariance, <1>1, PTL

\* A clean cache is what the chip holds.
THEOREM CleanWritten == Apart => (Spec => []CleanMeansWritten)
<1>1. IInv => CleanMeansWritten
  BY DEF IInv, LockInv, CacheInv, CleanMeansWritten, Idle
<1> QED BY Invariance, <1>1, PTL
-----------------------------------------------------------------------------
(* The driver implements FlashStore.                                        *)

\* A sector as clients see it.
Held(s) == IF s = addr /\ buf # NoBuf THEN buf ELSE flash[s]

\* Visible holds, for every sector, what Held says, and that is a sector.
HeldInv ==
  /\ Visible = [s \in CachedView |-> Held(s)]
  /\ \A s \in CachedView : Held(s) \in Image

\* So it is when the types are right.
LEMMA VisibleIs == TypeOK => HeldInv
<1> SUFFICES ASSUME TypeOK PROVE HeldInv
  OBVIOUS
<1>1. ASSUME NEW s \in CachedView
      PROVE  Held(s) \in Image /\ [q \in Page |-> ReadPage(s, s, q)] = Held(s)
  <2>1. Held(s) \in Image
    BY Shapes DEF Held, TypeOK, Image
  <2>2. \A q \in Page : ReadPage(s, s, q) = Held(s)[q]
    BY DEF Held, ReadPage
  <2> QED BY <2>1, <2>2 DEF Image
<1> QED BY <1>1 DEF Visible, HeldInv

\* The same after a step.
LEMMA VisibleNext == TypeOK' => HeldInv'
BY VisibleIs, PTL

\* The initial states are FlashStore's.
LEMMA StoreInit == Init => Store!Init
<1> SUFFICES ASSUME Init PROVE Store!Init
  OBVIOUS
<1>1. TypeOK
  BY InitHolds DEF IInv
<1>2. Visible \in [CachedView -> Image]
  BY <1>1, VisibleIs DEF HeldInv
<1>3. WeakSectors = {} /\ failures = 0
  BY DEF Init, WeakSectors
<1> QED BY <1>2, <1>3 DEF Store!Init, Store!Contents, Image

\* If no sector looks different, clients see no step.
LEMMA SeesNothing ==
  ASSUME TypeOK, TypeOK', \A s \in CachedView : Held(s)' = Held(s)
  PROVE  Visible' = Visible
BY VisibleIs, VisibleNext DEF HeldInv

\* If only the sector in the cache looks different, clients see it change.
LEMMA SeesOne ==
  ASSUME TypeOK, TypeOK', addr \in CachedView,
         \A s \in CachedView : s # addr => Held(s)' = Held(s)
  PROVE  \E c \in Image : Visible' = [Visible EXCEPT ![addr] = c]
<1> DEFINE c == Visible'[addr]
<1>1. /\ Visible = [s \in CachedView |-> Held(s)]
      /\ Visible' = [s \in CachedView |-> Held(s)']
      /\ \A s \in CachedView : Held(s)' \in Image
  BY VisibleIs, VisibleNext DEF HeldInv
<1>2. c \in Image
  BY <1>1
<1>3. Visible' = [Visible EXCEPT ![addr] = c]
  BY <1>1
<1> QED BY <1>2, <1>3

\* Nothing visible changes and the cache, if weak, is given up: clients see
\* the sector settle, or nothing.
LEMMA SettleSeen ==
  ASSUME IInv, IInv', \A s \in CachedView : s # addr \/ ~weak => Held(s)' = Held(s),
         ~weak', failures' = failures
  PROVE  [Store!Next]_(Store!vars)
<1>1. TypeOK /\ TypeOK'
  BY DEF IInv
<1>2. WeakSectors' = {}
  BY DEF WeakSectors
<1>3. CASE weak /\ addr \in CachedView
  <2>1. PICK c \in Image : Visible' = [Visible EXCEPT ![addr] = c]
    BY <1>1, <1>3, SeesOne
  <2>2. WeakSectors = {addr}
    BY <1>3 DEF WeakSectors
  <2> QED BY <1>2, <2>1, <2>2 DEF Store!Next, Store!Settle, Store!Contents, Image
<1>4. CASE ~(weak /\ addr \in CachedView)
  <2>1. Visible' = Visible
    BY <1>1, <1>4, SeesNothing
  <2>2. WeakSectors = {}
    BY <1>4 DEF WeakSectors
  <2> QED BY <1>2, <2>1, <2>2 DEF Store!vars
<1> QED BY <1>3, <1>4

\* A failure is counted, and no sector but that in the cache looks different.
LEMMA FailSeen ==
  ASSUME IInv, IInv', \A s \in CachedView : s # addr => Held(s)' = Held(s),
         failures' = failures + 1, WeakSectors' \in {{}, {addr}}
  PROVE  Store!Next
<1>1. TypeOK /\ TypeOK'
  BY DEF IInv
<1>2. CASE addr \in CachedView
  <2>1. PICK c \in Image : Visible' = [Visible EXCEPT ![addr] = c]
    BY <1>1, <1>2, SeesOne
  <2>2. WeakSectors \subseteq {addr}
    BY DEF WeakSectors
  <2>3. Store!Fail
    BY <1>2, <2>1, <2>2 DEF Store!Fail, Store!Contents, Image
  <2> QED BY <2>3 DEF Store!Next
<1>3. CASE addr \notin CachedView
  <2>1. Visible' = Visible
    BY <1>1, <1>3, SeesNothing
  <2>2. WeakSectors = {} /\ WeakSectors' = {}
    BY <1>3 DEF WeakSectors
  <2>3. Store!Fail
    BY <2>1, <2>2 DEF Store!Fail
  <2> QED BY <2>3 DEF Store!Next
<1> QED BY <1>2, <1>3

\* Steps that touch neither chip nor cache are invisible.
LEMMA CalmSeen ==
  ASSUME UNCHANGED <<flash, addr, buf, weak, failures>>
  PROVE  [Store!Next]_(Store!vars)
<1>1. Visible' = Visible
  BY DEF Visible, ReadPage
<1>2. WeakSectors' = WeakSectors
  BY DEF WeakSectors
<1> QED BY <1>1, <1>2 DEF Store!vars

\* Opening fills the buffer with what the chip holds.
LEMMA OpenSeen ==
  ASSUME IInv, IInv', NEW d \in Parts, Open(d)
  PROVE  [Store!Next]_(Store!vars)
<1>1. CASE opens = 0 /\ refs[d] = 0
  <2>1. buf = NoBuf /\ ~weak /\ weak' = weak
    BY <1>1 DEF IInv, LockInv, BufferInv, BufferWhileOpen, Open, Idle
  <2>2. \A s \in CachedView : Held(s)' = Held(s)
    BY <1>1, <2>1 DEF Held, Open
  <2> QED BY <2>1, <2>2, SettleSeen DEF Open
<1>2. CASE ~(opens = 0 /\ refs[d] = 0)
  <2>1. refs[d] \in Nat
    BY NorFlashAssumption DEF IInv, TypeOK
  <2> QED BY <1>2, <2>1, CalmSeen DEF Open
<1> QED BY <1>1, <1>2

\* The buffer goes away, or another sector comes in, when the chip holds what
\* it held, unless a write-back failed.
LEMMA LeaveSeen ==
  ASSUME IInv, IInv', buf # NoBuf, UNCHANGED <<flash, failures>>, ~weak',
         ~weak /\ addr \in CachedView => buf = flash[addr],
         buf' = NoBuf \/ buf' = flash[addr']
  PROVE  [Store!Next]_(Store!vars)
<1>1. \A s \in CachedView : Held(s)' = flash[s]
  BY DEF Held
<1>2. \A s \in CachedView : s # addr \/ ~weak => Held(s) = flash[s]
  BY DEF Held
<1> QED BY <1>1, <1>2, SettleSeen

\* Closing with a clean cache gives it up; the rest is invisible.
LEMMA CloseSeen ==
  ASSUME IInv, IInv', NEW d \in Parts, Close(d)
  PROVE  [Store!Next]_(Store!vars)
<1>1. pc = "idle" /\ buf # NoBuf
  BY OpenCounted DEF IInv, LockInv, BufferInv, BufferWhileOpen, Close, Idle
<1>2. \/ UNCHANGED <<flash, addr, buf, weak, failures>>
      \/ UNCHANGED <<flash, failures>> /\ ~dirty /\ buf' = NoBuf /\ ~weak'
  BY DEF Close
<1> QED BY <1>1, <1>2, CalmSeen, LeaveSeen DEF IInv, CacheInv

\* Loading gives up the sector that was in the cache.
LEMMA LoadSeen ==
  ASSUME IInv, IInv', Load
  PROVE  [Store!Next]_(Store!vars)
<1>1. pc = "load" /\ ~dirty /\ buf # NoBuf
  BY DEF IInv, LockInv, BufferInv, CacheInv, Load
<1>2. ~weak /\ addr \in CachedView => buf = flash[addr]
  BY <1>1 DEF IInv, CacheInv
<1>3. UNCHANGED <<flash, failures>> /\ ~weak' /\ buf' = flash[addr']
  BY DEF Load
<1> QED BY <1>1, <1>2, <1>3, LeaveSeen

\* Filling is the write clients see.
LEMMA FillSeen ==
  ASSUME IInv, IInv', Fill
  PROVE  [Store!Next]_(Store!vars)
<1> DEFINE P == {q \in Page : q >= req.p /\ q < SegmentEnd}
<1>1. /\ op = "write" /\ addr = req.s /\ addr \in CachedView /\ buf \in Image
      /\ req.v \in Value /\ buf' \in Image
  BY FillType, RequestShape
<1>2. /\ buf' = [q \in Page |-> IF q \in P THEN req.v ELSE buf[q]]
      /\ UNCHANGED <<flash, addr, weak, failures>>
  BY DEF Fill
<1>3. /\ Visible = [s \in CachedView |-> Held(s)]
      /\ Visible' = [s \in CachedView |-> Held(s)']
  BY VisibleIs, VisibleNext DEF IInv, HeldInv
<1>4. /\ Held(addr) = buf /\ Held(addr)' = buf'
      /\ \A s \in CachedView : s # addr => Held(s)' = Held(s)
  BY <1>1, <1>2, Shapes DEF Held
<1>5. Visible' = [Visible EXCEPT ![addr] = [q \in Page |-> IF q \in P THEN req.v ELSE @[q]]]
  BY <1>1, <1>2, <1>3, <1>4
<1>6. WeakSectors' = WeakSectors
  BY <1>2 DEF WeakSectors
<1>7. Store!Write(addr, P, req.v)
  BY <1>2, <1>5, <1>6 DEF Store!Write
<1> QED BY <1>1, <1>7 DEF Store!Next

\* While the sector in the cache is written back, clients see the buffer.
LEMMA UnderCache ==
  ASSUME IInv, IInv', buf # NoBuf, UNCHANGED <<addr, buf>>,
         \A s \in Sector : s # addr => flash'[s] = flash[s]
  PROVE  \A s \in CachedView : Held(s)' = Held(s)
BY Shapes DEF Held

\* Erasing is invisible, settles a weak sector, or fails.
LEMMA EraseSeen ==
  ASSUME IInv, IInv', EraseSector
  PROVE  [Store!Next]_(Store!vars)
<1>1. PICK k \in Waits :
        /\ flash' = IF Done(k) THEN [flash EXCEPT ![Target] = Blank] ELSE flash
        /\ Counts(k, FALSE)
  BY DEF EraseSector
<1>2. buf # NoBuf /\ addr \in CachedView /\ UNCHANGED <<addr, buf>>
  BY DEF IInv, LockInv, BufferInv, CacheInv, EraseSector
<1>3. \A s \in Sector : s # addr => flash'[s] = flash[s]
  BY <1>1 DEF IInv, TypeOK, Target
<1>4. \A s \in CachedView : Held(s)' = Held(s)
  BY <1>2, <1>3, UnderCache
<1>5. CASE Failed(k)
  <2>1. failures' = failures + 1 /\ WeakSectors' = {addr}
    BY <1>1, <1>2, <1>5 DEF Counts, WeakSectors
  <2> QED BY <1>4, <2>1, FailSeen
<1>6. CASE ~Failed(k)
  <2>1. failures' = failures /\ ~weak'
    BY <1>1, <1>6 DEF Counts
  <2> QED BY <1>4, <2>1, SettleSeen
<1> QED BY <1>5, <1>6

\* Programming a page is invisible, or fails.
LEMMA ProgramSeen ==
  ASSUME IInv, IInv', ProgramPage
  PROVE  [Store!Next]_(Store!vars)
<1>1. PICK k \in Waits :
        /\ flash' = IF Done(k)
                    THEN [flash EXCEPT ![addr][page] = Program(@, buf[page])] ELSE flash
        /\ Counts(k, weak)
  BY DEF ProgramPage
<1>2. buf # NoBuf /\ addr \in CachedView /\ UNCHANGED <<addr, buf>>
  BY DEF IInv, LockInv, BufferInv, CacheInv, ProgramPage
<1>3. \A s \in Sector : s # addr => flash'[s] = flash[s]
  BY <1>1 DEF IInv, TypeOK
<1>4. \A s \in CachedView : Held(s)' = Held(s)
  BY <1>2, <1>3, UnderCache
<1>5. CASE Failed(k)
  <2>1. failures' = failures + 1 /\ WeakSectors' = {addr}
    BY <1>1, <1>2, <1>5 DEF Counts, WeakSectors
  <2> QED BY <1>4, <2>1, FailSeen
<1>6. CASE ~Failed(k)
  <2>1. failures' = failures /\ (weak' <=> weak)
    BY <1>1, <1>6 DEF Counts
  <2>2. WeakSectors' = WeakSectors
    BY <1>2, <2>1 DEF WeakSectors
  <2>3. Visible' = Visible
    BY <1>4, SeesNothing DEF IInv
  <2> QED BY <2>1, <2>2, <2>3 DEF Store!vars
<1> QED BY <1>5, <1>6

\* The end of a write-back is invisible, or the close gives up the cache.
LEMMA WrittenBackSeen ==
  ASSUME IInv, IInv', WrittenBack
  PROVE  [Store!Next]_(Store!vars)
<1>1. buf # NoBuf /\ (~weak => buf = flash[addr])
  BY WrittenBackMatches
<1>2. UNCHANGED <<flash, addr, failures>>
      /\ (UNCHANGED <<buf, weak>> \/ (buf' = NoBuf /\ ~weak'))
  BY DEF WrittenBack, AfterSync, AfterClose, AfterEvict, AfterSegment
<1> QED BY <1>1, <1>2, CalmSeen, LeaveSeen

\* Power loss is a failure; the sector that was in the cache may be lost.
LEMMA PowerLossSeen ==
  ASSUME IInv, IInv', PowerLoss
  PROVE  [Store!Next]_(Store!vars)
<1>1. buf' = NoBuf /\ ~weak' /\ failures' = failures + 1
  BY DEF PowerLoss
<1>2. \A s \in Sector : s # addr => flash'[s] = flash[s]
  BY DEF IInv, TypeOK, PowerLoss
<1>3. \A s \in CachedView : s # addr => Held(s)' = Held(s)
  BY <1>1, <1>2, Shapes DEF Held
<1>4. WeakSectors' = {}
  BY <1>1 DEF WeakSectors
<1> QED BY <1>1, <1>3, <1>4, FailSeen

\* Raw writes and erases elsewhere are invisible.
LEMMA ElsewhereSeen ==
  ASSUME IInv, IInv', NEW s \in Sector, s \notin CachedView, NEW c,
         flash' = [flash EXCEPT ![s] = c], UNCHANGED <<addr, buf, weak, failures>>
  PROVE  [Store!Next]_(Store!vars)
<1>1. \A t \in CachedView : flash'[t] = flash[t]
  BY Shapes DEF IInv, TypeOK
<1>2. \A t \in CachedView : Held(t)' = Held(t)
  BY <1>1 DEF Held
<1>3. Visible' = Visible
  BY <1>2, SeesNothing DEF IInv
<1>4. WeakSectors' = WeakSectors
  BY DEF WeakSectors
<1> QED BY <1>3, <1>4 DEF Store!vars

\* Every step of the driver is a step of FlashStore, or invisible.
LEMMA StoreStep == Apart /\ IInv /\ [Next]_vars => [Store!Next]_(Store!vars)
<1> SUFFICES ASSUME Apart, IInv, [Next]_vars PROVE [Store!Next]_(Store!vars)
  OBVIOUS
<1>0. IInv'
  BY StepKeeps
<1>1. ASSUME NEW d \in Parts, Open(d) \/ Close(d) PROVE [Store!Next]_(Store!vars)
  BY <1>0, <1>1, OpenSeen, CloseSeen
<1>2. CASE WriteBegins
  BY <1>2, CalmSeen DEF WriteBegins, WriteBegin
<1>3. CASE SyncBegin
  BY <1>3, CalmSeen DEF SyncBegin
<1>4. CASE Load \/ Fill \/ PowerLoss
  BY <1>0, <1>4, LoadSeen, FillSeen, PowerLossSeen
<1>5. CASE WriteBack
  BY <1>0, <1>5, EraseSeen, ProgramSeen, WrittenBackSeen DEF WriteBack
<1>6. ASSUME NEW d \in Parts, NEW s \in Sector, NEW q \in Page, NEW v \in Value,
             RawWrite(d, s, q, v)
      PROVE  [Store!Next]_(Store!vars)
  <2>1. s \notin CachedView
    BY <1>6 DEF Apart, RawWrite
  <2> DEFINE c == [flash[s] EXCEPT ![q] = Program(@, v)]
  <2>2. flash' = [flash EXCEPT ![s] = c]
    BY <1>6 DEF RawWrite
  <2> HIDE DEF c
  <2> QED BY <1>0, <1>6, <2>1, <2>2, ElsewhereSeen DEF RawWrite, cache
<1>7. ASSUME NEW d \in Parts, NEW s \in Sector, IoctlErase(d, s)
      PROVE  [Store!Next]_(Store!vars)
  <2>1. s \notin CachedView
    BY <1>7 DEF Apart, IoctlErase
  <2> QED BY <1>0, <1>7, <2>1, ElsewhereSeen DEF IoctlErase, cache
<1>8. CASE UNCHANGED vars
  BY <1>8, CalmSeen DEF vars
<1> QED BY <1>1, <1>2, <1>3, <1>4, <1>5, <1>6, <1>7, <1>8 DEF Next

\* The cached view of the driver keeps the promise of FlashStore, for every
\* chip, client and failure, as long as nobody goes past the cache to its
\* sectors.
THEOREM DriverIsStore == Apart => (Spec => StoreSpec)
<1> SUFFICES ASSUME Apart PROVE Spec => StoreSpec
  OBVIOUS
<1>1. IInv /\ [Next]_vars => [Store!Next]_(Store!vars)
  BY StoreStep
<1>2. Spec => []IInv
  BY Invariance
<1> QED BY StoreInit, <1>1, <1>2, PTL DEF Spec, StoreSpec, Store!Spec
\* Every step that holds the mutex works on the sector in the cache, and that
\* one is only written back when it belongs to a cached partition.
LEMMA StepRaw ==
  ASSUME IInv, Next, ~Idle, NEW s \in Sector, s \notin CachedView
  PROVE  flash'[s] = flash[s]
<1>1. pc \in {"erase", "prog"} => s # addr
  BY DEF IInv, CacheInv
<1>2. flash \in [Sector -> Image]
  BY DEF IInv, TypeOK, Image
<1>3. ~WriteBegins /\ ~SyncBegin /\ (\A d \in Parts : ~Open(d) /\ ~Close(d))
  BY DEF WriteBegins, WriteBegin, SyncBegin, Open, Close
<1>4. /\ ~\E d \in Parts, t \in Sector, q \in Page, v \in Value : RawWrite(d, t, q, v)
      /\ ~\E d \in Parts, t \in Sector : IoctlErase(d, t)
  BY DEF RawWrite, IoctlErase
<1>5. CASE Load \/ Fill \/ WrittenBack
  BY <1>5 DEF Load, Fill, WrittenBack
<1>6. CASE EraseSector
  BY <1>1, <1>2, <1>6 DEF EraseSector, Target
<1>7. CASE ProgramPage
  BY <1>1, <1>2, <1>7 DEF ProgramPage
<1>8. CASE PowerLoss
  BY <1>1, <1>2, <1>8 DEF PowerLoss
<1> QED BY <1>3, <1>4, <1>5, <1>6, <1>7, <1>8 DEF Next, WriteBack

\* Nothing the driver does on its own touches a raw partition, whatever command
\* takes too long and wherever power goes.
THEOREM RawSafe == Apart => (Spec => RawKept)
<1> SUFFICES ASSUME Apart PROVE Spec => RawKept
  OBVIOUS
<1>1. IInv /\ [Next]_vars
        => [\A s \in Sector \ CachedView : flash'[s] # flash[s] => Idle]_vars
  BY StepRaw
<1> QED BY Invariance, <1>1, PTL DEF Spec, RawKept
-----------------------------------------------------------------------------
(* What depends on how long commands take.                                  *)

\* No callback has kept the id of a timer that is gone.
ArmedInv == timer # "stale" /\ SyncArmed

\* If no command ends at the last poll, dirty data have a timer.
THEOREM DirtyIsArmed == Apart /\ Polls \notin Waits => (Spec => []SyncArmed)
<1> SUFFICES ASSUME Apart, Polls \notin Waits PROVE Spec => []SyncArmed
  OBVIOUS
<1>1. Init => ArmedInv
  BY DEF Init, ArmedInv, SyncArmed
<1>2. IInv /\ ArmedInv /\ [Next]_vars => ArmedInv'
  <2> SUFFICES ASSUME IInv, ArmedInv, [Next]_vars PROVE ArmedInv'
    OBVIOUS
  <2>1. ASSUME NEW k \in Waits PROVE ~WaitFails(k)
    BY NorFlashAssumption DEF WaitFails, Left
  <2>2. ASSUME UNCHANGED <<dirty, timer>> PROVE ArmedInv'
    BY <2>2 DEF ArmedInv, SyncArmed
  <2>3. ASSUME NEW d \in Parts, Open(d) \/ Close(d) PROVE ArmedInv'
    BY <2>3 DEF ArmedInv, SyncArmed, Open, Close
  <2>4. CASE WriteBegins
    BY <2>4 DEF WriteBegins, WriteBegin, ArmedInv, SyncArmed
  <2>5. CASE Load
    BY <2>2, <2>5 DEF Load
  <2>6. CASE Fill
    BY <2>6 DEF IInv, TypeOK, Fill, Rearm, ArmedInv, SyncArmed
  <2>7. CASE SyncBegin
    BY <2>7 DEF SyncBegin, ArmedInv, SyncArmed
  <2>8. CASE EraseSector
    <3>1. UNCHANGED <<dirty, timer>>
      BY <2>1, <2>8 DEF EraseSector
    <3> QED BY <2>2, <3>1
  <2>9. CASE ProgramPage
    BY <2>2, <2>9 DEF ProgramPage
  <2>10. CASE WrittenBack
    <3>1. ~dirty' /\ timer' \in {timer, "none"}
      BY <2>10, WrittenBackMatches DEF WrittenBack, AfterSync, AfterClose, AfterEvict,
         AfterSegment
    <3> QED BY <3>1 DEF ArmedInv, SyncArmed
  <2>11. CASE PowerLoss
    BY <2>11 DEF PowerLoss, ArmedInv, SyncArmed
  <2>12. ASSUME NEW d \in Parts, NEW s \in Sector, NEW q \in Page, NEW v \in Value,
                RawWrite(d, s, q, v)
         PROVE  ArmedInv'
    BY <2>2, <2>12 DEF RawWrite, cache
  <2>13. ASSUME NEW d \in Parts, NEW s \in Sector, IoctlErase(d, s) PROVE ArmedInv'
    BY <2>2, <2>13 DEF IoctlErase, cache
  <2>14. CASE UNCHANGED vars
    BY <2>2, <2>14 DEF vars
  <2> QED BY <2>3, <2>4, <2>5, <2>6, <2>7, <2>8, <2>9, <2>10, <2>11, <2>12, <2>13,
             <2>14 DEF Next, WriteBack
<1>3. ArmedInv => SyncArmed
  BY DEF ArmedInv
<1> QED BY Invariance, <1>1, <1>2, <1>3, PTL DEF Spec
=============================================================================

-------------------------------- MODULE RecFs --------------------------------
(***************************************************************************)
(* The recording file system on raw NOR flash (nor_rec_fs.c, with its file   *)
(* operations in nor_interface.c), and the recorder that writes it           *)
(* (encode_write_file.c).                                                    *)
(*                                                                         *)
(* Recordings follow each other round a ring of sectors.  A recording gets   *)
(* its header, in its first sector, when it is closed; sectors are erased    *)
(* one by one as it grows.  Power can go between any two flash commands.     *)
(* Sizes and positions are bytes; of the bytes in a sector only their        *)
(* recording is kept.                                                        *)
(***************************************************************************)
EXTENDS Integers, FiniteSets

CONSTANTS
  Capacity,    \* bytes of the partition
  S,           \* bytes of a sector (4096)
  H,           \* bytes of a header (32)
  IndexMod,    \* 2^16, indices are u16
  LenMod,      \* 2^16, lengths of a write are u16
  Frames,      \* bytes the recorder writes at a time (input_frame_len)
  Heads,       \* bytes of the format's own head, rewritten at the end
  Cut,         \* bytes cut from the end of a recording (cut_size)
  Limit,       \* shortest recording that is kept (limit_size)
  PlayLost,    \* may a recording be played that was not kept?
  MaxMade,     \* bound: recordings made
  NoFile,      \* no open file
  NoHead       \* no valid header in a sector

\* nor_fs_mount: first_sector and last_sector.
First == 1
Last == Capacity \div (S - 1)
Ring == First..Last
Total == (Last + 1 - First) * S

\* Sector 0 is no part of the ring; numbers beyond the partition can be.
Sector == 0..Last

ASSUME RecFsAssumption ==
  /\ Capacity \in Nat /\ S \in Nat /\ H \in 1..(S - 1) /\ Last >= First
  /\ IndexMod \in Nat \ {0} /\ LenMod \in Nat \ {0}
  /\ Frames \subseteq 1..S /\ Heads \subseteq 0..(S - H)
  /\ Cut \in Nat /\ Cut >= H /\ Limit \in Nat
  /\ PlayLost \in BOOLEAN /\ MaxMade \in Nat

Blank == 0               \* an erased sector
Junk == MaxMade + 1      \* a sector programmed over other data
Gen == 1..MaxMade        \* recordings, in the order they were begun

VARIABLES
  head,       \* headers on flash, sector by sector
  owner,      \* the recording whose data a sector holds
  newest,     \* pfs->index: index and sector of the newest recording
  last,       \* nor_fs_index: index of the recording that a playback opens
  file,       \* the recording being written, or NoFile
  mounted,    \* the partition is mounted
  made,       \* recordings begun so far
  lost        \* history: the recording begun last was not kept

vars == <<head, owner, newest, last, file, mounted, made, lost>>
flash == <<head, owner>>
-----------------------------------------------------------------------------
(* Headers and sectors.                                                     *)

\* crc and length test of rec_pfs_scan, nor_check_head, recfile_index_scan.
Valid(s) == head[s] # NoHead /\ head[s].len <= Total

\* Sectors that n bytes take.
Sectors(n) == n \div S + (IF n % S = 0 THEN 0 ELSE 1)

\* A recording goes on at the first sector when it reaches the last one.
Around(s) == IF s > Last THEN s - Last + First - 1 ELSE s
Turned(s) == IF s > Last THEN First + ((s - Last - 1) % (Last + 1 - First)) ELSE s

\* How far both scans move on from sector s.
Jump(s) == IF Valid(s) /\ head[s].len > 0 THEN Sectors(head[s].len) ELSE 1

\* Sectors rec_pfs_scan looks at, jump by jump from the first one up: the least
\* set that it does not leave.
Onward(R) == \A s \in R : s + Jump(s) \in Ring => s + Jump(s) \in R
Reached == {s \in Ring : \A R \in SUBSET Ring : First \in R /\ Onward(R) => s \in R}

Found == {s \in Reached : Valid(s)}

\* Its result: the largest index, of equal ones the last.
LatestFirst(a, b) == a <= b                    \* mutant: the first one found
Latest(a, b) ==
  head[a].index > head[b].index \/ (head[a].index = head[b].index /\ a >= b)

NewestFound == CHOOSE s \in Found : \A t \in Found : Latest(s, t)

EmptyAtZero == [index |-> 0, sector |-> 0]     \* mutant
Empty == [index |-> 0, sector |-> First]

Holds(s, i) == Valid(s) /\ head[s].index = i

\* Sectors recfile_index_scan looks at for index i, from p round the ring until it
\* holds the index, and those it has found.
Step(s) == IF s + Jump(s) > Last THEN First ELSE s + Jump(s)
Walk(i, p) ==
  {s \in Sector : \A R \in SUBSET Sector :
     p \in R /\ (\A t \in R : Holds(t, i) \/ Step(t) \in R) => s \in R}
Search(i, p) == {s \in Walk(i, p) : Holds(s, i)}

\* It stops: the index is found, or the sector it began at is met again.
Stops(i, p) == Search(i, p) # {} \/ \E s \in Walk(i, p) : Step(s) = p

\* recpfs_erase_sector for one sector; one that is not in the ring is refused.
Erase(s) ==
  IF s \in Ring
  THEN /\ head' = [head EXCEPT ![s] = NoHead]
       /\ owner' = [owner EXCEPT ![s] = Blank]
  ELSE UNCHANGED flash
-----------------------------------------------------------------------------
(* Mount, create, write.                                                    *)

\* nor_fs_mount with rec_pfs_scan.
Mount ==
  /\ ~mounted
  /\ mounted' = TRUE
  /\ newest' = IF Found = {} THEN Empty
               ELSE [index |-> head[NewestFound].index, sector |-> NewestFound]
  /\ last' = newest'.index
  /\ file' = NoFile /\ lost' = FALSE
  /\ UNCHANGED <<flash, made>>

\* nor_check_head and the turn after it in create_nor_recfile.
AfterUnturned(p) == IF Valid(p) THEN p + Sectors(head[p].len) ELSE p     \* mutant
After(p) == IF Valid(p) THEN Around(p + Sectors(head[p].len)) ELSE p

\* nor_fs_open(..., "w") for the recorder: create_nor_recfile.
Create ==
  /\ mounted /\ file = NoFile /\ made < MaxMade
  /\ LET s == After(newest.sector)
         i == (newest.index + 1) % IndexMod
     IN /\ Erase(s)
        /\ file' = [sector |-> s, index |-> i, len |-> IF s \in Ring THEN S ELSE 0,
                    rw |-> H, busy |-> 0, stop |-> FALSE]
        /\ last' = i
  /\ made' = made + 1 /\ lost' = FALSE
  /\ UNCHANGED <<newest, mounted>>

\* The recorder's task has a frame of n bytes for fwrite.
WriteBegin(n) ==
  /\ file # NoFile /\ file.busy = 0 /\ ~file.stop
  /\ file' = [file EXCEPT !.busy = n]
  /\ UNCHANGED <<flash, newest, last, mounted, made, lost>>

Writing == file # NoFile /\ file.busy > 0

\* The sector recfile_write erases next; its own first one ends the ring.
GrowthUnturned(f) == f.sector + Sectors(f.len)        \* mutant
Growth(f) == Around(f.sector + Sectors(f.len))

Grows(f) == f.rw + f.busy > f.len /\ Growth(f) # f.sector

Extend ==
  /\ Writing /\ Grows(file)
  /\ Erase(Growth(file))
  /\ file' = [file EXCEPT !.len = @ + S]
  /\ UNCHANGED <<newest, last, mounted, made, lost>>

\* Bytes recfile_write programs; what is left of the room is taken as a u16.
Fits(f) == IF f.rw + f.busy > f.len THEN (f.len - f.rw) % LenMod ELSE f.busy

\* The sectors of n bytes from position p of f.
Touched(f, p, n) == {Turned(f.sector + k) : k \in (p \div S)..((p + n - 1) \div S)}

\* Programming only clears bits: it spoils what another recording left.
Program ==
  /\ Writing /\ ~Grows(file)
  /\ LET n == Fits(file)
         T == IF n = 0 THEN {} ELSE Touched(file, file.rw, n)
         Mine(s) == owner[s] \in {Blank, made}
     IN /\ owner' = [s \in Sector |-> IF s \notin T THEN owner[s]
                                      ELSE IF Mine(s) THEN made ELSE Junk]
        /\ head' = [s \in Sector |-> IF s \in T /\ ~Mine(s) THEN NoHead ELSE head[s]]
        /\ file' = [file EXCEPT !.rw = @ + n, !.busy = 0,
                      !.stop = n # file.busy \/ file.rw + n + file.busy > Capacity - S]
  /\ UNCHANGED <<newest, last, mounted, made, lost>>
-----------------------------------------------------------------------------
(* The end of a recording, and its playback.                                *)

\* enc_write_file_close: what is left after the cut, h bytes of format head.
Left(f) == f.rw - Cut
TooShort(f, h) == Left(f) <= 0 \/ Left(f) <= Limit \/ (h > 0 /\ Left(f) <= h)

\* recfile_seek from the start of the file; beyond its end it does nothing.
Seek(f, n) == IF n >= f.len THEN f ELSE [f EXCEPT !.rw = n + H]

\* The head is written over its placeholder, then the end is found again.
AtEnd(f, h) ==
  LET g == IF h > 0 THEN LET b == Seek(f, 0) IN [b EXCEPT !.rw = @ + h] ELSE f
  IN Seek(g, Left(f))

Stopped(f) == f # NoFile /\ f.busy = 0

\* fclose: close_nor_recfile programs the header.
Close(h) ==
  /\ Stopped(file) /\ ~TooShort(file, h)
  /\ LET f == AtEnd(file, h)
     IN head' = [head EXCEPT ![f.sector] = [index |-> f.index, len |-> f.rw, gen |-> made]]
  /\ newest' = [index |-> file.index, sector |-> file.sector]
  /\ file' = NoFile
  /\ UNCHANGED <<owner, last, mounted, made, lost>>

\* fdelete: the file system has no such operation, the file is just dropped.
Discard ==
  /\ Stopped(file) /\ \E h \in Heads : TooShort(file, h)
  /\ file' = NoFile /\ lost' = TRUE
  /\ UNCHANGED <<flash, newest, last, mounted, made>>

\* nor_fs_open(..., "r"), which looks at no result, and nor_fs_close.
Play ==
  /\ mounted /\ file = NoFile /\ last # 0
  /\ lost => PlayLost
  /\ Stops(last, newest.sector)
  /\ IF Search(last, newest.sector) = {}
     THEN newest' = [index |-> 0, sector |-> 0]
     ELSE \E s \in Search(last, newest.sector) :
            newest' = [index |-> last, sector |-> s]
  /\ UNCHANGED <<flash, last, file, mounted, made, lost>>

\* Power goes: of all variables only the flash remains.
PowerLoss ==
  /\ mounted
  /\ mounted' = FALSE
  /\ newest' = Empty /\ last' = 0 /\ file' = NoFile /\ lost' = FALSE
  /\ UNCHANGED <<flash, made>>

Init ==
  /\ head = [s \in Sector |-> NoHead]
  /\ owner = [s \in Sector |-> Blank]
  /\ newest = Empty /\ last = 0 /\ file = NoFile
  /\ mounted = FALSE /\ made = 0 /\ lost = FALSE

Next ==
  \/ Mount \/ Create \/ Extend \/ Program
  \/ \E n \in Frames : WriteBegin(n)
  \/ \E h \in Heads : Close(h)
  \/ Discard \/ Play \/ PowerLoss

Spec == Init /\ [][Next]_vars
-----------------------------------------------------------------------------
(* Properties.                                                              *)

Files == [sector : Sector, index : 0..(IndexMod - 1), len : Nat, rw : Nat,
          busy : Nat, stop : BOOLEAN]
Headers == [index : 0..(IndexMod - 1), len : Nat, gen : Gen]

\* No file and no header are neither.
ASSUME AbsenceAssumption == NoFile \notin Files /\ NoHead \notin Headers

\* Every variable has its type: no position leaves the ring unnoticed.
TypeOK ==
  /\ head \in [Sector -> Headers \cup {NoHead}]
  /\ owner \in [Sector -> 0..Junk]
  /\ newest \in [index : 0..(IndexMod - 1), sector : Sector]
  /\ last \in 0..(IndexMod - 1)
  /\ file \in Files \cup {NoFile}
  /\ mounted \in BOOLEAN /\ made \in 0..MaxMade /\ lost \in BOOLEAN

\* A recording that a mount finds is whole: every sector its length covers
\* holds its own data, and not what a later recording, closed or cut off by a
\* power loss, or an earlier one has left there.
WholeRecordings ==
  \A s \in Found : \A k \in 0..(Sectors(head[s].len) - 1) :
    owner[Turned(s + k)] = head[s].gen

\* While the partition is mounted and no recording runs, the index in RAM
\* stands for the youngest recording on flash.
NewestKnown ==
  mounted /\ file = NoFile /\ Found # {} =>
    /\ newest.sector \in Found
    /\ \A s \in Found : head[s].gen <= head[newest.sector].gen

\* The search for a recording by its index comes to an end ("if the sector it
\* began at is met, break"), found or not.
SearchEnds ==
  mounted /\ file = NoFile /\ last # 0 => Stops(last, newest.sector)

\* A new recording starts in a sector of the ring ("@return the next valid
\* sector", nor_check_head).
StartsInRing == file # NoFile => file.sector \in Ring

\* Closed recordings are kept until the ring needs their space, oldest first,
\* through power loss, discarded recordings and playbacks.
Log == INSTANCE RecordingLog WITH
  Recording <- Gen, kept <- {head[s].gen : s \in Found}
LogSpec == Log!Spec
=============================================================================

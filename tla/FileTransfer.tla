---------------------------- MODULE FileTransfer ----------------------------
(***************************************************************************)
(* The download of one file from the phone app to the active storage       *)
(* device over RCSP (file_transfer.c), with the smartbox action mode that   *)
(* hosts it (smartbox_task.c).                                              *)
(*                                                                         *)
(* The file is moved in 512-byte blocks.  Blocks 1, 2, ... are pulled in    *)
(* windows and appended; block 0 is pulled last, and until then block 0 of  *)
(* the file on disk holds the resume mark ("JL_FTP" and the offset reached).*)
(* Then the whole file is read back and its CRC compared, a few blocks per  *)
(* queued callback, and only then is it renamed to its final name.          *)
(*                                                                         *)
(* All handlers, timers and queued callbacks run in the app_core task, so   *)
(* each is one action; what interleaves is their order.                     *)
(***************************************************************************)
EXTENDS Naturals, Sequences

CONSTANTS
  Contents,   \* the contents the app may send, all under the same file name
  Size,       \* Size[c]: blocks in content c, a partial last block included
  Remain,     \* Remain[c]: 1 if the last block of c is partial, else 0
  Windows,    \* packets per pull the receive buffer may have room for
  LastBlock,  \* bound: number of the last block of the longest content
  CheckMax,   \* blocks checked per callback (FTP_FILE_CRC_CAC_MAX_COUNTER)
  Faults,     \* the failures the environment may inject, see AllFaults
  MaxStarts,  \* bound: transfers the app prepares
  MaxLoss,    \* bound: data packets lost on the way to the device
  NoFtp,      \* ftp_d == NULL
  NoFile,     \* no content announced yet (file_size = file_crc = 0)
  Absent,     \* no file under the download name
  Mark,       \* tag of a block that holds the resume mark
  Junk        \* tag of a block that was never written

AllFaults == {"send", "write", "open", "rename", "nodev", "nobuf", "key",
              "power", "link", "cancel", "restart", "late"}

ASSUME ConstantsAssumption ==
  /\ LastBlock \in Nat
  /\ Size \in [Contents -> 1..(LastBlock + 1)]
  /\ Remain \in [Contents -> {0, 1}]
  /\ Windows \subseteq Nat \ {0}
  /\ CheckMax \in Nat \ {0, 1}
  /\ Faults \subseteq AllFaults
  /\ MaxStarts \in Nat /\ MaxLoss \in Nat
  /\ NoFile \notin Contents /\ Mark \notin Contents /\ Junk \notin Contents
  /\ Mark # Junk

VARIABLES
  ftp,        \* *ftp_d, or NoFtp
  disk,       \* the file under the download name: block -> data, or Absent
  published,  \* the renamed files, oldest first
  task,       \* is the smartbox action mode the current mode?
  calls,      \* check callbacks waiting in the app_core queue
  marks,      \* periodic mark timers armed in the system
  net,        \* messages on their way from the app, handled in order
  toApp,      \* commands on their way to the app
  app,        \* the app's side of the transfer
  up,         \* is the RCSP link up?
  starts,     \* transfers prepared so far
  losses      \* data packets lost so far

device == <<ftp, disk, published, task, calls, marks>>
vars == <<ftp, disk, published, task, calls, marks, net, toApp, app, up,
          starts, losses>>
-----------------------------------------------------------------------------
(* Blocks, files and the fields of struct __ftp_download.                  *)

Block == (Contents \cup {Mark, Junk}) \X Nat
File  == [0..LastBlock -> Block]
Blank == [i \in 0..LastBlock |-> <<Junk, 0>>]

SizeOf(c) == IF c = NoFile THEN 0 ELSE Size[c]
RemainOf(c) == IF c = NoFile THEN 0 ELSE Remain[c]

\* What reading all blocks of the announced file should give (file_crc, with
\* an ideal CRC: equal exactly when the blocks read are equal).
Original(c) == IF c = NoFile THEN << >> ELSE [i \in 1..Size[c] |-> <<c, i - 1>>]

\* zalloc'ed state; file_transfer_init sets the callback and the start timer.
NewFtp(hosted) ==
  [crc |-> NoFile,      \* file_size and file_crc, announced together
   off |-> 0,           \* file_offset
   id |-> 0, idMax |-> 0, last |-> FALSE,
   counter |-> 0, remain |-> 0, read |-> << >>,   \* struct __file_check
   file |-> "none",     \* FILE *: "none", "tmp" (w+), "tmpR" (r), "final" (r)
   pos |-> 0,           \* position of the FILE
   hosted |-> hosted,   \* end_callback is set
   start |-> hosted,    \* start_timerout
   get |-> "none",      \* get_timeout: "none", "armed" or "fired" (stale id)
   mark |-> FALSE]      \* mark_timer

\* fwrite of one block at position p; past the bound nothing is recorded.
Write(d, p, b) == IF p \in 0..LastBlock THEN [d EXCEPT ![p] = b] ELSE d

\* The blocks fread returns at positions p .. p+n-1 of the open FILE.
ReadAt(f, p) ==
  IF f.file \in {"tmp", "tmpR"} /\ disk # Absent /\ p \in 0..LastBlock
  THEN disk[p]
  ELSE IF f.file = "final" /\ p < Len(published[Len(published)].blocks)
       THEN published[Len(published)].blocks[p + 1]
       ELSE <<Junk, 0>>
Read(f, n) == [i \in 1..n |-> ReadAt(f, f.pos + i - 1)]

\* file_transfer_download_intermittent_parse: the offset in the mark, or 0.
MarkedOffset(d) == IF d[0][1] = Mark THEN d[0][2] ELSE 0

\* file_transfer_download_vaild_mark_fill: the mark goes to block 0 (a FILE
\* that is not open for writing keeps its content), then the FILE is put back.
FillMarkAhead(f, d) == IF f.file = "tmp" /\ d # Absent      \* mutant
                       THEN Write(d, 0, <<Mark, f.off + 1>>) ELSE d
FillMark(f, d) == IF f.file = "tmp" /\ d # Absent
                  THEN Write(d, 0, <<Mark, f.off>>) ELSE d

SeekNot(f) == [f EXCEPT !.pos = 1]      \* mutant: left behind the mark
SeekBack(f) == [f EXCEPT !.pos = f.off]

\* The offset a START goes on from: the mark's, if the file has that many whole
\* blocks (the code compares bytes; marks stand at block boundaries).
ResumeUnbounded(c, d) == IF MarkedOffset(d) = 0 THEN 1 ELSE MarkedOffset(d) \* mutant
ResumeNever(c, d) == 1                                                     \* mutant
ResumeFrom(c, d) ==
  LET o == MarkedOffset(d) IN IF o = 0 \/ o > Size[c] - Remain[c] THEN 1 ELSE o

\* sys_timer_del of the id in mark_timer, if there is one.
MarksKept(f) == marks            \* mutant: the timer is forgotten
MarksAlways(f) == marks - 1      \* mutant: deleted without a look at the id
MarksLeft(f) == IF f.mark THEN marks - 1 ELSE marks

\* The check compares what it read with what START announced.
MatchesButFirst(f) ==            \* mutant: block 0 is not in the check
  SubSeq(f.read, 2, Len(f.read)) = SubSeq(Original(f.crc), 2, SizeOf(f.crc))
Matches(f) == f.read = Original(f.crc)

\* START stops the two-second timer of file_transfer_init.
StartKept(f) == f                \* mutant
StartStopped(f) == [f EXCEPT !.start = FALSE]
-----------------------------------------------------------------------------
(* What the handlers share.  Each takes the session record f and the disk d *)
(* as they stand at the point of the call.                                  *)

\* file_transfer_close: refused while a check is counting; otherwise timers
\* go, an unfinished file gets its mark, and end_callback leaves the mode.
Close(f, d) ==
  IF f.counter > 0
  THEN ftp' = f /\ disk' = d /\ UNCHANGED <<task, marks>>
  ELSE /\ ftp' = NoFtp
       /\ disk' = IF f.last THEN d ELSE FillMark(f, d)
       /\ task' = IF f.hosted /\ task = "action" THEN "other" ELSE task
       /\ marks' = MarksLeft(f)

Keep(f, d) == ftp' = f /\ disk' = d /\ UNCHANGED <<task, marks>>

\* The chip restarts: what lives in RAM is gone, the link with it.
Reset ==
  /\ ftp' = NoFtp /\ task' = "other" /\ calls' = 0 /\ marks' = 0
  /\ net' = << >> /\ toApp' = << >> /\ up' = TRUE
  /\ app' = [app EXCEPT !.st = "idle"]

SendFails == ~up \/ "send" \in Faults

\* JL_CMD_send of a command that wants an answer; on an error, close.
SendOrClose(f, d, m) ==
  \/ up /\ toApp' = Append(toApp, m) /\ Keep(f, d)
  \/ SendFails /\ UNCHANGED toApp /\ Close(f, d)

End(why) == [op |-> "end", why |-> why]
Rename == [op |-> "rename"]
Pull(off, n) == [op |-> "pull", off |-> off, n |-> n]

\* What is asked for: the next window, or block 0 when all others are in.
Request(f, w) == IF f.last THEN Pull(0, 1) ELSE Pull(f.off, w)

\* file_transfer_download_get_data: ask for the next window, and arm the
\* timeout unless get_timeout already holds an id.
GetData(f) ==
  IF f.file = "none" THEN ftp' = f /\ UNCHANGED toApp
  ELSE \/ "nobuf" \in Faults /\ ftp' = f /\ UNCHANGED toApp
       \/ \E w \in Windows :
            LET g == [f EXCEPT !.id = 0, !.idMax = w]
            IN \/ /\ up
                  /\ toApp' = Append(toApp, Request(f, w))
                  /\ ftp' = [g EXCEPT !.get = IF @ = "none" THEN "armed" ELSE @]
               \/ SendFails /\ ftp' = g /\ UNCHANGED toApp

\* file_transfer_download_file_check: rewind and queue the first callback.
CheckRecord(f) ==
  [f EXCEPT !.read = << >>, !.counter = SizeOf(f.crc) - RemainOf(f.crc),
            !.remain = RemainOf(f.crc), !.off = SizeOf(f.crc), !.pos = 0]

\* fdelete of the open FILE: the file under the download name, or the final one.
Deleted(f, d) == IF f.file \in {"tmp", "tmpR"} THEN Absent ELSE d
Withdrawn(f) == IF f.file = "final"
                THEN SubSeq(published, 1, Len(published) - 1) ELSE published
-----------------------------------------------------------------------------
(* Messages from the app, in the order the link delivers them.              *)

Arrives(op) == net # << >> /\ Head(net).op = op /\ net' = Tail(net)

\* app_smartbox_task_prepare: answered at once if the mode already runs.
RcvPrepare ==
  /\ Arrives("prepare")
  /\ IF task = "action"
     THEN /\ app' = IF app.st = "prep" THEN [app EXCEPT !.st = "ready"] ELSE app
          /\ UNCHANGED task
     ELSE task' = "switching" /\ UNCHANGED app
  /\ UNCHANGED <<ftp, disk, published, calls, marks, toApp, up, starts, losses>>

\* app_smartbox_task_start: answer the app, then file_transfer_init.
TaskStart ==
  /\ task = "switching"
  /\ task' = "action"
  /\ app' = IF app.st = "prep" /\ up THEN [app EXCEPT !.st = "ready"] ELSE app
  /\ ftp' = IF ftp = NoFtp THEN NewFtp(TRUE) ELSE ftp
  /\ UNCHANGED <<disk, published, calls, marks, net, toApp, up, starts, losses>>

\* A negative START answer ends the app's transfer.
AnswerFail == app' = IF up THEN [app EXCEPT !.st = "idle"] ELSE app

\* file_transfer_download_start, up to the answer, for a session f (ftp_d is
\* set): the file is opened and the offset to resume from is found.
Opened(f, c, d) ==
  LET g == [f EXCEPT !.file = "tmp", !.crc = c, !.pos = 0, !.last = (Size[c] = 1)]
  IN IF Size[c] = 1 THEN [g EXCEPT !.off = 0]
     ELSE SeekBack([g EXCEPT !.off = ResumeFrom(c, d)])

RcvStart ==
  /\ Arrives("start")
  /\ UNCHANGED <<published, up, starts, losses>>
  /\ LET c == Head(net).c
         f == StartStopped(ftp)
         d == IF disk = Absent THEN Blank ELSE disk
         g == Opened(f, c, d)
         e == IF g.last \/ MarkedOffset(d) = g.off THEN d ELSE FillMark(g, d)
     IN \/ \* the inverted allocation test: the new session is kept, FAIL is said
           /\ ftp = NoFtp
           /\ ftp' = NewFtp(FALSE)
           /\ AnswerFail
           /\ UNCHANGED <<disk, task, calls, marks, toApp>>
        \/ \* no device online
           /\ ftp # NoFtp /\ "nodev" \in Faults
           /\ Close(f, disk)
           /\ AnswerFail
           /\ UNCHANGED <<calls, toApp>>
        \/ \* the file cannot be created
           /\ ftp # NoFtp /\ "open" \in Faults
           /\ Close([f EXCEPT !.file = "none"], disk)
           /\ AnswerFail
           /\ UNCHANGED <<calls, toApp>>
        \/ \* the offset found is the whole file: straight to the check
           /\ ftp # NoFtp /\ ~g.last /\ g.off = Size[c]
           /\ Keep(CheckRecord(g), d)
           /\ calls' = calls + 1
           /\ UNCHANGED <<toApp, app>>
        \/ \* SUCCESS is answered: first pull, then the periodic mark timer
           /\ ftp # NoFtp /\ (g.last \/ g.off # Size[c])
           /\ up
           /\ GetData([g EXCEPT !.mark = TRUE])
           /\ disk' = e
           /\ marks' = marks + 1
           /\ UNCHANGED <<task, calls, app>>
        \/ \* the answer cannot be sent: close, and forget the session anyway
           \* (of a timer left in get_timeout nothing is kept: it takes a START
           \* on a session that is checking, and pulls once for a later one)
           /\ ftp # NoFtp /\ (g.last \/ g.off # Size[c])
           /\ SendFails
           /\ ftp' = NoFtp
           /\ IF g.counter > 0
              THEN disk' = e /\ UNCHANGED <<task, marks>>
              ELSE /\ disk' = IF g.last THEN e ELSE FillMark(g, e)
                   /\ task' = IF g.hosted /\ task = "action" THEN "other" ELSE task
                   /\ marks' = MarksLeft(g)
           /\ UNCHANGED <<calls, toApp, app>>

\* file_transfer_download_doing and ..._doing_last_packet.
RcvData ==
  /\ Arrives("data")
  /\ UNCHANGED <<published, app, up, starts, losses>>
  /\ LET m == Head(net)
         f == [ftp EXCEPT !.id = @ + 1]
         w == Write(disk, f.pos, m.block)
         g == [f EXCEPT !.off = @ + 1, !.pos = @ + 1]
         l == [f EXCEPT !.get = "none", !.pos = 0]
     IN \/ \* no session, no file, or not the expected packet: dropped
           /\ \/ ftp = NoFtp
              \/ ftp # NoFtp /\ (ftp.file = "none" \/ ftp.id # m.id)
           /\ UNCHANGED <<ftp, disk, task, calls, marks, toApp>>
        \/ /\ ftp # NoFtp /\ ftp.file # "none" /\ ftp.id = m.id
           /\ \/ \* block 0, the last packet: write it and check the file
                 /\ f.last /\ f.file = "tmp"
                 /\ Keep(CheckRecord(l), Write(disk, 0, m.block))
                 /\ calls' = calls + 1
                 /\ UNCHANGED toApp
              \/ /\ f.last /\ (f.file # "tmp" \/ "write" \in Faults)
                 /\ SendOrClose(l, disk, End("write"))
                 /\ UNCHANGED calls
              \/ \* more than the announced size
                 /\ ~f.last /\ f.off >= SizeOf(f.crc)
                 /\ SendOrClose(f, disk, End("limit"))
                 /\ UNCHANGED calls
              \/ /\ ~f.last /\ f.off < SizeOf(f.crc)
                 /\ f.file # "tmp" \/ "write" \in Faults
                 /\ SendOrClose(f, disk, End("write"))
                 /\ UNCHANGED calls
              \/ \* all blocks but 0 are in: pull block 0
                 /\ ~f.last /\ f.file = "tmp" /\ g.off = SizeOf(f.crc)
                 /\ GetData([g EXCEPT !.last = TRUE, !.mark = FALSE])
                 /\ disk' = w
                 /\ marks' = MarksLeft(f)
                 /\ UNCHANGED <<task, calls>>
              \/ \* more to come; the window may be complete
                 /\ ~f.last /\ f.file = "tmp" /\ g.off < SizeOf(f.crc)
                 /\ IF g.id >= g.idMax THEN GetData(g)
                    ELSE ftp' = g /\ UNCHANGED toApp
                 /\ disk' = w
                 /\ UNCHANGED <<task, calls, marks>>

\* file_transfer_download_passive_cancel; the app is told SUCCESS in any case.
RcvCancel ==
  /\ Arrives("cancel")
  /\ IF ftp = NoFtp THEN UNCHANGED <<ftp, disk, task, marks>> ELSE Close(ftp, disk)
  /\ UNCHANGED <<published, calls, toApp, app, up, starts, losses>>

\* smartbox_rcsp_disconnect, and file_transfer_download_end for END's answer.
RcvStop ==
  /\ Arrives("disconnect") \/ Arrives("endRsp")
  /\ IF ftp = NoFtp THEN UNCHANGED <<ftp, disk, task, marks>> ELSE Close(ftp, disk)
  /\ UNCHANGED <<published, calls, toApp, app, up, starts, losses>>

\* file_transfer_file_rename with file_rename.  When END(none) cannot be sent
\* the code closes the session and then reads ftp_d->dev through NULL: the chip
\* faults and restarts, or reads something and goes on.
RenamedFile == [of |-> ftp.crc, blocks |-> [i \in 1..SizeOf(ftp.crc) |-> disk[i - 1]]]

RcvRenameRsp ==
  /\ net # << >> /\ Head(net).op = "renameRsp"
  /\ UNCHANGED <<starts, losses>>
  /\ LET ok == Head(net).ok
         reopens == ftp # NoFtp /\ ok /\ ftp.file # "none" /\ disk # Absent
         moved == [ftp EXCEPT !.file = "final", !.pos = 0]
         kept == [ftp EXCEPT !.file = "tmpR", !.pos = 0]
         shut == [ftp EXCEPT !.file = "none"]
     IN \/ \* renamed, END(none) refused, NULL read, restart
           /\ reopens /\ SendFails /\ ftp.counter = 0
           /\ published' = Append(published, RenamedFile)
           /\ disk' = Absent
           /\ Reset
        \/ /\ net' = Tail(net)
           /\ UNCHANGED <<calls, app, up>>
           /\ \/ /\ ftp = NoFtp
                 /\ UNCHANGED <<ftp, disk, published, task, marks, toApp>>
              \/ \* reopened and renamed
                 /\ reopens
                 /\ published' = Append(published, RenamedFile)
                 /\ SendOrClose(moved, Absent, End("none"))
              \/ \* the name is taken: ask for another one
                 /\ reopens /\ "rename" \in Faults
                 /\ SendOrClose(kept, disk, Rename)
                 /\ UNCHANGED published
              \/ \* nothing open, or nothing left under the download name
                 /\ ftp # NoFtp /\ ok
                 /\ ftp.file = "none" \/ disk = Absent \/ "open" \in Faults
                 /\ SendOrClose(shut, disk, Rename)
                 /\ UNCHANGED published
              \/ \* the app refuses
                 /\ ftp # NoFtp /\ ~ok
                 /\ Close(shut, Deleted(ftp, disk))
                 /\ published' = Withdrawn(ftp)
                 /\ UNCHANGED toApp
-----------------------------------------------------------------------------
(* Timers and the queued check.                                             *)

StartTimeout ==
  /\ ftp # NoFtp /\ ftp.start
  /\ Close([ftp EXCEPT !.start = FALSE], disk)
  /\ UNCHANGED <<published, calls, net, toApp, app, up, starts, losses>>

\* A one-shot timer: once it has fired, the id that stays in get_timeout
\* stands for no timer.  Every packet that arrives sets it back, so without
\* "late" it fires only when nothing is on its way any more.
GetTimeoutIdle ==                \* mutant: nothing is pulled again
  /\ ftp # NoFtp /\ ftp.get = "armed"
  /\ "late" \in Faults \/ (net = << >> /\ toApp = << >>)
  /\ ftp' = [ftp EXCEPT !.get = "fired"]
  /\ UNCHANGED <<disk, published, task, calls, marks, net, toApp, app, up, starts, losses>>
GetTimeout ==
  /\ ftp # NoFtp /\ ftp.get = "armed"
  /\ "late" \in Faults \/ (net = << >> /\ toApp = << >>)
  /\ GetData([ftp EXCEPT !.get = "fired"])
  /\ UNCHANGED <<disk, published, task, calls, marks, net, app, up, starts, losses>>

\* file_transfer_download_vaild_mark_scan.
MarkScan ==
  /\ marks > 0
  /\ ftp # NoFtp /\ ftp.file # "none" /\ ftp.mark /\ ~ftp.last
  /\ disk' = FillMark(ftp, disk)
  /\ ftp' = SeekBack(ftp)
  /\ UNCHANGED <<published, task, calls, marks, net, toApp, app, up, starts, losses>>

\* __file_transfer_download_file_check_caculate: one step of the check.
Calculate ==
  /\ calls > 0
  /\ UNCHANGED <<net, app, up, starts, losses>>
  /\ LET cnt == IF ftp.counter >= CheckMax THEN CheckMax ELSE ftp.counter
         n == IF cnt = ftp.counter THEN cnt + ftp.remain ELSE cnt
         f == [ftp EXCEPT !.read = @ \o Read(ftp, n), !.pos = @ + n,
                          !.counter = @ - cnt]
     IN \/ /\ ftp = NoFtp
           /\ calls' = calls - 1
           /\ UNCHANGED <<ftp, disk, published, task, marks, toApp>>
        \/ /\ ftp # NoFtp /\ f.counter > 0
           /\ Keep(f, disk)
           /\ UNCHANGED <<published, calls, toApp>>
        \/ /\ ftp # NoFtp /\ f.counter = 0 /\ Matches(f)
           /\ calls' = calls - 1
           /\ SendOrClose([f EXCEPT !.pos = SizeOf(f.crc)], disk, Rename)
           /\ UNCHANGED published
        \/ /\ ftp # NoFtp /\ f.counter = 0 /\ ~Matches(f)
           /\ calls' = calls - 1
           /\ SendOrClose([f EXCEPT !.file = "none"], Deleted(f, disk), End("crc"))
           /\ published' = Withdrawn(f)
-----------------------------------------------------------------------------
(* The app and the link: external, as the handlers use them.  A well-behaved *)
(* app sends START once per prepared transfer, answers a pull from the file  *)
(* it is sending, and accepts a RENAME only when it has handed over block 0. *)

\* Without "restart" the app lets the old transfer come to rest first: every
\* message is answered and no check is still counting on the device.
AppPrepare ==
  /\ up /\ app.st = "idle" /\ starts < MaxStarts
  /\ "restart" \in Faults \/ (net = << >> /\ toApp = << >> /\ calls = 0)
  /\ app' = [app EXCEPT !.st = "prep"]
  /\ net' = Append(net, [op |-> "prepare"])
  /\ starts' = starts + 1
  /\ UNCHANGED <<device, toApp, up, losses>>

AppStart(c) ==
  /\ up /\ app.st = "ready"
  /\ app' = [st |-> "xfer", c |-> c, fed |-> FALSE]
  /\ net' = Append(net, [op |-> "start", c |-> c])
  /\ UNCHANGED <<device, toApp, up, starts, losses>>

AppCancel ==
  /\ "cancel" \in Faults /\ up /\ app.st # "idle"
  /\ app' = [app EXCEPT !.st = "idle"]
  /\ net' = Append(net, [op |-> "cancel"])
  /\ UNCHANGED <<device, toApp, up, starts, losses>>

\* The packets that answer a pull: n blocks from off, numbered from 0.
Packets(c, off, n) ==
  LET k == IF off + n > Size[c] THEN Size[c] - off ELSE n
  IN [i \in 1..k |-> [op |-> "data", id |-> i - 1, block |-> <<c, off + i - 1>>]]

AppServe ==
  /\ toApp # << >>
  /\ toApp' = Tail(toApp)
  /\ LET m == Head(toApp)
     IN \/ /\ m.op = "pull" /\ app.st = "xfer" /\ m.off < Size[app.c]
           /\ net' = net \o Packets(app.c, m.off, m.n)
           /\ app' = [app EXCEPT !.fed = @ \/ m.off = 0]
        \/ /\ m.op = "pull" /\ (app.st # "xfer" \/ m.off >= Size[app.c])
           /\ UNCHANGED <<net, app>>
        \/ /\ m.op = "rename"
           /\ net' = Append(net, [op |-> "renameRsp",
                                  ok |-> app.st = "xfer" /\ app.fed])
           /\ UNCHANGED app
        \/ /\ m.op = "end"
           /\ net' = Append(net, [op |-> "endRsp"])
           /\ app' = [app EXCEPT !.st = "idle"]
  /\ UNCHANGED <<device, up, starts, losses>>

\* A data packet that found the receive buffer full.
LoseData ==
  /\ losses < MaxLoss /\ Arrives("data")
  /\ losses' = losses + 1
  /\ UNCHANGED <<device, toApp, app, up, starts>>

\* The link drops: what was received so far is handled, then the event is.
LinkDown ==
  /\ "link" \in Faults /\ up
  /\ up' = FALSE
  /\ \E k \in 0..Len(net) :
       net' = Append(SubSeq(net, 1, k), [op |-> "disconnect"])
  /\ toApp' = << >>
  /\ app' = [app EXCEPT !.st = "idle"]
  /\ UNCHANGED <<device, starts, losses>>

\* Reconnecting takes far longer than the queued disconnect event.
LinkUp ==
  /\ ~up /\ net = << >>
  /\ up' = TRUE
  /\ UNCHANGED <<device, net, toApp, app, starts, losses>>

\* The user leaves the action mode with a key; app_smartbox_task_stop does
\* not touch the transfer.
ModeKey ==
  /\ "key" \in Faults /\ task = "action"
  /\ task' = "other"
  /\ UNCHANGED <<ftp, disk, published, calls, marks, net, toApp, app, up,
                 starts, losses>>

\* Power loss: RAM and link are gone, the file system stays.
PowerLoss ==
  /\ "power" \in Faults /\ starts > 0
  /\ Reset
  /\ UNCHANGED <<disk, published, starts, losses>>
-----------------------------------------------------------------------------
Init ==
  /\ ftp = NoFtp /\ disk = Absent /\ published = << >>
  /\ task = "other" /\ calls = 0 /\ marks = 0
  /\ net = << >> /\ toApp = << >> /\ up = TRUE
  /\ \E c \in Contents : app = [st |-> "idle", c |-> c, fed |-> FALSE]
  /\ starts = 0 /\ losses = 0

Receive == RcvPrepare \/ RcvStart \/ RcvData \/ RcvCancel \/ RcvStop \/ RcvRenameRsp
Timers == StartTimeout \/ GetTimeout \/ MarkScan
App == AppPrepare \/ AppCancel \/ AppServe \/ \E c \in Contents : AppStart(c)
Environment == LoseData \/ LinkDown \/ LinkUp \/ ModeKey \/ PowerLoss

Next == Receive \/ TaskStart \/ Timers \/ Calculate \/ App \/ Environment

Spec == Init /\ [][Next]_vars

\* The app_core task works off its queue and the system fires its timers; the
\* app answers what it is asked.  Nobody has to start, cancel or lose anything.
Fairness ==
  /\ WF_vars(Receive) /\ WF_vars(TaskStart) /\ WF_vars(Calculate)
  /\ WF_vars(StartTimeout) /\ WF_vars(GetTimeout)
  /\ WF_vars(AppServe)

FairSpec == Spec /\ Fairness
-----------------------------------------------------------------------------
(* Properties.                                                              *)

Sessions ==
  [crc : Contents \cup {NoFile}, off : Nat, id : Nat, idMax : Nat,
   last : BOOLEAN, counter : Nat, remain : {0, 1}, read : Seq(Block),
   file : {"none", "tmp", "tmpR", "final"}, pos : Nat, hosted : BOOLEAN,
   start : BOOLEAN, get : {"none", "armed", "fired"}, mark : BOOLEAN]

\* The two absent values are no session and no file.
ASSUME AbsenceAssumption == NoFtp \notin Sessions /\ Absent \notin File

FromApp ==
  [op : {"prepare", "cancel", "disconnect", "endRsp"}]
    \cup [op : {"start"}, c : Contents]
    \cup [op : {"data"}, id : Nat, block : Block]
    \cup [op : {"renameRsp"}, ok : BOOLEAN]

ToApp ==
  [op : {"rename"}]
    \cup [op : {"end"}, why : {"none", "write", "limit", "crc"}]
    \cup [op : {"pull"}, off : Nat, n : Nat]

\* Every variable has its type.
TypeOK ==
  /\ ftp \in Sessions \cup {NoFtp}
  /\ disk \in File \cup {Absent}
  /\ published \in Seq([of : Contents \cup {NoFile}, blocks : Seq(Block)])
  /\ task \in {"other", "switching", "action"}
  /\ calls \in Nat /\ marks \in Nat
  /\ net \in Seq(FromApp) /\ toApp \in Seq(ToApp)
  /\ app \in [st : {"idle", "prep", "ready", "xfer"}, c : Contents, fed : BOOLEAN]
  /\ up \in BOOLEAN /\ starts \in 0..MaxStarts /\ losses \in 0..MaxLoss

\* A file that has its final name is, block for block, the content announced
\* by the START of the session that renamed it: no loss, late packet, resume,
\* cancel or restart puts a wrong file there.
PublishedIntact ==
  \A i \in 1..Len(published) : published[i].blocks = Original(published[i].of)

\* While blocks are being appended the FILE stands where file_offset says: the
\* mark writes and the check move the FILE and have to bring it back.  Which
\* block comes next is not its business: packets carry no offset, so a late one
\* with the right number is taken, and PublishedIntact is what catches it.
AppendsAtOffset ==
  ftp # NoFtp /\ ftp.file = "tmp" /\ ~ftp.last /\ ftp.counter = 0
    /\ calls = 0 => ftp.pos = ftp.off

\* A block that is counted in file_offset was written at that offset, and no
\* other block of the file was touched: whatever moved the FILE before, no
\* packet overwrites the resume mark or a block that is already in, or leaves
\* a hole behind it.
AppendsBehind ==
  [][ (ftp # NoFtp /\ ftp' # NoFtp /\ ftp.file = "tmp" /\ ~ftp.last
         /\ ftp'.off = ftp.off + 1) =>
        disk # Absent /\ disk' = Write(disk, ftp.off, Head(net).block) ]_vars

\* A resume mark on disk never promises a block that was not written: blocks
\* 1 .. offset-1 all hold data.
MarkCoversData ==
  disk # Absent /\ MarkedOffset(disk) > 0 =>
    \A i \in 1..(MarkedOffset(disk) - 1) : i <= LastBlock => disk[i][1] # Junk

\* The periodic mark timer belongs to the running session: one at most, and
\* none once ftp_d is gone.
MarkTimerOwned ==
  marks = IF ftp # NoFtp /\ ftp.mark THEN 1 ELSE 0

\* The two-second start timer only ever ends a session that has received
\* nothing: once a START has opened a file, no pending start timer is left that
\* could close it in mid-transfer.
StartTimerIdle ==
  ftp # NoFtp /\ ftp.start => ftp.file = "none" /\ ftp.crc = NoFile /\ ~ftp.mark

\* However packets are repeated, lost or late and whatever mark was found, the
\* offset never passes the announced size, and block 0 is only waited for when
\* all other blocks are in.
OffsetWithinFile ==
  ftp # NoFtp =>
    /\ ftp.off <= SizeOf(ftp.crc)
    /\ ftp.last => SizeOf(ftp.crc) = 1 \/ ftp.off = SizeOf(ftp.crc)

\* The offset a resume mark stands for never goes back, across packets, closes,
\* power losses and later sessions, unless a START finds it beyond the whole
\* blocks of the file it announces.
ResumeNeverRegresses ==
  [][ (disk # Absent /\ disk' # Absent /\ MarkedOffset(disk') > 0) =>
        \/ MarkedOffset(disk') >= MarkedOffset(disk)
        \/ net # << >> /\ Head(net).op = "start"
             /\ MarkedOffset(disk) > Size[Head(net).c] - Remain[Head(net).c] ]_vars

\* A transfer whose file was opened comes to an end, good or bad, although a
\* packet on the way to it is lost ("if the data asked for is not all in within
\* the timeout, pull it again", file_transfer_download_get_timeout), as long as
\* the app's answers come in time and nothing is lost a second time.  The
\* timeout that re-pulls leaves its id in get_timeout, file_transfer_download_
\* get_data arms no other while one is there, and only block 0 clears it: a
\* session pulls again once, and after a second loss it waits for ever.
TransferEnds == ftp # NoFtp /\ ftp.file # "none" ~> ftp = NoFtp
=============================================================================

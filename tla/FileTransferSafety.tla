-------------------------- MODULE FileTransferSafety --------------------------
(***************************************************************************)
(* What is on disk and what is renamed in FileTransfer, proved for an app   *)
(* that lets one transfer come to rest before it prepares the next.         *)
(***************************************************************************)
EXTENDS FileTransferLine

\* The messages in q.
Msgs(q) == {q[i] : i \in 1..Len(q)}

\* The blocks and pulls under way belong to the session's file, and block 0 is
\* only among them when it is the one waited for.
Feeds == ~Calm =>
  /\ app.st = "xfer" => app.c = ftp.crc
  /\ \A m \in Msgs(net) : m.op = "data" =>
        m.block[1] = ftp.crc /\ (m.block[2] = 0 => m.id = 0 /\ ftp.last)
  /\ \A m \in Msgs(toApp) : m.op = "pull" /\ m.off = 0 => m.n = 1 /\ ftp.last
  /\ ~ftp.last => ftp.off >= 1

\* A rename is asked for or granted.
Renaming == "rename" \in Ops(toApp) \/ \E m \in Msgs(net) : m.op = "renameRsp" /\ m.ok
InCheck == calls > 0 \/ Renaming \/ ftp.file \in {"tmpR", "final"}

\* Once the check has begun block 0 is not asked for again, and without block 0
\* all blocks were there.
Checks == ~Calm /\ InCheck =>
  /\ ftp.last => ftp.id >= 1 /\ ftp.get = "none"
  /\ ~ftp.last => ftp.off = SizeOf(ftp.crc) /\ ~ftp.mark

\* The FILE that is open is there, under one name.
DiskInv == ~Calm =>
  /\ ftp.file \in {"tmp", "tmpR"} => disk \in File
  /\ ftp.file = "final" => disk = Absent

\* The blocks below the offset are written, and no mark is ahead of it.
Covers ==
  /\ MarkCoversData
  /\ ~Calm /\ ftp.file = "tmp" /\ ~ftp.last =>
       /\ \A i \in 1..(ftp.off - 1) : i <= LastBlock => disk[i][1] # Junk
       /\ ftp.off >= MarkedOffset(disk)

DiskSafe == LineInv /\ Feeds /\ Checks /\ DiskInv /\ AppendsAtOffset /\ Covers

\* The step ResumeNeverRegresses allows.
Forward ==
  (disk # Absent /\ disk' # Absent /\ MarkedOffset(disk') > 0) =>
    \/ MarkedOffset(disk') >= MarkedOffset(disk)
    \/ net # << >> /\ Head(net).op = "start"
         /\ MarkedOffset(disk) > Size[Head(net).c] - Remain[Head(net).c]
-----------------------------------------------------------------------------
(* Sequences of messages.                                                   *)

LEMMA MsgsAppend ==
  ASSUME NEW S, NEW q \in Seq(S), NEW m
  PROVE  Msgs(Append(q, m)) = Msgs(q) \cup {m}
<1> DEFINE r == Append(q, m)
<1>1. Len(r) = Len(q) + 1 /\ r[Len(q) + 1] = m /\ \A i \in 1..Len(q) : r[i] = q[i]
  OBVIOUS
<1>2. 1..Len(r) = (1..Len(q)) \cup {Len(q) + 1}
  BY <1>1
<1> HIDE DEF r
<1> QED BY <1>1, <1>2 DEF Msgs, r

LEMMA MsgsTail ==
  ASSUME NEW S, NEW q \in Seq(S), q # << >>
  PROVE  Msgs(q) = Msgs(Tail(q)) \cup {Head(q)}
<1> DEFINE r == Tail(q)
<1>1. /\ Len(q) \in Nat /\ Len(q) >= 1 /\ Len(r) = Len(q) - 1
      /\ \A i \in 1..Len(r) : r[i] = q[i + 1]
  OBVIOUS
<1>2. Head(q) = q[1]
  OBVIOUS
<1> HIDE DEF r
<1>3. \A i \in 1..Len(q) : i # 1 => i - 1 \in 1..Len(r) /\ q[i] = r[i - 1]
  BY <1>1
<1>4. 1 \in 1..Len(q) /\ \A i \in 1..Len(r) : i + 1 \in 1..Len(q)
  BY <1>1
<1>5. \A x \in Msgs(q) : x \in Msgs(r) \cup {Head(q)}
  BY <1>2, <1>3 DEF Msgs
<1>6. \A x \in Msgs(r) : x \in Msgs(q)
  BY <1>1, <1>4 DEF Msgs
<1>7. Head(q) \in Msgs(q)
  BY <1>2, <1>4 DEF Msgs
<1> QED BY <1>5, <1>6, <1>7 DEF r

LEMMA MsgsConcat ==
  ASSUME NEW S, NEW q \in Seq(S), NEW r \in Seq(S)
  PROVE  Msgs(q \o r) = Msgs(q) \cup Msgs(r)
<1> DEFINE s == q \o r
<1>1. /\ Len(q) \in Nat /\ Len(r) \in Nat /\ Len(s) = Len(q) + Len(r)
      /\ \A i \in 1..Len(s) : s[i] = IF i <= Len(q) THEN q[i] ELSE r[i - Len(q)]
  OBVIOUS
<1> HIDE DEF s
<1>2. \A x \in Msgs(s) : x \in Msgs(q) \cup Msgs(r)
  <2> TAKE x \in Msgs(s)
  <2>1. PICK i \in 1..Len(s) : x = s[i]
    BY DEF Msgs
  <2>2. CASE i <= Len(q)
    <3>1. i \in 1..Len(q) /\ s[i] = q[i]
      BY <1>1, <2>2
    <3> QED BY <2>1, <3>1 DEF Msgs
  <2>3. CASE ~(i <= Len(q))
    <3>1. i - Len(q) \in 1..Len(r) /\ s[i] = r[i - Len(q)]
      BY <1>1, <2>3
    <3> QED BY <2>1, <3>1 DEF Msgs
  <2> QED BY <2>2, <2>3
<1>3. \A i \in 1..Len(q) : i \in 1..Len(s) /\ s[i] = q[i]
  BY <1>1
<1>4. \A i \in 1..Len(r) : i + Len(q) \in 1..Len(s) /\ s[i + Len(q)] = r[i]
  BY <1>1
<1>5. \A x \in Msgs(q) : x \in Msgs(s)
  BY <1>3 DEF Msgs
<1>6. \A x \in Msgs(r) : x \in Msgs(s)
  BY <1>4 DEF Msgs
<1> QED BY <1>2, <1>5, <1>6 DEF s

LEMMA MsgsFront ==
  ASSUME NEW S, NEW q \in Seq(S), NEW k \in 0..Len(q)
  PROVE  Msgs(SubSeq(q, 1, k)) \subseteq Msgs(q) /\ SubSeq(q, 1, k) \in Seq(S)
<1> DEFINE r == SubSeq(q, 1, k)
<1>1. k \in Nat /\ Len(q) \in Nat /\ k <= Len(q)
  OBVIOUS
<1>2. \A i \in 1..k : q[i] \in S
  BY <1>1
<1>3. Len(r) = k /\ r \in Seq(S) /\ \A i \in 1..k : r[i] = q[i]
  BY <1>1, <1>2, SubSeqProperties
<1>4. \A i \in 1..k : i \in 1..Len(q)
  BY <1>1
<1> HIDE DEF r
<1>5. Msgs(r) \subseteq Msgs(q)
  BY <1>3, <1>4 DEF Msgs
<1> QED BY <1>3, <1>5 DEF r

\* A message in q is one of its kinds.
LEMMA MsgsOps == \A q : \A m \in Msgs(q) : m.op \in Ops(q)
BY DEF Msgs, Ops
-----------------------------------------------------------------------------
(* Kinds of steps.                                                          *)

LEMMA SafeParts ==
  ASSUME DiskSafe
  PROVE  /\ LineInv /\ IInv /\ net \in Seq(FromApp) /\ toApp \in Seq(ToApp) /\ disk \in Files
         /\ calls \in Nat /\ MarkCoversData
         /\ ftp # NoFtp => /\ ftp \in Sessions /\ ftp.crc \in Contents \cup {NoFile}
                           /\ ftp.off \in Nat /\ ftp.pos \in Nat /\ ftp.id \in Nat
                           /\ ftp.counter \in Nat /\ SizeOf(ftp.crc) \in Nat
                           /\ ftp.off <= SizeOf(ftp.crc) /\ SizeOf(ftp.crc) <= LastBlock + 1
         /\ Calm => ftp = NoFtp \/ ftp.file = "none"
         /\ LastBlock \in Nat /\ (disk # Absent => disk \in File)
<1>1. LineInv /\ IInv /\ net \in Seq(FromApp) /\ toApp \in Seq(ToApp) /\ disk \in Files /\ calls \in Nat
  BY LineParts, Parts DEF DiskSafe
<1>2. ASSUME ftp # NoFtp
      PROVE  /\ ftp \in Sessions /\ ftp.crc \in Contents \cup {NoFile}
             /\ ftp.off \in Nat /\ ftp.pos \in Nat /\ ftp.id \in Nat
             /\ ftp.counter \in Nat /\ SizeOf(ftp.crc) \in Nat
             /\ ftp.off <= SizeOf(ftp.crc) /\ SizeOf(ftp.crc) <= LastBlock + 1
  <2>1. ftp \in Sessions /\ ftp.off <= SizeOf(ftp.crc)
    BY <1>1, <1>2, Parts DEF Sound
  <2>2. /\ ftp.crc \in Contents \cup {NoFile}
        /\ ftp.off \in Nat /\ ftp.pos \in Nat /\ ftp.id \in Nat /\ ftp.counter \in Nat
    BY <2>1 DEF Sessions
  <2> QED BY <2>1, <2>2, SizeOfType
<1>3. Calm => ftp = NoFtp \/ ftp.file = "none"
  BY <1>1, LineParts DEF Calm
<1> QED BY <1>1, <1>2, <1>3, ConstantsAssumption DEF DiskSafe, Covers, Files

\* Nothing is asked for or sent that was not before.
FlowData ==
  /\ \A m \in Msgs(net') : m.op = "data" => m \in Msgs(net)
  /\ \A m \in Msgs(toApp') : m.op = "pull" => m \in Msgs(toApp)
  /\ app'.st = "xfer" => app.st = "xfer" /\ app'.c = app.c
FlowLess == FlowData /\ (Renaming' => Renaming)

\* A mark that stays, or goes.
LEMMA ForwardSame ==
  ASSUME DiskSafe, disk' = disk \/ disk' = Absent
  PROVE  Forward /\ MarkCoversData'
<1>1. disk # Absent => MarkedOffset(disk) \in Nat
  <2>1. ASSUME disk \in File
        PROVE  MarkedOffset(disk) \in Nat
    <3>1. disk[0] \in Block
      BY <2>1, ConstantsAssumption DEF File
    <3> QED BY <3>1 DEF MarkedOffset, Block
  <2> QED BY <2>1, SafeParts
<1> QED BY <1>1, SafeParts DEF Forward, MarkCoversData

\* Steps that leave the session, the disk and the check alone.
LEMMA StillSafe ==
  ASSUME DiskSafe, LineInv', disk' = disk \/ (Calm' /\ disk' = Absent),
         Calm' \/ (ftp' = ftp /\ calls' = calls /\ FlowLess)
  PROVE  DiskSafe' /\ Forward
<1>1. Forward /\ MarkCoversData'
  BY ForwardSame
<1>2. CASE Calm'
  <2>1. ftp' = NoFtp \/ ftp'.file = "none"
    BY <1>2 DEF Calm, LineInv, FreshInv
  <2> QED BY <1>1, <1>2, <2>1
     DEF DiskSafe, Feeds, Checks, DiskInv, AppendsAtOffset, Covers
<1>3. CASE ~Calm' /\ ftp' = ftp /\ calls' = calls /\ disk' = disk /\ FlowLess
  <2>1. ~Calm
    BY <1>3 DEF Calm
  <2>2. Feeds'
    BY <1>3, <2>1 DEF DiskSafe, Feeds, FlowLess, FlowData
  <2>3. Checks'
    BY <1>3, <2>1 DEF DiskSafe, Checks, InCheck, FlowLess
  <2>4. DiskInv' /\ AppendsAtOffset' /\ Covers'
    BY <1>1, <1>3, <2>1 DEF DiskSafe, DiskInv, AppendsAtOffset, Covers
  <2> QED BY <1>1, <1>3, <2>2, <2>3, <2>4 DEF DiskSafe
<1> QED BY <1>2, <1>3

\* The marks a disk can bear.
LEMMA MarkTypes ==
  ASSUME NEW d \in File
  PROVE  MarkedOffset(d) \in Nat
<1>1. d[0] \in Block
  BY ConstantsAssumption DEF File
<1> QED BY <1>1 DEF MarkedOffset, Block

\* Closing a session leaves its mark, which is no promise that is not kept.
LEMMA GoneSafe ==
  ASSUME DiskSafe, LineInv', ftp # NoFtp, ftp' = NoFtp, NEW f \in Sessions,
         f.off = ftp.off, f.last = ftp.last, f.file = "tmp" => ftp.file = "tmp",
         NEW d \in {disk, Absent}, disk' = IF f.last THEN d ELSE FillMark(f, d)
  PROVE  DiskSafe' /\ Forward
<1>1. Feeds' /\ Checks' /\ DiskInv' /\ AppendsAtOffset' /\ (Covers' <=> MarkCoversData')
  BY DEF Feeds, Checks, DiskInv, AppendsAtOffset, Covers, Calm
<1>2. d \in Files
  BY SafeParts DEF Files
<1>3. CASE disk' = disk \/ disk' = Absent
  BY <1>1, <1>3, ForwardSame DEF DiskSafe
<1>4. CASE ~f.last /\ f.file = "tmp" /\ d \in File /\ d = disk
  <2>1. Marked(disk, disk', ftp.off)
    BY <1>2, <1>4, FillMarkEffect
  <2>2. ~Calm /\ ftp.file = "tmp" /\ ~ftp.last
    BY <1>4, SafeParts
  <2>3. /\ \A i \in 1..(ftp.off - 1) : i <= LastBlock => disk[i][1] # Junk
        /\ ftp.off >= MarkedOffset(disk)
    BY <2>2 DEF DiskSafe, Covers
  <2>4. ftp.off \in Nat /\ LastBlock \in Nat
    BY SafeParts
  <2>5. MarkCoversData'
    BY <2>1, <2>3, <2>4 DEF MarkCoversData, Marked
  <2>6. Forward
    BY <2>1, <2>3 DEF Forward, Marked
  <2> QED BY <1>1, <2>5, <2>6 DEF DiskSafe
<1>5. f.last \/ ~(f.file = "tmp" /\ d \in File) => disk' = d
  BY <1>2, FillMarkEffect
<1>6. d \in File => d = disk
  BY AbsenceAssumption
<1> QED BY <1>3, <1>4, <1>5, <1>6

\* Steps after which the session goes on with what it has.
LEMMA OnwardSafe ==
  ASSUME DiskSafe, LineInv', ftp # NoFtp, ~Calm, ftp' \in Sessions,
         ftp'.crc = ftp.crc, ftp'.off = ftp.off, ftp'.last = ftp.last, FlowData,
         InCheck' => InCheck, ftp.last => ftp'.id >= ftp.id /\ ftp'.get \in {ftp.get, "none"},
         ~ftp.last /\ InCheck => ftp'.mark = ftp.mark,
         disk' = disk \/ (disk' = Absent /\ ftp'.file \in {"none", "final"}),
         ftp'.file = "tmp" => ftp.file = "tmp", ftp'.file = "tmpR" => disk \in File,
         ftp'.file = "final" => disk' = Absent, AppendsAtOffset'
  PROVE  DiskSafe' /\ Forward
<1>1. Forward /\ MarkCoversData'
  BY ForwardSame
<1>2. ~Calm' /\ ftp' # NoFtp
  BY AbsenceAssumption DEF Calm
<1>3. Feeds'
  BY <1>2 DEF DiskSafe, Feeds, FlowData
<1>4. Checks'
  <2>1. ftp.id \in Nat /\ ftp'.id \in Nat
    BY SafeParts DEF Sessions
  <2> QED BY <1>2, <2>1 DEF DiskSafe, Checks
<1>5. DiskInv'
  BY <1>2 DEF DiskSafe, DiskInv
<1>6. Covers'
  BY <1>1, <1>2 DEF DiskSafe, Covers
<1> QED BY <1>1, <1>3, <1>4, <1>5, <1>6 DEF DiskSafe

\* A command was sent for the session h, or h was closed.
LEMMA SentSafe ==
  ASSUME DiskSafe, LineInv', ftp # NoFtp, NEW h \in Sessions,
         h.crc = ftp.crc, h.off = ftp.off, h.last = ftp.last, FlowData,
         ftp' = h /\ InCheck' => InCheck,
         ftp.last => h.id >= ftp.id /\ h.get \in {ftp.get, "none"}, h.mark = ftp.mark,
         NEW d \in {disk, Absent}, d = disk \/ h.file \in {"none", "final"},
         h.file = "tmp" => ftp.file = "tmp", h.file = "tmpR" => disk \in File,
         h.file = "final" => d = Absent,
         h.file = "tmp" /\ ~h.last /\ h.counter = 0 /\ calls' = 0 => h.pos = h.off,
         NEW m, Sent(h, d, m) \/ Closed(h, d)
  PROVE  DiskSafe' /\ Forward
<1>1. \/ ftp' = h /\ disk' = d
      \/ ftp' = NoFtp /\ disk' = IF h.last THEN d ELSE FillMark(h, d)
  BY DEF Sent, Closed
<1>2. CASE ftp' = h /\ disk' = d
  <2>1. CASE Calm
    <3>1. Calm'
      BY <1>2, <2>1 DEF Calm
    <3> QED BY <1>2, <3>1, StillSafe
  <2>2. CASE ~Calm
    <3>1. AppendsAtOffset'
      BY <1>2 DEF AppendsAtOffset
    <3>2. /\ ftp' \in Sessions /\ ftp'.crc = ftp.crc /\ ftp'.off = ftp.off /\ ftp'.last = ftp.last
          /\ InCheck' => InCheck
          /\ ftp.last => ftp'.id >= ftp.id /\ ftp'.get \in {ftp.get, "none"}
          /\ ~ftp.last /\ InCheck => ftp'.mark = ftp.mark
      BY <1>2
    <3>3. /\ disk' = disk \/ (disk' = Absent /\ ftp'.file \in {"none", "final"})
          /\ ftp'.file = "tmp" => ftp.file = "tmp"
          /\ ftp'.file = "tmpR" => disk \in File
          /\ ftp'.file = "final" => disk' = Absent
      BY <1>2
    <3> QED BY <2>2, <3>1, <3>2, <3>3, OnwardSafe
  <2> QED BY <2>1, <2>2
<1>3. CASE ftp' = NoFtp /\ disk' = IF h.last THEN d ELSE FillMark(h, d)
  BY <1>3, GoneSafe
<1> QED BY <1>1, <1>2, <1>3

\* The next message is gone, and a command that is no pull may be on its way.
LEMMA FlowNext ==
  ASSUME IInv, net # << >>, net' = Tail(net), app'.st = "xfer" => app' = app,
         toApp' = toApp \/ \E m : toApp' = Append(toApp, m) /\ m.op # "pull"
  PROVE  /\ FlowData /\ Msgs(net) = Msgs(net') \cup {Head(net)}
         /\ toApp' = toApp => FlowLess
         /\ (\A m : toApp' = Append(toApp, m) => m.op # "rename") => FlowLess
<1>1. net \in Seq(FromApp) /\ toApp \in Seq(ToApp)
  BY Parts
<1>2. Msgs(net) = Msgs(net') \cup {Head(net)}
  BY <1>1, MsgsTail
<1>3. CASE toApp' = toApp
  BY <1>2, <1>3 DEF FlowData, FlowLess, Renaming
<1>4. ASSUME NEW m, toApp' = Append(toApp, m), m.op # "pull"
      PROVE  FlowData /\ (m.op # "rename" => FlowLess)
  <2>1. Msgs(toApp') = Msgs(toApp) \cup {m} /\ Ops(toApp') = Ops(toApp) \cup {m.op}
    BY <1>1, <1>4, MsgsAppend, OpsAppend
  <2> QED BY <1>2, <1>4, <2>1 DEF FlowData, FlowLess, Renaming
<1> QED BY <1>2, <1>3, <1>4
-----------------------------------------------------------------------------
(* One lemma per action: what is on disk stays safe, and the mark goes on.  *)

LEMMA RcvPrepareSafe ==
  ASSUME DiskSafe, LineInv', RcvPrepare
  PROVE  DiskSafe' /\ Forward
<1>1. /\ net # << >> /\ net' = Tail(net) /\ UNCHANGED <<ftp, disk, calls, toApp>>
      /\ app' = app \/ (app.st = "prep" /\ app' = [app EXCEPT !.st = "ready"])
  BY DEF RcvPrepare, Arrives
<1>2. app \in [st : {"idle", "prep", "ready", "xfer"}, c : Contents, fed : BOOLEAN]
  BY SafeParts, Parts
<1>3. app'.st = "xfer" => app' = app
  BY <1>1, <1>2
<1>4. FlowLess
  BY <1>1, <1>3, SafeParts, FlowNext
<1> QED BY <1>1, <1>4, StillSafe

LEMMA TaskStartSafe ==
  ASSUME DiskSafe, LineInv', TaskStart
  PROVE  DiskSafe' /\ Forward
<1>1. /\ UNCHANGED <<disk, calls, net, toApp>>
      /\ app' = app \/ (app.st = "prep" /\ app' = [app EXCEPT !.st = "ready"])
      /\ ftp' = ftp \/ ftp' = NewFtp(TRUE)
  BY DEF TaskStart
<1>2. app \in [st : {"idle", "prep", "ready", "xfer"}, c : Contents, fed : BOOLEAN]
  BY SafeParts, Parts
<1>3. FlowLess
  BY <1>1, <1>2 DEF FlowLess, FlowData, Renaming
<1>4. ftp' = ftp \/ Calm'
  BY <1>1, NewFtpFields DEF Calm
<1> QED BY <1>1, <1>3, <1>4, StillSafe

LEMMA RcvStopSafe ==
  ASSUME DiskSafe, LineInv', RcvCancel \/ RcvStop
  PROVE  DiskSafe' /\ Forward
<1>1. /\ net # << >> /\ net' = Tail(net) /\ UNCHANGED <<calls, toApp, app>>
      /\ (ftp = NoFtp /\ UNCHANGED <<ftp, disk>>) \/ (ftp # NoFtp /\ Close(ftp, disk))
  BY DEF RcvCancel, RcvStop, Arrives
<1>2. FlowLess
  BY <1>1, SafeParts, FlowNext
<1>3. CASE ftp = NoFtp /\ UNCHANGED <<ftp, disk>>
  BY <1>1, <1>2, <1>3, StillSafe
<1>4. CASE ftp # NoFtp /\ Close(ftp, disk)
  <2>1. ftp \in Sessions /\ Closed(ftp, disk)
    BY <1>4, SafeParts, CloseEffect
  <2>2. CASE ftp' = ftp /\ disk' = disk
    BY <1>1, <1>2, <2>2, StillSafe
  <2>3. CASE ftp' = NoFtp /\ disk' = IF ftp.last THEN disk ELSE FillMark(ftp, disk)
    BY <1>4, <2>1, <2>3, GoneSafe
  <2> QED BY <2>1, <2>2, <2>3 DEF Closed
<1> QED BY <1>1, <1>3, <1>4

LEMMA StartTimeoutSafe ==
  ASSUME DiskSafe, LineInv', StartTimeout
  PROVE  DiskSafe' /\ Forward
<1> DEFINE f == [ftp EXCEPT !.start = FALSE]
<1>1. ftp # NoFtp /\ ftp.start /\ Close(f, disk)
  BY DEF StartTimeout
<1>2. ftp \in Sessions /\ ftp.crc = NoFile /\ ftp.file = "none"
  BY <1>1, SafeParts, Parts DEF Sound
<1>3. f \in Sessions /\ f.file = "none" /\ f.crc = NoFile
  BY <1>2 DEF Sessions
<1> HIDE DEF f
<1>4. FillMark(f, disk) = disk
  BY <1>3, SafeParts, FillMarkEffect
<1>5. Closed(f, disk)
  BY <1>1, <1>3, CloseEffect
<1>6. Calm' /\ disk' = disk
  BY <1>3, <1>4, <1>5 DEF Closed, Calm
<1> QED BY <1>6, StillSafe

\* What is asked for next.
LEMMA AskedFlow ==
  ASSUME IInv, NEW f \in Sessions, Asks(f)
  PROVE  /\ \A m \in Msgs(toApp') : m.op = "pull" =>
              m \in Msgs(toApp) \/ (m.off = 0 /\ m.n = 1 /\ f.last) \/ (m.off = f.off /\ ~f.last)
         /\ "rename" \in Ops(toApp') => "rename" \in Ops(toApp)
<1>1. toApp \in Seq(ToApp)
  BY Parts
<1>2. CASE toApp' = toApp
  BY <1>2
<1>3. ASSUME NEW w \in Windows, toApp' = Append(toApp, Request(f, w))
      PROVE  /\ \A m \in Msgs(toApp') : m.op = "pull" =>
                  m \in Msgs(toApp) \/ (m.off = 0 /\ m.n = 1 /\ f.last) \/ (m.off = f.off /\ ~f.last)
             /\ "rename" \in Ops(toApp') => "rename" \in Ops(toApp)
  <2> DEFINE m == Request(f, w)
  <2>1. m.op = "pull" /\ ((m.off = 0 /\ m.n = 1 /\ f.last) \/ (m.off = f.off /\ ~f.last))
    BY DEF Request, Pull
  <2> HIDE DEF m
  <2>2. Msgs(toApp') = Msgs(toApp) \cup {m} /\ Ops(toApp') = Ops(toApp) \cup {m.op}
    BY <1>1, <1>3, MsgsAppend, OpsAppend DEF m
  <2> QED BY <2>1, <2>2
<1> QED BY <1>2, <1>3 DEF Asks

LEMMA GetTimeoutSafe ==
  ASSUME DiskSafe, LineInv', GetTimeout
  PROVE  DiskSafe' /\ Forward
<1> DEFINE f == [ftp EXCEPT !.get = "fired"]
<1>1. ftp # NoFtp /\ ftp.get = "armed" /\ GetData(f) /\ UNCHANGED <<disk, calls, net, app>>
  BY DEF GetTimeout
<1>2. ftp \in Sessions
  BY <1>1, SafeParts
<1>3. f \in Sessions /\ Same(ftp, f) /\ f.pos = ftp.pos
  BY <1>2 DEF Sessions, Same
<1> HIDE DEF f
<1>4. Same(ftp, ftp') /\ ftp'.pos = ftp.pos /\ Asks(f)
  BY <1>1, <1>3, GetDataEffect DEF Same
<1>5. ftp' \in Sessions /\ ftp' # NoFtp
  BY <1>4, AbsenceAssumption DEF Same
<1>6. CASE Calm
  <2>1. Calm'
    BY <1>1, <1>4, <1>6 DEF Calm, Same
  <2> QED BY <1>1, <2>1, StillSafe
<1>7. CASE ~Calm
  <2>1. /\ \A m \in Msgs(toApp') : m.op = "pull" =>
              m \in Msgs(toApp) \/ (m.off = 0 /\ m.n = 1 /\ f.last) \/ (m.off = f.off /\ ~f.last)
        /\ "rename" \in Ops(toApp') => "rename" \in Ops(toApp)
    BY <1>3, <1>4, SafeParts, AskedFlow
  <2>2. Feeds'
    BY <1>1, <1>3, <1>4, <1>7, <2>1, SafeParts DEF DiskSafe, Feeds, Same
  <2>3. Renaming' => Renaming
    BY <1>1, <2>1 DEF Renaming
  <2>4. InCheck' => InCheck
    BY <1>1, <1>4, <2>3 DEF InCheck, Same
  <2>5. Checks'
    BY <1>1, <1>4, <1>7, <2>4 DEF DiskSafe, Checks, Same
  <2>6. DiskInv' /\ AppendsAtOffset' /\ Covers'
    BY <1>1, <1>4, <1>5, <1>7, ForwardSame
       DEF DiskSafe, DiskInv, AppendsAtOffset, Covers, Same
  <2> QED BY <1>1, <2>2, <2>5, <2>6, ForwardSame DEF DiskSafe
<1> QED BY <1>6, <1>7

\* The mark put on disk for the blocks that are there is covered by them.
LEMMA MarkedCovers ==
  ASSUME NEW d \in File, NEW e, NEW o \in Nat, Marked(d, e, o),
         \A i \in 1..(o - 1) : i <= LastBlock => d[i][1] # Junk
  PROVE  /\ e \in File /\ MarkedOffset(e) = o
         /\ \A i \in 1..(o - 1) : i <= LastBlock => e[i][1] # Junk
<1>1. LastBlock \in Nat
  BY ConstantsAssumption
<1>2. \A i \in 1..(o - 1) : i <= LastBlock => i \in 1..LastBlock
  BY <1>1
<1> QED BY <1>2 DEF Marked

LEMMA MarkScanSafe ==
  ASSUME DiskSafe, LineInv', MarkScan
  PROVE  DiskSafe' /\ Forward
<1>1. /\ ftp # NoFtp /\ ftp.file # "none" /\ ftp.mark /\ ~ftp.last
      /\ disk' = FillMark(ftp, disk) /\ ftp' = [ftp EXCEPT !.pos = ftp.off]
      /\ UNCHANGED <<calls, net, toApp, app>>
  BY DEF MarkScan, SeekBack
<1>2. ftp \in Sessions /\ ftp.off \in Nat /\ ~Calm
  BY <1>1, SafeParts
<1>3. ftp' \in Sessions /\ ftp' # NoFtp
  BY <1>1, <1>2, AbsenceAssumption DEF Sessions
<1>4. /\ ftp'.crc = ftp.crc /\ ftp'.off = ftp.off /\ ftp'.last = ftp.last /\ ftp'.id = ftp.id
      /\ ftp'.get = ftp.get /\ ftp'.mark = ftp.mark /\ ftp'.file = ftp.file /\ ftp'.pos = ftp.off
  BY <1>1, <1>2 DEF Sessions
<1>5. Feeds' /\ Checks' /\ AppendsAtOffset'
  BY <1>1, <1>2, <1>4
     DEF DiskSafe, Feeds, Checks, AppendsAtOffset, Calm, InCheck, Renaming
<1>6. CASE ftp.file = "tmp"
  <2>1. disk \in File
    BY <1>2, <1>6 DEF DiskSafe, DiskInv
  <2>2. Marked(disk, disk', ftp.off)
    BY <1>1, <1>2, <1>6, <2>1, SafeParts, FillMarkEffect
  <2>3. /\ \A i \in 1..(ftp.off - 1) : i <= LastBlock => disk[i][1] # Junk
        /\ ftp.off >= MarkedOffset(disk)
    BY <1>1, <1>2, <1>6 DEF DiskSafe, Covers
  <2>4. /\ disk' \in File /\ MarkedOffset(disk') = ftp.off
        /\ \A i \in 1..(ftp.off - 1) : i <= LastBlock => disk'[i][1] # Junk
    BY <1>2, <2>1, <2>2, <2>3, MarkedCovers
  <2>5. Covers'
    BY <1>2, <1>4, <2>4 DEF Covers, MarkCoversData
  <2>6. Forward
    BY <2>3, <2>4 DEF Forward
  <2>7. DiskInv'
    BY <1>4, <1>6, <2>4 DEF DiskInv
  <2> QED BY <1>5, <2>5, <2>6, <2>7 DEF DiskSafe
<1>7. CASE ftp.file # "tmp"
  <2>1. disk' = disk
    BY <1>1, <1>2, <1>7, SafeParts, FillMarkEffect
  <2>2. DiskInv' /\ Covers' /\ Forward
    BY <1>2, <1>3, <1>4, <1>7, <2>1, ForwardSame DEF DiskSafe, DiskInv, Covers, Calm
  <2> QED BY <1>5, <2>2 DEF DiskSafe
<1> QED BY <1>6, <1>7

\* The file START opens: its mark is covered, and START goes on from there.
LEMMA OpeningCovers ==
  ASSUME DiskSafe, RcvStart
  PROVE  LET c == Head(net).c
         IN /\ c \in Contents /\ Size[c] \in 1..(LastBlock + 1) /\ Opening \in File
            /\ MarkedOffset(Opening) > 0 =>
                 \A i \in 1..(MarkedOffset(Opening) - 1) : i <= LastBlock => Opening[i][1] # Junk
            /\ disk # Absent => Opening = disk
            /\ Size[c] # 1 =>
                 /\ Resuming \in 1..Size[c]
                 /\ \A i \in 1..(Resuming - 1) : i <= LastBlock => Opening[i][1] # Junk
                 /\ Resuming >= MarkedOffset(Opening) \/ MarkedOffset(Opening) > Size[c] - Remain[c]
                 /\ Resuming = 1 \/ Resuming = MarkedOffset(Opening)
<1> DEFINE c == Head(net).c
<1>1. c \in Contents /\ Opening \in File
  BY StartFresh DEF DiskSafe
<1>2. Size[c] \in 1..(LastBlock + 1) /\ Size[c] \in Nat
  BY <1>1, ConstantsAssumption
<1>3. MarkedOffset(Opening) \in Nat
  BY <1>1, MarkTypes
<1>4. MarkedOffset(Opening) > 0 =>
        \A i \in 1..(MarkedOffset(Opening) - 1) : i <= LastBlock => Opening[i][1] # Junk
  <2>1. CASE disk = Absent
    <3>1. Opening[0] = <<Junk, 0>>
      BY <2>1, ConstantsAssumption DEF Opening, Blank
    <3> QED BY <3>1, ConstantsAssumption DEF MarkedOffset
  <2>2. CASE disk # Absent
    BY <2>2, SafeParts DEF Opening, MarkCoversData
  <2> QED BY <2>1, <2>2
<1>5. ASSUME Size[c] # 1
      PROVE  /\ Resuming \in 1..Size[c]
             /\ Resuming = 1 \/ Resuming = MarkedOffset(Opening)
             /\ Resuming >= MarkedOffset(Opening) \/ MarkedOffset(Opening) > Size[c] - Remain[c]
  <2>1. Resuming \in 1..Size[c]
    BY <1>1, <1>5, ResumeWithin DEF Resuming
  <2> QED BY <1>2, <1>3, <2>1 DEF Resuming, ResumeFrom
<1>6. Size[c] # 1 => \A i \in 1..(Resuming - 1) : i <= LastBlock => Opening[i][1] # Junk
  BY <1>2, <1>3, <1>4, <1>5
<1> QED BY <1>1, <1>2, <1>4, <1>5, <1>6 DEF Opening

LEMMA RcvStartSafe ==
  ASSUME DiskSafe, LineInv', RcvStart
  PROVE  DiskSafe' /\ Forward
<1> DEFINE c == Head(net).c
<1>1. LineInv /\ IInv
  BY SafeParts
<1>2. /\ Calm /\ toApp = << >> /\ calls = 0 /\ net # << >> /\ Head(net).op = "start"
      /\ net' = Tail(net) /\ Ops(net') \subseteq Closers
  BY <1>1, StartFresh
<1>3. /\ c \in Contents /\ c # NoFile /\ Size[c] \in 1..(LastBlock + 1) /\ Opening \in File
      /\ MarkedOffset(Opening) > 0 =>
           \A i \in 1..(MarkedOffset(Opening) - 1) : i <= LastBlock => Opening[i][1] # Junk
      /\ disk # Absent => Opening = disk
      /\ Size[c] # 1 =>
           /\ Resuming \in 1..Size[c]
           /\ \A i \in 1..(Resuming - 1) : i <= LastBlock => Opening[i][1] # Junk
           /\ Resuming >= MarkedOffset(Opening) \/ MarkedOffset(Opening) > Size[c] - Remain[c]
           /\ Resuming = 1 \/ Resuming = MarkedOffset(Opening)
  BY OpeningCovers, ConstantsAssumption
<1>4. MarkedOffset(Opening) \in Nat
  BY <1>3, MarkTypes
<1>5. ASSUME disk' = Opening
      PROVE  MarkCoversData' /\ Forward
  BY <1>3, <1>4, <1>5 DEF MarkCoversData, Forward
<1>6. ASSUME Size[c] # 1, Marked(Opening, disk', Resuming)
      PROVE  /\ MarkCoversData' /\ Forward /\ disk' \in File /\ MarkedOffset(disk') = Resuming
             /\ \A i \in 1..(Resuming - 1) : i <= LastBlock => disk'[i][1] # Junk
  <2>1. Resuming \in Nat
    BY <1>3, <1>6
  <2>2. /\ disk' \in File /\ MarkedOffset(disk') = Resuming
        /\ \A i \in 1..(Resuming - 1) : i <= LastBlock => disk'[i][1] # Junk
    BY <1>3, <1>6, <2>1, MarkedCovers
  <2> QED BY <1>2, <1>3, <1>6, <2>2 DEF MarkCoversData, Forward
<1>7. CASE StartLeft
  <2>1. Calm' /\ disk' = disk
    BY <1>7 DEF StartLeft, Calm
  <2> QED BY <2>1, StillSafe
<1>8. CASE StartGone
  <2>1. MarkCoversData' /\ Forward
    BY <1>5, <1>6, <1>8, ForwardSame DEF StartGone
  <2> QED BY <1>8, <2>1
       DEF StartGone, DiskSafe, Feeds, Checks, DiskInv, AppendsAtOffset, Covers, Calm
<1>9. \A m \in Msgs(net') : m.op \in Closers
  BY <1>2, MsgsOps
<1>10. CASE StartChecks
  <2>1. /\ ftp'.crc = c /\ ftp'.file = "tmp" /\ ~ftp'.mark /\ ~ftp'.last
        /\ ftp'.off = Size[c] /\ Resuming = Size[c] /\ Size[c] # 1 /\ SizeOf(c) = Size[c]
        /\ disk' = Opening /\ calls' = 1 /\ toApp' = toApp
    BY <1>2, <1>3, <1>10, SizeOfType DEF StartChecks
  <2>2. app'.st = "xfer" => app'.c = c
    <3>1. app' = app /\ 1 \in 1..Len(net) /\ net[1] = Head(net)
      BY <1>1, <1>2, <1>10, LineParts DEF StartChecks
    <3> QED BY <1>1, <1>2, <3>1 DEF LineInv, StartInv, Announced
  <2>3. Feeds'
    BY <1>2, <1>3, <1>9, <2>1, <2>2 DEF Feeds, Msgs, Closers
  <2>4. Checks' /\ DiskInv' /\ AppendsAtOffset'
    BY <1>3, <2>1 DEF Checks, DiskInv, AppendsAtOffset
  <2>5. Covers'
    <3>1. Size[c] = MarkedOffset(Opening) /\ Size[c] > 0
      BY <1>3, <2>1
    <3> QED BY <1>3, <1>4, <1>5, <2>1, <3>1 DEF Covers
  <2> QED BY <1>5, <2>1, <2>3, <2>4, <2>5 DEF DiskSafe
<1>11. CASE StartPulls
  <2>1. /\ ftp' \in Sessions /\ ftp'.crc = c /\ ftp'.file = "tmp"
        /\ ftp'.last = (Size[c] = 1) /\ Asks(ftp') /\ calls' = 0 /\ app' = app
        /\ IF ftp'.last THEN disk' = Opening
           ELSE ftp'.off = Resuming /\ ftp'.pos = Resuming /\ Marked(Opening, disk', Resuming)
    BY <1>2, <1>11 DEF StartPulls
  <2>2. app'.st = "xfer" => app'.c = c
    <3>1. 1 \in 1..Len(net) /\ net[1] = Head(net)
      BY <1>1, <1>2, LineParts
    <3> QED BY <1>1, <1>2, <2>1, <3>1 DEF LineInv, StartInv, Announced
  <2>3. /\ \A m \in Msgs(toApp') : m.op = "pull" =>
             (m.off = 0 /\ m.n = 1 /\ ftp'.last) \/ (m.off = ftp'.off /\ ~ftp'.last)
        /\ "rename" \notin Ops(toApp')
    <3>1. Msgs(toApp) = {} /\ Ops(toApp) = {}
      BY <1>2 DEF Msgs, Ops
    <3> QED BY <1>1, <2>1, <3>1, AskedFlow
  <2>4. ~ftp'.last => Size[c] # 1 /\ ftp'.off >= 1 /\ ftp'.off # 0
    <3>1. ~ftp'.last => Size[c] # 1 /\ ftp'.off = Resuming
      BY <2>1, Zenon
    <3>2. Size[c] # 1 => Resuming \in Nat /\ Resuming >= 1
      BY <1>3
    <3> QED BY <3>1, <3>2
  <2>5. Feeds'
    BY <1>9, <2>1, <2>2, <2>3, <2>4 DEF Feeds, Closers
  <2>6. Checks'
    BY <1>9, <2>1, <2>3 DEF Checks, InCheck, Renaming, Closers
  <2>7. CASE ftp'.last
    <3>1. DiskInv' /\ AppendsAtOffset' /\ Covers'
      BY <1>3, <1>5, <2>1, <2>7 DEF DiskInv, AppendsAtOffset, Covers
    <3> QED BY <1>5, <2>1, <2>5, <2>6, <2>7, <3>1 DEF DiskSafe
  <2>8. CASE ~ftp'.last
    <3>1. /\ MarkCoversData' /\ Forward /\ disk' \in File /\ MarkedOffset(disk') = Resuming
          /\ \A i \in 1..(Resuming - 1) : i <= LastBlock => disk'[i][1] # Junk
      BY <1>6, <2>1, <2>4, <2>8
    <3>2. DiskInv' /\ AppendsAtOffset'
      BY <2>1, <2>8, <3>1 DEF DiskInv, AppendsAtOffset
    <3>3. Resuming \in Nat
      BY <1>3, <2>4, <2>8
    <3>4. Covers'
      BY <2>1, <2>8, <3>1, <3>3 DEF Covers
    <3> QED BY <2>5, <2>6, <3>1, <3>2, <3>4 DEF DiskSafe
  <2> QED BY <2>7, <2>8
<1> QED BY <1>1, <1>7, <1>8, <1>10, <1>11, RcvStartEffect

\* A data packet for a session that has not begun its check lands at the offset.
LEMMA AppendPlace ==
  ASSUME DiskSafe, ftp # NoFtp, DataAppended
  PROVE  ~Calm /\ ~InCheck /\ ftp.counter = 0 /\ ftp.pos = ftp.off
<1>1. ~ftp.last /\ ftp.file = "tmp" /\ ftp.off < SizeOf(ftp.crc)
  BY DEF DataAppended
<1>2. ~Calm
  BY <1>1, SafeParts
<1>3. ~InCheck
  BY <1>1, <1>2, SafeParts DEF DiskSafe, Checks
<1>4. calls = 0 /\ ftp.counter = 0
  BY <1>3, SafeParts, LineParts DEF InCheck
<1> QED BY <1>1, <1>2, <1>3, <1>4 DEF DiskSafe, AppendsAtOffset

LEMMA RcvDataSafe ==
  ASSUME DiskSafe, LineInv', RcvData
  PROVE  DiskSafe' /\ Forward
<1> DEFINE b == Head(net).block
<1>1. LineInv /\ IInv
  BY SafeParts
<1>2. /\ net # << >> /\ Head(net).op = "data" /\ net' = Tail(net)
      /\ UNCHANGED <<published, app, up, starts, losses>>
  BY <1>1, RcvDataEffect
<1>3. Head(net) \in Msgs(net) /\ Msgs(net') \subseteq Msgs(net) /\ b \in Block
  <2>1. Msgs(net) = Msgs(net') \cup {Head(net)}
    BY <1>2, SafeParts, MsgsTail
  <2> QED BY <1>1, <1>2, <2>1, NetTail DEF FromApp
<1>4. CASE UNCHANGED <<ftp, disk, calls, marks, toApp>>
  <2>1. FlowLess
    BY <1>1, <1>2, <1>4, FlowNext
  <2> QED BY <1>4, <2>1, StillSafe
<1>5. ASSUME ftp # NoFtp, ftp.file # "none", NEW h, DataRefused(h)
      PROVE  DiskSafe' /\ Forward
  <2>1. /\ h \in Sessions /\ h.crc = ftp.crc /\ h.off = ftp.off /\ h.last = ftp.last
        /\ h.file = ftp.file /\ h.mark = ftp.mark /\ h.id = ftp.id + 1 /\ h.counter = ftp.counter
        /\ ftp.last => h.get = "none"
        /\ ~ftp.last => h.pos = ftp.pos
        /\ calls' = calls
    BY <1>5 DEF DataRefused, Same
  <2>2. PICK why \in {"write", "limit"} : SendOrClose(h, disk, End(why))
    BY <1>5 DEF DataRefused
  <2>3. Sent(h, disk, End(why)) /\ End(why).op = "end"
    BY <2>1, <2>2, SendEffect DEF Sent, End
  <2>4. toApp' = toApp \/ toApp' = Append(toApp, End(why))
    BY <2>3 DEF Sent
  <2>5. FlowData /\ (Renaming' => Renaming)
    <3>1. CASE toApp' = toApp
      BY <1>1, <1>2, <3>1, FlowNext DEF FlowLess
    <3>2. CASE toApp' = Append(toApp, End(why))
      <4>1. FlowData
        BY <1>1, <1>2, <2>3, <3>2, FlowNext
      <4>2. Ops(toApp') = Ops(toApp) \cup {"end"}
        BY <2>3, <3>2, SafeParts, OpsAppend
      <4> QED BY <1>3, <4>1, <4>2 DEF Renaming
    <3> QED BY <2>4, <3>1, <3>2
  <2>6. ftp' = h /\ InCheck' => InCheck
    BY <2>1, <2>5 DEF InCheck
  <2>7. ~Calm
    BY <1>5, SafeParts
  <2>8. h.id >= ftp.id
    BY <1>5, <2>1, SafeParts
  <2>9. /\ h.file = "tmpR" => disk \in File
        /\ h.file = "final" => disk = Absent
        /\ h.file = "tmp" /\ ~h.last /\ h.counter = 0 /\ calls' = 0 => h.pos = h.off
    BY <1>5, <2>1, <2>7 DEF DiskSafe, DiskInv, AppendsAtOffset
  <2> QED BY <1>5, <2>1, <2>3, <2>5, <2>6, <2>8, <2>9, SentSafe
<1>6. CASE ftp # NoFtp /\ ftp.file # "none" /\ DataZeroth
  <2>1. ~Calm /\ ftp.crc \in Contents /\ disk \in File /\ b[1] = ftp.crc
    <3>1. ~Calm
      BY <1>6, SafeParts
    <3>2. b[1] = ftp.crc
      BY <1>2, <1>3, <3>1 DEF DiskSafe, Feeds
    <3> QED BY <1>6, <3>1, <3>2, SafeParts DEF DiskSafe, DiskInv, DataZeroth, Calm
  <2>2. /\ ftp' \in Sessions /\ ftp' # NoFtp /\ ftp'.crc = ftp.crc /\ ftp'.file = "tmp" /\ ftp'.last
        /\ ftp.last /\ ftp'.id = ftp.id + 1 /\ ftp'.get = "none" /\ disk' = Write(disk, 0, b)
        /\ toApp' = toApp
    BY <1>6, AbsenceAssumption DEF DataZeroth
  <2>3. disk' \in File /\ MarkedOffset(disk') = 0
    <3>1. disk' = [disk EXCEPT ![0] = b] /\ 0 \in 0..LastBlock
      BY <2>2, ConstantsAssumption DEF Write
    <3>2. disk'[0] = b /\ disk' \in File
      BY <1>3, <2>1, <3>1 DEF File
    <3> QED BY <2>1, <3>2, ConstantsAssumption DEF MarkedOffset
  <2>4. Feeds'
    BY <1>2, <1>3, <2>1, <2>2 DEF DiskSafe, Feeds, Calm
  <2>5. Checks'
    <3>1. ftp'.id >= 1
      BY <1>6, <2>2, SafeParts
    <3> QED BY <2>2, <3>1 DEF Checks
  <2>6. DiskInv' /\ AppendsAtOffset' /\ Covers' /\ Forward
    BY <2>2, <2>3 DEF DiskInv, AppendsAtOffset, Covers, MarkCoversData, Forward
  <2> QED BY <2>4, <2>5, <2>6 DEF DiskSafe
<1>7. CASE ftp # NoFtp /\ ftp.file # "none" /\ DataAppended
  <2>1. ~Calm /\ ~InCheck /\ ftp.counter = 0 /\ ftp.pos = ftp.off
    BY <1>7, AppendPlace
  <2>2. /\ ftp' \in Sessions /\ ftp' # NoFtp /\ ftp'.crc = ftp.crc /\ ftp'.file = "tmp"
        /\ ftp'.off = ftp.off + 1 /\ ftp'.pos = ftp.pos + 1
        /\ disk' = Write(disk, ftp.off, b) /\ calls' = calls /\ Asks(ftp')
        /\ ~ftp.last /\ ftp.file = "tmp" /\ ftp.off < SizeOf(ftp.crc)
    BY <1>7, <2>1, AbsenceAssumption DEF DataAppended
  <2>3. /\ ftp.crc \in Contents /\ disk \in File /\ b[1] = ftp.crc /\ ftp.off >= 1
        /\ \A i \in 1..(ftp.off - 1) : i <= LastBlock => disk[i][1] # Junk
        /\ ftp.off >= MarkedOffset(disk) /\ MarkCoversData
    BY <1>2, <1>3, <1>7, <2>1, <2>2, SafeParts DEF DiskSafe, Feeds, DiskInv, Covers, Calm
  <2>4. ftp.off \in 1..LastBlock /\ ftp.off \in Nat
    BY <1>7, <2>2, <2>3, SafeParts
  <2>5. /\ disk' \in File /\ disk'[0] = disk[0] /\ disk'[ftp.off] = b
        /\ \A i \in 0..LastBlock : i # ftp.off => disk'[i] = disk[i]
    BY <1>3, <2>2, <2>3, <2>4, ConstantsAssumption DEF Write, File
  <2>6. MarkedOffset(disk') = MarkedOffset(disk)
    BY <2>5 DEF MarkedOffset
  <2>7. b[1] # Junk
    BY <2>3, ConstantsAssumption
  <2>8. \A i \in 1..LastBlock : disk[i][1] # Junk => disk'[i][1] # Junk
    BY <2>5, <2>7, ConstantsAssumption
  <2>9. \A i \in 1..(ftp'.off - 1) : i <= LastBlock => disk'[i][1] # Junk
    <3>1. SUFFICES ASSUME NEW i \in 1..(ftp'.off - 1), i <= LastBlock
                   PROVE  disk'[i][1] # Junk
      OBVIOUS
    <3>2. i \in 1..LastBlock /\ (i = ftp.off \/ i \in 1..(ftp.off - 1))
      BY <2>2, <2>4, <3>1
    <3> QED BY <2>3, <2>5, <2>7, <2>8, <3>1, <3>2
  <2>10. MarkCoversData' /\ Forward
    <3>1. MarkedOffset(disk) \in Nat /\ LastBlock \in Nat
      BY <2>3, MarkTypes, SafeParts
    <3>2. \A i \in 1..(MarkedOffset(disk) - 1) : i <= LastBlock => i \in 1..LastBlock
      BY <3>1
    <3>3. disk # Absent
      BY <2>3, AbsenceAssumption
    <3> QED BY <2>3, <2>6, <2>8, <3>1, <3>2, <3>3 DEF MarkCoversData, Forward
  <2>11. Covers'
    <3>1. ftp'.off >= MarkedOffset(disk')
      BY <2>2, <2>3, <2>4, <2>6, MarkTypes
    <3> QED BY <2>9, <2>10, <3>1 DEF Covers
  <2>12. /\ \A m \in Msgs(toApp') : m.op = "pull" =>
               m \in Msgs(toApp) \/ (m.off = 0 /\ m.n = 1 /\ ftp'.last) \/ (m.off = ftp'.off /\ ~ftp'.last)
         /\ "rename" \in Ops(toApp') => "rename" \in Ops(toApp)
    BY <1>1, <2>2, AskedFlow
  <2>13. Feeds'
    <3>1. ftp'.off >= 1 /\ ftp'.off # 0
      BY <2>2, <2>4
    <3> QED BY <1>2, <1>3, <2>1, <2>2, <2>12, <3>1 DEF DiskSafe, Feeds
  <2>14. ~InCheck'
    BY <1>3, <2>1, <2>2, <2>12 DEF InCheck, Renaming
  <2>15. Checks' /\ DiskInv'
    BY <2>2, <2>5, <2>14 DEF Checks, DiskInv
  <2>16. AppendsAtOffset'
    BY <2>1, <2>2 DEF AppendsAtOffset
  <2> QED BY <2>10, <2>11, <2>13, <2>15, <2>16 DEF DiskSafe
<1> QED BY <1>1, <1>4, <1>5, <1>6, <1>7, RcvDataEffect

LEMMA RcvRenameRspSafe ==
  ASSUME DiskSafe, LineInv', RcvRenameRsp
  PROVE  DiskSafe' /\ Forward
<1>1. /\ IInv /\ net # << >> /\ Head(net).op = "renameRsp"
  BY SafeParts, RcvRenameEffect
<1>2. Msgs(net) = Msgs(Tail(net)) \cup {Head(net)} /\ (Head(net).ok => Renaming)
  <2>1. Msgs(net) = Msgs(Tail(net)) \cup {Head(net)}
    BY <1>1, SafeParts, MsgsTail
  <2> QED BY <1>1, <2>1 DEF Renaming
<1>3. CASE disk' = Absent /\ Reset
  <2>1. Calm'
    BY <1>3 DEF Reset, Calm
  <2> QED BY <1>3, <2>1, StillSafe
<1>4. CASE /\ net' = Tail(net) /\ UNCHANGED <<calls, app, up>> /\ ftp = NoFtp
           /\ UNCHANGED <<ftp, disk, published, marks, toApp>>
  <2>1. FlowLess
    BY <1>1, <1>4, FlowNext
  <2> QED BY <1>4, <2>1, StillSafe
<1>5. ASSUME net' = Tail(net), UNCHANGED <<calls, app, up>>, ftp # NoFtp, NEW h, RenameAnswered(h)
      PROVE  DiskSafe' /\ Forward
  <2>1. /\ Rename.op # "pull" /\ End("none").op # "pull"
    BY DEF Rename, End
  <2>2. ASSUME NEW d \in {disk, Absent}, NEW k, Refiled(h, k), k # "tmp",
               k = "tmpR" => disk \in File, k = "final" => d = Absent,
               d = disk \/ k \in {"none", "final"},
               Head(net).ok \/ (k = "none" /\ toApp' = toApp), NEW m, m.op # "pull",
               Sent(h, d, m) \/ (Closed(h, d) /\ toApp' = toApp)
        PROVE  DiskSafe' /\ Forward
    <3>1. toApp' = toApp \/ toApp' = Append(toApp, m)
      BY <2>2 DEF Sent
    <3>2. FlowData /\ (toApp' = toApp => FlowLess)
      BY <1>1, <1>5, <2>2, <3>1, FlowNext
    <3>3. ftp' = h /\ InCheck' => InCheck
      BY <1>2, <1>5, <2>2, <3>2 DEF InCheck, Refiled, FlowLess
    <3>4. /\ h \in Sessions /\ h.crc = ftp.crc /\ h.off = ftp.off /\ h.last = ftp.last
          /\ h.id = ftp.id /\ h.get = ftp.get /\ h.mark = ftp.mark /\ h.file = k
      BY <2>2 DEF Refiled
    <3>5. h.id >= ftp.id
      BY <1>5, <3>4, SafeParts
    <3>6. /\ h.file # "tmp" /\ (h.file = "tmpR" => disk \in File)
          /\ (h.file = "final" => d = Absent) /\ (d = disk \/ h.file \in {"none", "final"})
      BY <2>2, <3>4
    <3>7. Sent(h, d, m) \/ Closed(h, d)
      BY <2>2
    <3> QED BY <1>5, <2>2, <3>2, <3>3, <3>4, <3>5, <3>6, <3>7, SentSafe
  <2>3. CASE Head(net).ok /\ Refiled(h, "final") /\ Sent(h, Absent, End("none"))
    BY <2>1, <2>2, <2>3
  <2>4. CASE Head(net).ok /\ Refiled(h, "tmpR") /\ disk # Absent /\ Sent(h, disk, Rename)
    <3>1. disk \in File
      BY <2>4, SafeParts
    <3> QED BY <2>1, <2>2, <2>4, <3>1
  <2>5. CASE Head(net).ok /\ Refiled(h, "none") /\ Sent(h, disk, Rename)
    BY <2>1, <2>2, <2>5
  <2>6. CASE Refiled(h, "none") /\ Closed(h, Deleted(ftp, disk)) /\ toApp' = toApp
    <3>1. Deleted(ftp, disk) \in {disk, Absent}
      BY DEF Deleted
    <3> QED BY <2>1, <2>2, <2>6, <3>1
  <2> QED BY <1>5, <2>3, <2>4, <2>5, <2>6 DEF RenameAnswered
<1> QED BY <1>1, <1>3, <1>4, <1>5, RcvRenameEffect

LEMMA CalculateSafe ==
  ASSUME DiskSafe, LineInv', Calculate
  PROVE  DiskSafe' /\ Forward
<1>1. /\ IInv /\ calls > 0 /\ calls - 1 \in Nat /\ UNCHANGED <<net, app, up, starts, losses>>
      /\ InCheck
  BY SafeParts, CalculateEffect DEF InCheck
<1>2. CASE ftp = NoFtp /\ UNCHANGED <<ftp, disk>>
  BY <1>2, StillSafe DEF Calm
<1>3. ASSUME ftp # NoFtp, NEW n \in Nat, NEW h, Checked(h, n)
      PROVE  DiskSafe' /\ Forward
  <2>1. /\ h \in Sessions /\ h.crc = ftp.crc /\ h.mark = ftp.mark /\ h.off = ftp.off
        /\ h.last = ftp.last /\ h.id = ftp.id /\ h.get = ftp.get
    BY <1>3 DEF Checked, Counted
  <2>2. ftp.id \in Nat /\ ftp.off \in Nat
    BY <1>3, SafeParts
  <2>3. CASE /\ h.file = ftp.file /\ h.counter > 0 /\ ftp' = h
             /\ UNCHANGED <<disk, calls, toApp>>
    <3>1. FlowLess
      BY <1>1, <2>3 DEF FlowLess, FlowData, Renaming
    <3>2. CASE Calm
      <4>1. Calm'
        BY <1>3, <2>1, <2>3, <3>2 DEF Calm
      <4> QED BY <2>3, <4>1, StillSafe
    <3>3. CASE ~Calm
      <4>1. AppendsAtOffset'
        BY <2>3 DEF AppendsAtOffset
      <4>2. /\ ftp.file = "tmpR" => disk \in File
            /\ ftp.file = "final" => disk = Absent
        BY <3>3 DEF DiskSafe, DiskInv
      <4>3. ftp.id >= ftp.id
        BY <2>2
      <4> QED BY <1>1, <1>3, <2>1, <2>3, <3>1, <3>3, <4>1, <4>2, <4>3, OnwardSafe DEF FlowLess
    <3> QED BY <3>2, <3>3
  <2>4. ASSUME NEW m, m.op # "pull", toApp' = toApp \/ toApp' = Append(toApp, m)
        PROVE  FlowData
    <3>1. toApp \in Seq(ToApp)
      BY SafeParts
    <3>2. Msgs(toApp') = Msgs(toApp) \/ Msgs(toApp') = Msgs(toApp) \cup {m}
      BY <2>4, <3>1, MsgsAppend
    <3> QED BY <1>1, <2>4, <3>2 DEF FlowData
  <2>5. CASE /\ h.file = ftp.file /\ h.pos = SizeOf(h.crc) /\ h.counter = 0
             /\ Sent(h, disk, Rename)
    <3>1. FlowData
      BY <2>4, <2>5 DEF Sent, Rename
    <3>2. /\ h.file = "tmpR" => disk \in File
          /\ h.file = "final" => disk = Absent
          /\ h.file = "tmp" /\ ~h.last => h.pos = h.off
      <4>1. CASE Calm
        BY <1>3, <2>5, <4>1, SafeParts
      <4>2. CASE ~Calm
        BY <1>1, <2>1, <2>5, <4>2 DEF DiskSafe, DiskInv, Checks
      <4> QED BY <4>1, <4>2
    <3>3. h.id >= ftp.id
      BY <2>1, <2>2
    <3> QED BY <1>1, <1>3, <2>1, <2>5, <3>1, <3>2, <3>3, SentSafe
  <2>6. CASE h.file = "none" /\ Sent(h, Deleted(ftp, disk), End("crc"))
    <3>1. FlowData
      BY <2>4, <2>6 DEF Sent, End
    <3>2. Deleted(ftp, disk) \in {disk, Absent}
      BY DEF Deleted
    <3>3. h.id >= ftp.id
      BY <2>1, <2>2
    <3> QED BY <1>1, <1>3, <2>1, <2>6, <3>1, <3>2, <3>3, SentSafe
  <2> QED BY <1>3, <2>3, <2>5, <2>6 DEF Checked
<1> QED BY <1>1, <1>2, <1>3, CalculateEffect

\* The app speaks up: nothing of what it says concerns the session's file.
LEMMA AppSpeaksSafe ==
  ASSUME DiskSafe, LineInv', AppPrepare \/ AppCancel \/ \E c \in Contents : AppStart(c)
  PROVE  DiskSafe' /\ Forward
<1>1. UNCHANGED <<ftp, disk, calls, toApp>>
  BY DEF AppPrepare, AppCancel, AppStart, device
<1>2. net \in Seq(FromApp)
  BY SafeParts
<1>3. app \in [st : {"idle", "prep", "ready", "xfer"}, c : Contents, fed : BOOLEAN]
  BY SafeParts, Parts
<1>4. CASE \E c \in Contents : AppStart(c)
  <2>1. PICK c \in Contents : net' = Append(net, [op |-> "start", c |-> c])
    BY <1>4 DEF AppStart
  <2>2. Ops(net') = Ops(net) \cup {"start"}
    BY <1>2, <2>1, OpsAppend
  <2>3. Calm'
    BY <2>2, LineParts DEF LineInv, StartInv, Starting
  <2> QED BY <1>1, <2>3, StillSafe
<1>5. CASE AppPrepare \/ AppCancel
  <2>1. PICK m \in {[op |-> "prepare"], [op |-> "cancel"]} : net' = Append(net, m)
    BY <1>5 DEF AppPrepare, AppCancel
  <2>2. Msgs(net') = Msgs(net) \cup {m} /\ m.op \notin {"data", "renameRsp"}
    BY <1>2, <2>1, MsgsAppend
  <2>3. app'.st # "xfer"
    BY <1>3, <1>5 DEF AppPrepare, AppCancel
  <2>4. FlowLess
    BY <1>1, <2>2, <2>3 DEF FlowLess, FlowData, Renaming
  <2> QED BY <1>1, <2>4, StillSafe
<1> QED BY <1>4, <1>5

LEMMA AppServeSafe ==
  ASSUME DiskSafe, LineInv', AppServe
  PROVE  DiskSafe' /\ Forward
<1> DEFINE m == Head(toApp)
<1>1. /\ toApp # << >> /\ toApp' = Tail(toApp) /\ UNCHANGED <<ftp, disk, calls>>
      /\ toApp \in Seq(ToApp) /\ net \in Seq(FromApp)
  BY SafeParts DEF AppServe, device
<1>2. /\ Msgs(toApp) = Msgs(toApp') \cup {m} /\ Ops(toApp) = Ops(toApp') \cup {m.op}
      /\ m \in ToApp
  BY <1>1, MsgsTail, OpsTail
<1>3. app \in [st : {"idle", "prep", "ready", "xfer"}, c : Contents, fed : BOOLEAN]
  BY SafeParts, Parts
<1>4. CASE Calm
  BY <1>1, <1>4, StillSafe DEF Calm
<1>5. CASE ~Calm
  <2>1. /\ app'.st = "xfer" => app.st = "xfer" /\ app'.c = app.c
        /\ \A x \in Msgs(net') : x \in Msgs(net)
             \/ (x.op = "renameRsp" /\ m.op = "rename")
             \/ x.op = "endRsp"
             \/ /\ app.st = "xfer" /\ m.op = "pull" /\ x.op = "data" /\ x.block[1] = app.c
                /\ x.block[2] = 0 => m.off = 0 /\ x.id = 0
    <3>1. CASE /\ m.op = "pull" /\ app.st = "xfer" /\ m.off < Size[app.c]
               /\ net' = net \o Packets(app.c, m.off, m.n)
               /\ app' = [app EXCEPT !.fed = @ \/ m.off = 0]
      <4> DEFINE r == Packets(app.c, m.off, m.n)
      <4>1. m.off \in Nat /\ m.n \in Nat
        BY <1>2, <3>1 DEF ToApp
      <4>2. /\ r \in Seq(FromApp)
            /\ \A i \in 1..Len(r) : /\ r[i].op = "data" /\ r[i].id = i - 1
                                    /\ r[i].block = <<app.c, m.off + i - 1>>
        <5>1. app.c \in Contents /\ m.off < Size[app.c]
          BY <1>3, <3>1
        <5> HIDE DEF m
        <5> QED BY <4>1, <5>1, PacketsMade
      <4> HIDE DEF r
      <4>3. Msgs(net') = Msgs(net) \cup Msgs(r)
        BY <1>1, <3>1, <4>2, MsgsConcat DEF r
      <4>4. ASSUME NEW i \in 1..Len(r)
            PROVE  r[i].op = "data" /\ r[i].block[1] = app.c
                   /\ (r[i].block[2] = 0 => m.off = 0 /\ r[i].id = 0)
        <5>1. i \in Nat /\ i >= 1
          BY <4>2
        <5>2. r[i].block[1] = app.c /\ r[i].block[2] = m.off + i - 1
          BY <4>2
        <5>3. m.off + i - 1 = 0 => m.off = 0 /\ i - 1 = 0
          BY <4>1, <5>1
        <5> HIDE DEF m
        <5> QED BY <4>2, <5>2, <5>3
      <4>5. app'.c = app.c
        BY <1>3, <3>1
      <4>6. \A x \in Msgs(r) : /\ x.op = "data" /\ x.block[1] = app.c
                               /\ x.block[2] = 0 => m.off = 0 /\ x.id = 0
        BY <4>4 DEF Msgs
      <4>7. app'.st = app.st
        BY <1>3, <3>1
      <4>8. m.op = "pull" /\ app.st = "xfer"
        BY <3>1
      <4> HIDE DEF m
      <4> QED BY <4>3, <4>5, <4>6, <4>7, <4>8
    <3>2. CASE m.op = "pull" /\ UNCHANGED <<net, app>>
      BY <3>2
    <3>3. CASE /\ m.op = "rename" /\ UNCHANGED app
               /\ net' = Append(net, [op |-> "renameRsp", ok |-> app.st = "xfer" /\ app.fed])
      <4> DEFINE x == [op |-> "renameRsp", ok |-> app.st = "xfer" /\ app.fed]
      <4>1. x.op = "renameRsp"
        OBVIOUS
      <4> HIDE DEF x
      <4>2. Msgs(net') = Msgs(net) \cup {x}
        BY <1>1, <3>3, MsgsAppend DEF x
      <4> QED BY <3>3, <4>1, <4>2
    <3>4. CASE /\ m.op = "end" /\ net' = Append(net, [op |-> "endRsp"])
               /\ app' = [app EXCEPT !.st = "idle"]
      <4>1. Msgs(net') = Msgs(net) \cup {[op |-> "endRsp"]} /\ app'.st = "idle"
        BY <1>1, <1>3, <3>4, MsgsAppend
      <4> QED BY <4>1
    <3> QED BY <3>1, <3>2, <3>3, <3>4 DEF AppServe
  <2>2. Renaming' => Renaming
    BY <1>2, <2>1 DEF Renaming
  <2>3. InCheck' => InCheck
    BY <1>1, <2>2 DEF InCheck
  <2>4. Feeds'
    <3>1. ~Calm'
      BY <1>1, <1>5 DEF Calm
    <3>2. m.op = "pull" /\ m.off = 0 => ftp.last
      BY <1>2, <1>5 DEF DiskSafe, Feeds
    <3>3. app.st = "xfer" => app.c = ftp.crc
      BY <1>5 DEF DiskSafe, Feeds
    <3>4. \A x \in Msgs(net') : x.op = "data" =>
            x.block[1] = ftp.crc /\ (x.block[2] = 0 => x.id = 0 /\ ftp.last)
      <4> SUFFICES ASSUME NEW x \in Msgs(net'), x.op = "data"
                   PROVE  x.block[1] = ftp.crc /\ (x.block[2] = 0 => x.id = 0 /\ ftp.last)
        OBVIOUS
      <4>1. CASE x \in Msgs(net)
        BY <1>5, <4>1 DEF DiskSafe, Feeds
      <4> QED BY <2>1, <3>2, <3>3, <4>1
    <3>5. \A x \in Msgs(toApp') : x.op = "pull" /\ x.off = 0 => x.n = 1 /\ ftp.last
      BY <1>2, <1>5 DEF DiskSafe, Feeds
    <3>6. ~ftp.last => ftp.off >= 1
      BY <1>5 DEF DiskSafe, Feeds
    <3> QED BY <1>1, <2>1, <3>3, <3>4, <3>5, <3>6 DEF Feeds
  <2>5. Checks'
    BY <1>1, <1>5, <2>3 DEF DiskSafe, Checks
  <2>6. DiskInv' /\ AppendsAtOffset' /\ Covers' /\ Forward
    BY <1>1, <1>5, ForwardSame DEF DiskSafe, DiskInv, AppendsAtOffset, Covers, Calm
  <2> QED BY <2>4, <2>5, <2>6 DEF DiskSafe
<1> QED BY <1>4, <1>5

LEMMA EnvironmentSafe ==
  ASSUME DiskSafe, LineInv', Environment
  PROVE  DiskSafe' /\ Forward
<1>1. net \in Seq(FromApp) /\ IInv
  BY SafeParts
<1>2. CASE LoseData
  <2>1. /\ net # << >> /\ net' = Tail(net) /\ UNCHANGED <<ftp, disk, calls, toApp, app>>
    BY <1>2 DEF LoseData, Arrives, device
  <2>2. FlowLess
    BY <1>1, <2>1, FlowNext
  <2> QED BY <2>1, <2>2, StillSafe
<1>3. CASE LinkDown
  <2>1. /\ toApp' = << >> /\ app' = [app EXCEPT !.st = "idle"]
        /\ UNCHANGED <<ftp, disk, calls>>
    BY <1>3 DEF LinkDown, device
  <2>2. PICK k \in 0..Len(net) : net' = Append(SubSeq(net, 1, k), [op |-> "disconnect"])
    BY <1>3 DEF LinkDown
  <2> DEFINE q == SubSeq(net, 1, k)
  <2>3. Msgs(q) \subseteq Msgs(net) /\ q \in Seq(FromApp)
    BY <1>1, MsgsFront
  <2> HIDE DEF q
  <2>4. Msgs(net') = Msgs(q) \cup {[op |-> "disconnect"]}
    BY <2>2, <2>3, MsgsAppend DEF q
  <2>5. app'.st = "idle"
    BY <1>1, <2>1, Parts
  <2>6. Msgs(toApp') = {} /\ Ops(toApp') = {}
    BY <2>1 DEF Msgs, Ops
  <2>7. FlowLess
    BY <2>3, <2>4, <2>5, <2>6 DEF FlowLess, FlowData, Renaming
  <2> QED BY <2>1, <2>7, StillSafe
<1>4. CASE LinkUp \/ ModeKey
  <2>1. UNCHANGED <<ftp, disk, calls, net, toApp, app>>
    BY <1>4 DEF LinkUp, ModeKey, device
  <2>2. FlowLess
    BY <2>1 DEF FlowLess, FlowData, Renaming
  <2> QED BY <2>1, <2>2, StillSafe
<1>5. CASE PowerLoss
  <2>1. Calm' /\ disk' = disk
    BY <1>5 DEF PowerLoss, Reset, Calm
  <2> QED BY <2>1, StillSafe
<1> QED BY <1>2, <1>3, <1>4, <1>5 DEF Environment
-----------------------------------------------------------------------------
(* The invariant and what follows from it.                                  *)

\* The initial state has it.
LEMMA InitSafe == Init => DiskSafe
<1> SUFFICES ASSUME Init PROVE DiskSafe
  OBVIOUS
<1>1. ftp = NoFtp /\ disk = Absent
  BY DEF Init
<1> QED BY <1>1, InitLine
     DEF DiskSafe, Feeds, Checks, DiskInv, AppendsAtOffset, Covers, MarkCoversData, Calm

\* Every step keeps it, and takes no mark back.
LEMMA StepSafe ==
  ASSUME "restart" \notin Faults
  PROVE  DiskSafe /\ [Next]_vars => DiskSafe' /\ Forward
<1> SUFFICES ASSUME DiskSafe, [Next]_vars PROVE DiskSafe' /\ Forward
  OBVIOUS
<1>1. LineInv'
  BY SafeParts, StepLine
<1>2. CASE UNCHANGED vars
  <2>1. UNCHANGED <<ftp, disk, calls, net, toApp, app>>
    BY <1>2 DEF vars
  <2>2. FlowLess
    BY <2>1 DEF FlowLess, FlowData, Renaming
  <2> QED BY <1>1, <2>1, <2>2, StillSafe
<1>3. CASE Receive
  BY <1>1, <1>3, RcvPrepareSafe, RcvStartSafe, RcvDataSafe, RcvStopSafe,
     RcvRenameRspSafe DEF Receive
<1>4. CASE TaskStart
  BY <1>1, <1>4, TaskStartSafe
<1>5. CASE Timers
  BY <1>1, <1>5, StartTimeoutSafe, GetTimeoutSafe, MarkScanSafe DEF Timers
<1>6. CASE Calculate
  BY <1>1, <1>6, CalculateSafe
<1>7. CASE App
  BY <1>1, <1>7, AppSpeaksSafe, AppServeSafe DEF App
<1>8. CASE Environment
  BY <1>1, <1>8, EnvironmentSafe
<1> QED BY <1>2, <1>3, <1>4, <1>5, <1>6, <1>7, <1>8 DEF Next

\* What AppendsBehind says of a step.
Counts == /\ ftp # NoFtp /\ ftp' # NoFtp /\ ftp.file = "tmp" /\ ~ftp.last
          /\ ftp'.off = ftp.off + 1
Behind == Counts => disk # Absent /\ disk' = Write(disk, ftp.off, Head(net).block)

\* A session that keeps its offset counts nothing.
LEMMA NoneCounted ==
  ASSUME DiskSafe, ftp' = NoFtp \/ ftp = NoFtp \/ ftp'.off = ftp.off \/ ftp.file = "none"
  PROVE  Behind
BY SafeParts DEF Behind, Counts

\* The only block that is counted is the one the packet brings, and before the
\* check the FILE stands at the offset.
LEMMA RcvDataBehind ==
  ASSUME DiskSafe, RcvData
  PROVE  Behind
<1>1. \/ UNCHANGED ftp
      \/ ftp # NoFtp /\ ((\E h : DataRefused(h)) \/ DataZeroth \/ DataAppended)
  BY SafeParts, RcvDataEffect
<1>2. CASE UNCHANGED ftp
  BY <1>2, NoneCounted
<1>3. ASSUME ftp # NoFtp, NEW h, DataRefused(h)
      PROVE  Behind
  <2>1. PICK why \in {"write", "limit"} : SendOrClose(h, disk, End(why))
    BY <1>3 DEF DataRefused
  <2>2. h \in Sessions /\ h.off = ftp.off
    BY <1>3 DEF DataRefused, Same
  <2>3. ftp' = h \/ ftp' = NoFtp
    BY <2>1, <2>2, SendEffect DEF Closed
  <2> QED BY <2>2, <2>3, NoneCounted
<1>4. CASE DataZeroth
  BY <1>4 DEF DataZeroth, Behind, Counts
<1>5. CASE ftp # NoFtp /\ DataAppended
  <2>1. ftp.pos = ftp.off /\ ~Calm
    BY <1>5, AppendPlace
  <2>2. disk # Absent
    BY <1>5, <2>1, SafeParts, AbsenceAssumption DEF DiskSafe, DiskInv, DataAppended
  <2>3. disk' = Write(disk, ftp.off, Head(net).block)
    BY <1>5, <2>1 DEF DataAppended
  <2> QED BY <2>2, <2>3 DEF Behind
<1> QED BY <1>1, <1>2, <1>3, <1>4, <1>5

\* START finds no file open, and nothing else the app sends moves the offset.
LEMMA ReceiveBehind ==
  ASSUME DiskSafe, Receive
  PROVE  Behind
<1>1. CASE RcvPrepare
  BY <1>1, NoneCounted DEF RcvPrepare
<1>2. CASE RcvStart
  BY <1>2, SafeParts, StartFresh, NoneCounted
<1>3. CASE RcvData
  BY <1>3, RcvDataBehind
<1>4. CASE RcvCancel \/ RcvStop
  <2>1. ftp' = ftp \/ (ftp # NoFtp /\ Close(ftp, disk))
    BY <1>4 DEF RcvCancel, RcvStop
  <2>2. ftp' = ftp \/ ftp' = NoFtp
    BY <2>1, SafeParts, CloseEffect DEF Closed
  <2> QED BY <2>2, NoneCounted
<1>5. CASE RcvRenameRsp
  <2>1. Reset \/ ftp' = ftp \/ \E h : RenameAnswered(h)
    BY <1>5, SafeParts, RcvRenameEffect
  <2>2. ASSUME NEW h, RenameAnswered(h)
        PROVE  ftp' = NoFtp \/ ftp'.off = ftp.off
    BY <2>2 DEF RenameAnswered, Refiled, Sent, Closed
  <2> QED BY <2>1, <2>2, NoneCounted DEF Reset
<1> QED BY <1>1, <1>2, <1>3, <1>4, <1>5 DEF Receive

LEMMA TimersBehind ==
  ASSUME DiskSafe, Timers
  PROVE  Behind
<1>1. CASE StartTimeout
  BY <1>1, SafeParts, Parts, NoneCounted DEF StartTimeout, Sound
<1>2. CASE GetTimeout
  <2>1. ftp \in Sessions /\ GetData([ftp EXCEPT !.get = "fired"])
    BY <1>2, SafeParts DEF GetTimeout
  <2>2. [ftp EXCEPT !.get = "fired"] \in Sessions /\ [ftp EXCEPT !.get = "fired"].off = ftp.off
    BY <2>1 DEF Sessions
  <2>3. ftp'.off = ftp.off
    BY <2>1, <2>2, GetDataEffect DEF Same
  <2> QED BY <2>3, NoneCounted
<1>3. CASE MarkScan
  <2>1. ftp \in Sessions /\ ftp' = [ftp EXCEPT !.pos = ftp.off]
    BY <1>3, SafeParts DEF MarkScan, SeekBack
  <2>2. ftp'.off = ftp.off
    BY <2>1 DEF Sessions
  <2> QED BY <2>2, NoneCounted
<1> QED BY <1>1, <1>2, <1>3 DEF Timers

LEMMA StepBehind ==
  ASSUME DiskSafe, [Next]_vars
  PROVE  Behind
<1>1. CASE UNCHANGED vars
  BY <1>1, NoneCounted DEF vars
<1>2. CASE Receive
  BY <1>2, ReceiveBehind
<1>3. CASE TaskStart
  <2>1. ftp' = ftp \/ ftp = NoFtp
    BY <1>3 DEF TaskStart
  <2> QED BY <2>1, NoneCounted
<1>4. CASE Timers
  BY <1>4, TimersBehind
<1>5. CASE Calculate
  <2>1. ftp' = ftp \/ \E n \in Nat : \E h : Checked(h, n)
    BY <1>5, SafeParts, CalculateEffect
  <2>2. ASSUME NEW n \in Nat, NEW h, Checked(h, n)
        PROVE  ftp' = NoFtp \/ ftp'.off = ftp.off
    BY <2>2 DEF Checked, Counted, Sent, Closed
  <2> QED BY <2>1, <2>2, NoneCounted
<1>6. CASE App
  BY <1>6, NoneCounted DEF App, AppPrepare, AppCancel, AppServe, AppStart, device
<1>7. CASE Environment
  <2>1. ftp' = ftp \/ ftp' = NoFtp
    BY <1>7 DEF Environment, LoseData, LinkDown, LinkUp, ModeKey, PowerLoss, Reset, device
  <2> QED BY <2>1, NoneCounted
<1> QED BY <1>1, <1>2, <1>3, <1>4, <1>5, <1>6, <1>7 DEF Next

\* The FILE stands at the offset between two blocks, and each block that is
\* counted is written there and nowhere else, wherever mark writes and the check
\* have moved the FILE (file_transfer_download_doing).
THEOREM AppendsSafe ==
  ASSUME "restart" \notin Faults
  PROVE  Spec => []AppendsAtOffset /\ AppendsBehind
<1>1. DiskSafe => AppendsAtOffset
  BY DEF DiskSafe
<1>2. DiskSafe /\ [Next]_vars => [Behind]_vars
  BY StepBehind
<1> QED BY <1>1, <1>2, InitSafe, StepSafe, PTL DEF Spec, AppendsBehind, Behind, Counts

\* No resume mark promises a block that was not written, across closes, power
\* losses and later sessions (file_transfer_download_vaild_mark_fill).
THEOREM MarkSafe ==
  ASSUME "restart" \notin Faults
  PROVE  Spec => []MarkCoversData
<1>1. DiskSafe => MarkCoversData
  BY DEF DiskSafe, Covers
<1> QED BY <1>1, InitSafe, StepSafe, PTL DEF Spec

\* The offset a mark stands for only goes back when a START finds it beyond the
\* whole blocks of its file (file_transfer_download_intermittent_parse).
THEOREM ResumeSafe ==
  ASSUME "restart" \notin Faults
  PROVE  Spec => ResumeNeverRegresses
<1>1. DiskSafe /\ [Next]_vars => [Forward]_vars
  BY StepSafe
<1> QED BY <1>1, InitSafe, StepSafe, PTL DEF Spec, ResumeNeverRegresses, Forward
-----------------------------------------------------------------------------
(* What is renamed.  Block 0 is asked for and sent last, the check reads the *)
(* file from its first block on, and a rename is only asked for or granted  *)
(* when the file on disk is the one that was announced.                     *)

\* A message that carries or asks for block 0, or another one.
Late(m) == (m.op = "data" /\ m.block[2] = 0) \/ (m.op = "pull" /\ m.off = 0)
Early(m) == (m.op = "data" /\ m.block[2] # 0) \/ (m.op = "pull" /\ m.off # 0)

\* Nothing comes behind block 0.
ZeroLast(q) == \A i, j \in 1..Len(q) : i < j /\ Late(q[i]) => ~Early(q[j])
Ordered ==
  /\ ZeroLast(net) /\ ZeroLast(toApp)
  /\ \A m \in Msgs(net), n \in Msgs(toApp) : Late(m) => ~Early(n)

\* The file on disk is open, and its block 0 is the announced one.
OnDisk == ftp.file \in {"tmp", "tmpR"}
First == disk[0] = <<ftp.crc, 0>>

\* While such a file is checked no packet is under way that would be taken.
Clear == ~Calm /\ InCheck /\ ftp.last /\ ftp.file = "tmp" /\ First =>
  /\ \A m \in Msgs(net) : m.op = "data" => m.id = 0
  /\ \A m \in Msgs(toApp) : m.op = "pull" => m.off = 0

\* The check has read block 0 of what is on disk, and all the blocks behind it
\* if block 0 was the announced one.
Reads == ~Calm /\ InCheck /\ OnDisk =>
  /\ ftp.read = << >> => ftp.pos = 0
  /\ ftp.read # << >> => ftp.read[1] = disk[0]
  /\ First => \A i \in 1..Len(ftp.read) : i <= SizeOf(ftp.crc) => ftp.read[i] = disk[i - 1]
  /\ First /\ Len(ftp.read) < SizeOf(ftp.crc) => ftp.pos = Len(ftp.read) /\ ftp.file = "tmp"

Verified == ~Calm /\ Renaming /\ OnDisk =>
  /\ \A i \in 0..(SizeOf(ftp.crc) - 1) : disk[i] = <<ftp.crc, i>>
  /\ Len(ftp.read) >= SizeOf(ftp.crc)

FileSafe == DiskSafe /\ (~Calm => Ordered) /\ Clear /\ Reads /\ Verified /\ PublishedIntact

LEMMA ZeroTail ==
  ASSUME NEW S, NEW q \in Seq(S), q # << >>, ZeroLast(q)
  PROVE  ZeroLast(Tail(q)) /\ (Late(Head(q)) => \A m \in Msgs(Tail(q)) : ~Early(m))
<1> DEFINE r == Tail(q)
<1>1. /\ Len(q) \in Nat /\ Len(q) >= 1 /\ Len(r) = Len(q) - 1
      /\ \A i \in 1..Len(r) : r[i] = q[i + 1]
  OBVIOUS
<1>2. Head(q) = q[1]
  OBVIOUS
<1> HIDE DEF r
<1>3. 1 \in 1..Len(q) /\ \A i \in 1..Len(r) : i + 1 \in 1..Len(q) /\ 1 < i + 1
  BY <1>1
<1>4. \A i, j \in 1..Len(r) : i < j => i + 1 < j + 1
  BY <1>1
<1>5. ZeroLast(r)
  BY <1>1, <1>3, <1>4 DEF ZeroLast
<1>6. Late(Head(q)) => \A m \in Msgs(r) : ~Early(m)
  BY <1>1, <1>2, <1>3 DEF ZeroLast, Msgs
<1> QED BY <1>5, <1>6 DEF r

LEMMA ZeroConcat ==
  ASSUME NEW S, NEW q \in Seq(S), NEW r \in Seq(S), ZeroLast(q),
         \/ \A m \in Msgs(r) : ~Early(m)
         \/ \A m \in Msgs(q) \cup Msgs(r) : ~Late(m)
  PROVE  ZeroLast(q \o r)
<1> DEFINE s == q \o r
<1>1. /\ Len(q) \in Nat /\ Len(r) \in Nat /\ Len(s) = Len(q) + Len(r)
      /\ \A i \in 1..Len(s) : s[i] = IF i <= Len(q) THEN q[i] ELSE r[i - Len(q)]
  OBVIOUS
<1>2. Msgs(s) = Msgs(q) \cup Msgs(r)
  BY MsgsConcat
<1> HIDE DEF s
<1>3. \A i \in 1..Len(s) : s[i] \in Msgs(s)
  BY DEF Msgs
<1>4. CASE \A m \in Msgs(q) \cup Msgs(r) : ~Late(m)
  <2>1. ZeroLast(s)
    BY <1>2, <1>3, <1>4 DEF ZeroLast
  <2> QED BY <2>1 DEF s
<1>5. CASE \A m \in Msgs(r) : ~Early(m)
  <2>1. SUFFICES ASSUME NEW i \in 1..Len(s), NEW j \in 1..Len(s), i < j, Late(s[i])
                 PROVE  ~Early(s[j])
    BY DEF ZeroLast, s
  <2>2. CASE j <= Len(q)
    <3>1. i \in 1..Len(q) /\ j \in 1..Len(q) /\ s[i] = q[i] /\ s[j] = q[j]
      BY <1>1, <2>1, <2>2
    <3> QED BY <2>1, <3>1 DEF ZeroLast
  <2>3. CASE ~(j <= Len(q))
    <3>1. j - Len(q) \in 1..Len(r) /\ s[j] = r[j - Len(q)]
      BY <1>1, <2>3
    <3> QED BY <1>5, <3>1 DEF Msgs
  <2> QED BY <2>2, <2>3
<1> QED BY <1>4, <1>5 DEF s

LEMMA ZeroAppend ==
  ASSUME NEW S, NEW q \in Seq(S), NEW m, ZeroLast(q), ~Early(m) \/ \A x \in Msgs(q) : ~Late(x)
  PROVE  ZeroLast(Append(q, m))
<1> DEFINE r == Append(q, m)
<1>1. Len(q) \in Nat /\ Len(r) = Len(q) + 1 /\ r[Len(q) + 1] = m /\ \A i \in 1..Len(q) : r[i] = q[i]
  OBVIOUS
<1> HIDE DEF r
<1>2. SUFFICES ASSUME NEW i \in 1..Len(r), NEW j \in 1..Len(r), i < j, Late(r[i])
               PROVE  ~Early(r[j])
  BY DEF ZeroLast, r
<1>3. i \in 1..Len(q) /\ (j \in 1..Len(q) \/ j = Len(q) + 1)
  BY <1>1, <1>2
<1>4. r[i] = q[i] /\ q[i] \in Msgs(q)
  BY <1>1, <1>3 DEF Msgs
<1> QED BY <1>1, <1>2, <1>3, <1>4 DEF ZeroLast

LEMMA ZeroFront ==
  ASSUME NEW S, NEW q \in Seq(S), NEW k \in 0..Len(q), ZeroLast(q)
  PROVE  ZeroLast(SubSeq(q, 1, k))
<1> DEFINE r == SubSeq(q, 1, k)
<1>1. k \in Nat /\ Len(q) \in Nat /\ k <= Len(q)
  OBVIOUS
<1>2. \A i \in 1..k : q[i] \in S
  BY <1>1
<1>3. Len(r) = k /\ \A i \in 1..k : r[i] = q[i]
  BY <1>1, <1>2, SubSeqProperties
<1>4. \A i \in 1..k : i \in 1..Len(q)
  BY <1>1
<1> HIDE DEF r
<1>5. ZeroLast(r)
  BY <1>3, <1>4 DEF ZeroLast
<1> QED BY <1>5 DEF r

LEMMA FileParts ==
  ASSUME FileSafe
  PROVE  /\ DiskSafe /\ LineInv /\ IInv /\ Clear /\ Reads /\ Verified /\ PublishedIntact
         /\ net \in Seq(FromApp) /\ toApp \in Seq(ToApp)
         /\ ~Calm => /\ Ordered /\ ftp # NoFtp /\ ftp \in Sessions /\ ftp.crc \in Contents
                     /\ SizeOf(ftp.crc) = Size[ftp.crc] /\ Size[ftp.crc] \in 1..(LastBlock + 1)
                     /\ OnDisk => disk \in File
                     /\ ftp.read \in Seq(Block) /\ ftp.pos \in Nat /\ ftp.id \in Nat
<1>1. DiskSafe /\ LineInv /\ IInv /\ net \in Seq(FromApp) /\ toApp \in Seq(ToApp)
  BY SafeParts DEF FileSafe
<1>2. ASSUME ~Calm
      PROVE  /\ Ordered /\ ftp # NoFtp /\ ftp \in Sessions /\ ftp.crc \in Contents
             /\ SizeOf(ftp.crc) = Size[ftp.crc] /\ Size[ftp.crc] \in 1..(LastBlock + 1)
             /\ OnDisk => disk \in File
             /\ ftp.read \in Seq(Block) /\ ftp.pos \in Nat /\ ftp.id \in Nat
  <2>1. ftp # NoFtp /\ ftp.crc # NoFile /\ Ordered
    BY <1>2 DEF Calm, FileSafe
  <2>2. ftp \in Sessions
    BY <1>1, <2>1, SafeParts
  <2>3. ftp.crc \in Contents /\ ftp.read \in Seq(Block) /\ ftp.pos \in Nat /\ ftp.id \in Nat
    BY <2>1, <2>2 DEF Sessions
  <2>4. OnDisk => disk \in File
    BY <1>1, <1>2 DEF DiskSafe, DiskInv, OnDisk
  <2> QED BY <2>1, <2>2, <2>3, <2>4, ConstantsAssumption DEF SizeOf
<1> QED BY <1>1, <1>2 DEF FileSafe

\* An open check has a first block to compare.
LEMMA VerifiedFirst ==
  ASSUME FileSafe, ~Calm, Renaming, OnDisk
  PROVE  First /\ Len(ftp.read) >= SizeOf(ftp.crc)
<1>1. SizeOf(ftp.crc) \in Nat /\ SizeOf(ftp.crc) >= 1
  BY FileParts, ConstantsAssumption
<1>2. 0 \in 0..(SizeOf(ftp.crc) - 1)
  BY <1>1
<1> QED BY <1>2 DEF FileSafe, Verified, First

\* The messages stay in order when one is taken and a command is sent that asks
\* for no other block, or when block 0 is not waited for.
LEMMA OrderNext ==
  ASSUME FileSafe, ~Calm, net' = net \/ (net # << >> /\ net' = Tail(net)),
         toApp' = toApp \/ \E m : toApp' = Append(toApp, m) /\ (~Early(m) \/ ~ftp.last)
  PROVE  Ordered'
<1>1. /\ net \in Seq(FromApp) /\ toApp \in Seq(ToApp) /\ Ordered
  BY FileParts
<1>2. ZeroLast(net') /\ Msgs(net') \subseteq Msgs(net)
  BY <1>1, ZeroTail, MsgsTail DEF Ordered
<1>3. ~ftp.last => /\ \A m \in Msgs(net) : ~Late(m)
                   /\ \A m \in Msgs(toApp) : ~Late(m)
  <2>1. \A m \in Msgs(toApp) : m.op \in {"rename", "end", "pull"}
    BY <1>1 DEF Msgs, ToApp
  <2>2. \A m \in Msgs(net) : m.op # "pull"
    BY <1>1 DEF Msgs, FromApp
  <2>3. \A m \in Msgs(net) : m.op = "data" => (m.block[2] = 0 => ftp.last)
    BY DEF FileSafe, DiskSafe, Feeds
  <2>4. \A m \in Msgs(toApp) : m.op = "pull" /\ m.off = 0 => ftp.last
    BY DEF FileSafe, DiskSafe, Feeds
  <2> QED BY <2>1, <2>2, <2>3, <2>4 DEF Late
<1>4. CASE toApp' = toApp
  BY <1>1, <1>2, <1>4 DEF Ordered
<1>5. ASSUME NEW m, toApp' = Append(toApp, m), ~Early(m) \/ ~ftp.last
      PROVE  Ordered'
  <2>1. ZeroLast(toApp') /\ Msgs(toApp') = Msgs(toApp) \cup {m}
    BY <1>1, <1>3, <1>5, ZeroAppend, MsgsAppend DEF Ordered
  <2>2. \A x \in Msgs(net'), n \in Msgs(toApp') : Late(x) => ~Early(n)
    BY <1>1, <1>2, <1>3, <1>5, <2>1 DEF Ordered
  <2> QED BY <1>2, <2>1, <2>2 DEF Ordered
<1> QED BY <1>4, <1>5

\* Steps that leave the file of the session, and what was read of it, alone.
LEMMA StillFile ==
  ASSUME FileSafe, DiskSafe', PublishedIntact',
         \/ Calm'
         \/ /\ ~Calm /\ Ordered' /\ disk' = disk
            /\ InCheck' => InCheck
            /\ Renaming' => Renaming
            /\ \A m \in Msgs(net') : m.op = "data" => m \in Msgs(net)
            /\ \A m \in Msgs(toApp') : m.op = "pull" => m \in Msgs(toApp) \/ m.off = 0 \/ ~ftp.last
            /\ ftp'.crc = ftp.crc /\ ftp'.last = ftp.last /\ ftp'.read = ftp.read
            /\ ftp'.file = "tmp" => ftp.file = "tmp"
            /\ OnDisk' => OnDisk
            /\ OnDisk' /\ InCheck' =>
                 \/ ftp'.pos = ftp.pos /\ ftp'.file = ftp.file
                 \/ ftp'.pos = 0 /\ ~(First /\ Len(ftp.read) < SizeOf(ftp.crc))
  PROVE  FileSafe'
<1>1. CASE Calm'
  BY <1>1 DEF FileSafe, Clear, Reads, Verified
<1>2. CASE ~Calm'
  <2>1. ~Calm /\ disk' = disk /\ First' = First /\ ftp'.crc = ftp.crc /\ ftp'.read = ftp.read
    BY <1>2 DEF First
  <2>2. Clear'
    BY <1>2, <2>1 DEF FileSafe, Clear
  <2>3. Reads'
    BY <1>2, <2>1 DEF FileSafe, Reads
  <2>4. Verified'
    BY <1>2, <2>1 DEF FileSafe, Verified
  <2> QED BY <1>2, <2>2, <2>3, <2>4 DEF FileSafe
<1> QED BY <1>1, <1>2

\* Steps that leave no check behind.
LEMMA Unchecked ==
  ASSUME DiskSafe', PublishedIntact', ~InCheck' /\ (~Calm' => Ordered')
  PROVE  FileSafe'
<1>1. ~Renaming'
  BY DEF InCheck
<1> QED BY <1>1 DEF FileSafe, Clear, Reads, Verified

\* The session goes on, and so do the messages.
LEMMA PassFile ==
  ASSUME FileSafe, DiskSafe', PublishedIntact', disk' = disk, ftp' = ftp, calls' = calls,
         FlowLess, net' = net \/ (net # << >> /\ net' = Tail(net)), toApp' = toApp
  PROVE  FileSafe'
<1>1. CASE Calm
  BY <1>1, StillFile DEF Calm
<1>2. CASE ~Calm
  <2>1. Ordered'
    BY <1>2, OrderNext
  <2>2. InCheck' => InCheck
    BY DEF InCheck, FlowLess
  <2> QED BY <1>2, <2>1, <2>2, StillFile DEF FlowLess, FlowData, OnDisk
<1> QED BY <1>1, <1>2

\* What is published stays, and what is withdrawn was the last.
LEMMA StillPublished ==
  ASSUME IInv, PublishedIntact, published' = published \/ published' = Withdrawn(ftp)
  PROVE  PublishedIntact'
<1>1. published \in Seq(Final)
  BY Parts DEF Finals
<1>2. CASE published' = published
  BY <1>2 DEF PublishedIntact
<1>3. CASE published' = SubSeq(published, 1, Len(published) - 1)
  <2> DEFINE k == Len(published) - 1
  <2>1. Len(published) \in Nat /\ k \in Int
    BY <1>1
  <2>2. \A i \in 1..k : i \in 1..Len(published)
    BY <2>1
  <2>3. \A i \in 1..k : published[i] \in Final
    BY <1>1, <2>2
  <2> HIDE DEF k
  <2>4. /\ Len(published') = IF 1 <= k THEN k - 1 + 1 ELSE 0
        /\ \A i \in 1..(k - 1 + 1) : published'[i] = published[1 + i - 1]
    BY <1>3, <2>1, <2>3, SubSeqProperties DEF k
  <2>5. \A i \in 1..Len(published') : i \in 1..k /\ published'[i] = published[i]
    BY <2>1, <2>4
  <2> QED BY <2>2, <2>5 DEF PublishedIntact
<1> QED BY <1>2, <1>3 DEF Withdrawn
-----------------------------------------------------------------------------
(* One lemma per action: the file that is renamed is the one announced.     *)

LEMMA RcvPrepareFile ==
  ASSUME FileSafe, DiskSafe', RcvPrepare
  PROVE  FileSafe'
<1>1. /\ net # << >> /\ net' = Tail(net) /\ UNCHANGED <<ftp, disk, calls, toApp, published>>
      /\ app' = app \/ (app.st = "prep" /\ app' = [app EXCEPT !.st = "ready"])
  BY DEF RcvPrepare, Arrives
<1>2. app \in [st : {"idle", "prep", "ready", "xfer"}, c : Contents, fed : BOOLEAN]
  BY FileParts, Parts
<1>3. FlowLess
  BY <1>1, <1>2, FileParts, FlowNext
<1> QED BY <1>1, <1>3, FileParts, StillPublished, PassFile

LEMMA TaskStartFile ==
  ASSUME FileSafe, DiskSafe', TaskStart
  PROVE  FileSafe'
<1>1. /\ UNCHANGED <<disk, calls, net, toApp, published>>
      /\ app' = app \/ (app.st = "prep" /\ app' = [app EXCEPT !.st = "ready"])
      /\ ftp' = ftp \/ ftp' = NewFtp(TRUE)
  BY DEF TaskStart
<1>2. app \in [st : {"idle", "prep", "ready", "xfer"}, c : Contents, fed : BOOLEAN]
  BY FileParts, Parts
<1>3. FlowLess
  BY <1>1, <1>2 DEF FlowLess, FlowData, Renaming
<1>4. PublishedIntact'
  BY <1>1, FileParts, StillPublished
<1>5. ftp' = ftp \/ Calm'
  BY <1>1, NewFtpFields DEF Calm
<1> QED BY <1>1, <1>3, <1>4, <1>5, PassFile, StillFile

LEMMA RcvStopFile ==
  ASSUME FileSafe, DiskSafe', RcvCancel \/ RcvStop
  PROVE  FileSafe'
<1>1. /\ net # << >> /\ net' = Tail(net) /\ UNCHANGED <<calls, toApp, app, published>>
      /\ (ftp = NoFtp /\ UNCHANGED <<ftp, disk>>) \/ (ftp # NoFtp /\ Close(ftp, disk))
  BY DEF RcvCancel, RcvStop, Arrives
<1>2. FlowLess
  BY <1>1, FileParts, FlowNext
<1>3. PublishedIntact'
  BY <1>1, FileParts, StillPublished
<1>4. CASE UNCHANGED <<ftp, disk>>
  BY <1>1, <1>2, <1>3, <1>4, PassFile
<1>5. CASE ftp' = NoFtp
  BY <1>3, <1>5, StillFile DEF Calm
<1>6. ASSUME ftp # NoFtp, Close(ftp, disk)
      PROVE  UNCHANGED <<ftp, disk>> \/ ftp' = NoFtp
  BY <1>6 DEF Close
<1> QED BY <1>1, <1>4, <1>5, <1>6

LEMMA StartTimeoutFile ==
  ASSUME FileSafe, DiskSafe', StartTimeout
  PROVE  FileSafe'
<1> DEFINE f == [ftp EXCEPT !.start = FALSE]
<1>1. ftp # NoFtp /\ ftp.start /\ Close(f, disk) /\ published' = published
  BY DEF StartTimeout
<1>2. ftp \in Sessions /\ ftp.crc = NoFile
  BY <1>1, FileParts, SafeParts, Parts DEF Sound
<1>3. f.crc = NoFile
  BY <1>2 DEF Sessions
<1> HIDE DEF f
<1>4. Calm'
  BY <1>1, <1>3 DEF Close, Calm
<1> QED BY <1>1, <1>4, FileParts, StillPublished, StillFile

LEMMA GetTimeoutFile ==
  ASSUME FileSafe, DiskSafe', GetTimeout
  PROVE  FileSafe'
<1> DEFINE f == [ftp EXCEPT !.get = "fired"]
<1>1. /\ ftp # NoFtp /\ ftp.get = "armed" /\ GetData(f)
      /\ UNCHANGED <<disk, calls, net, app, published>>
  BY DEF GetTimeout
<1>2. ftp \in Sessions
  BY <1>1, FileParts, SafeParts
<1>3. f \in Sessions /\ Same(ftp, f) /\ f.pos = ftp.pos
  BY <1>2 DEF Sessions, Same
<1> HIDE DEF f
<1>4. Same(ftp, ftp') /\ ftp'.pos = ftp.pos /\ Asks(f)
  BY <1>1, <1>3, GetDataEffect DEF Same
<1>5. PublishedIntact'
  BY <1>1, FileParts, StillPublished
<1>6. CASE Calm
  <2>1. Calm'
    BY <1>1, <1>4, <1>6 DEF Calm, Same
  <2> QED BY <1>5, <2>1, StillFile
<1>7. CASE ~Calm
  <2>1. /\ \A m \in Msgs(toApp') : m.op = "pull" =>
              m \in Msgs(toApp) \/ (m.off = 0 /\ m.n = 1 /\ f.last) \/ (m.off = f.off /\ ~f.last)
        /\ "rename" \in Ops(toApp') => "rename" \in Ops(toApp)
    BY <1>3, <1>4, FileParts, AskedFlow
  <2>2. toApp' = toApp \/ \E m : toApp' = Append(toApp, m) /\ (~Early(m) \/ ~ftp.last)
    <3>1. \A w : f.last => ~Early(Request(f, w))
      BY DEF Early, Request, Pull
    <3> QED BY <1>3, <1>4, <3>1 DEF Asks, Same
  <2>3. Ordered'
    BY <1>1, <1>7, <2>2, OrderNext
  <2>4. /\ ftp'.crc = ftp.crc /\ ftp'.last = ftp.last /\ ftp'.read = ftp.read
        /\ ftp'.file = ftp.file /\ ftp'.pos = ftp.pos /\ f.last = ftp.last
    BY <1>3, <1>4 DEF Same
  <2>5. (Renaming' => Renaming) /\ (InCheck' => InCheck)
    BY <1>1, <2>1, <2>4 DEF Renaming, InCheck
  <2>6. \A m \in Msgs(toApp') : m.op = "pull" => m \in Msgs(toApp) \/ m.off = 0 \/ ~ftp.last
    BY <2>1, <2>4
  <2>7. OnDisk' => OnDisk
    BY <2>4 DEF OnDisk
  <2> QED BY <1>1, <1>5, <1>7, <2>3, <2>4, <2>5, <2>6, <2>7, StillFile
<1> QED BY <1>6, <1>7

LEMMA MarkScanFile ==
  ASSUME FileSafe, DiskSafe', MarkScan
  PROVE  FileSafe'
<1>1. /\ ftp # NoFtp /\ ftp.file # "none" /\ ftp.mark /\ ~ftp.last
      /\ ftp' = [ftp EXCEPT !.pos = ftp.off]
      /\ UNCHANGED <<calls, net, toApp, app, published>>
  BY DEF MarkScan, SeekBack
<1>2. ~Calm /\ ftp \in Sessions
  BY <1>1, FileParts, SafeParts
<1>3. ~InCheck
  BY <1>1, <1>2, FileParts DEF DiskSafe, Checks
<1>4. ftp'.file = ftp.file
  BY <1>1, <1>2 DEF Sessions
<1>5. ~InCheck'
  BY <1>1, <1>3, <1>4 DEF InCheck, Renaming
<1>6. Ordered'
  BY <1>1, <1>2, OrderNext
<1> QED BY <1>1, <1>5, <1>6, FileParts, StillPublished, Unchecked

LEMMA RcvStartFile ==
  ASSUME FileSafe, DiskSafe', RcvStart
  PROVE  FileSafe'
<1>1. LineInv /\ IInv /\ PublishedIntact'
  <2>1. published' = published
    BY DEF RcvStart
  <2> QED BY <2>1, FileParts, StillPublished
<1>2. /\ Calm /\ toApp = << >> /\ calls = 0 /\ net # << >> /\ Head(net).op = "start"
      /\ net' = Tail(net) /\ Ops(net') \subseteq Closers
  BY <1>1, StartFresh
<1>3. \A m \in Msgs(net') : m.op \in Closers
  BY <1>2, MsgsOps
<1>4. ZeroLast(net') /\ \A m \in Msgs(net') : ~Late(m)
  <2>1. \A m \in Msgs(net') : ~Late(m)
    BY <1>3 DEF Closers, Late
  <2> QED BY <2>1 DEF ZeroLast, Msgs
<1>5. CASE StartLeft
  BY <1>1, <1>5, StillFile DEF StartLeft, Calm
<1>6. CASE StartGone
  BY <1>1, <1>6, StillFile DEF StartGone, Calm
<1>7. CASE StartChecks
  <2>1. /\ ~ftp'.last /\ ftp'.read = << >> /\ ftp'.pos = 0 /\ ftp'.file = "tmp" /\ toApp' = << >>
    BY <1>2, <1>7 DEF StartChecks
  <2>2. Ordered'
    BY <1>4, <2>1 DEF Ordered, ZeroLast, Msgs
  <2>3. Clear' /\ Reads'
    BY <2>1 DEF Clear, Reads
  <2>4. Verified'
    BY <1>3, <2>1 DEF Verified, Renaming, Closers, Ops
  <2> QED BY <1>1, <2>2, <2>3, <2>4 DEF FileSafe
<1>8. CASE StartPulls
  <2>1. ftp' \in Sessions /\ ftp'.file = "tmp" /\ Asks(ftp') /\ calls' = 0
    BY <1>2, <1>8 DEF StartPulls
  <2>2. /\ \A m \in Msgs(toApp') : m.op = "pull" =>
             m \in Msgs(toApp) \/ (m.off = 0 /\ m.n = 1 /\ ftp'.last) \/ (m.off = ftp'.off /\ ~ftp'.last)
        /\ "rename" \in Ops(toApp') => "rename" \in Ops(toApp)
    BY <1>1, <2>1, AskedFlow
  <2>3. ~InCheck'
    <3>1. Ops(toApp) = {}
      BY <1>2 DEF Ops
    <3> QED BY <1>3, <2>1, <2>2, <3>1 DEF InCheck, Renaming, Closers
  <2>4. Len(toApp') <= 1 /\ Len(toApp') \in Nat
    <3>1. toApp' = << >> \/ \E m : toApp' = Append(<< >>, m)
      BY <1>2, <2>1 DEF Asks
    <3>2. Len(<< >>) = 0 /\ \A m : Len(Append(<< >>, m)) = 1
      OBVIOUS
    <3> DEFINE k == Len(toApp')
    <3>3. k = 0 \/ k = 1
      BY <3>1, <3>2, Zenon
    <3> HIDE DEF k
    <3>4. k <= 1 /\ k \in Nat
      BY <3>3
    <3> QED BY <3>4 DEF k
  <2>5. ZeroLast(toApp')
    BY <2>4 DEF ZeroLast
  <2>6. Ordered'
    BY <1>4, <2>5 DEF Ordered
  <2> QED BY <1>1, <2>3, <2>6, Unchecked
<1> QED BY <1>1, <1>5, <1>6, <1>7, <1>8, RcvStartEffect

\* A packet that is taken for block 0 after the check has begun is another one,
\* and the file is not verified then.
LEMMA TakenLate ==
  ASSUME FileSafe, ~Calm, InCheck, ftp.last, ftp.file = "tmp", net # << >>,
         Head(net).op = "data", Head(net).id = ftp.id
  PROVE  ~First /\ ~Renaming /\ Head(net).block[2] # 0
<1>1. Msgs(net) = Msgs(Tail(net)) \cup {Head(net)}
  BY FileParts, MsgsTail
<1>2. ftp.id # 0
  BY FileParts DEF DiskSafe, Checks
<1>3. ~First
  BY <1>1, <1>2, FileParts DEF Clear
<1>4. ~Renaming
  BY <1>3, VerifiedFirst DEF OnDisk
<1>5. Head(net).block[2] # 0
  BY <1>1, <1>2, FileParts DEF DiskSafe, Feeds
<1> QED BY <1>3, <1>4, <1>5

LEMMA RcvDataFile ==
  ASSUME FileSafe, DiskSafe', RcvData
  PROVE  FileSafe'
<1> DEFINE b == Head(net).block
<1>1. LineInv /\ IInv
  BY FileParts
<1>2. /\ net # << >> /\ Head(net).op = "data" /\ net' = Tail(net)
      /\ UNCHANGED <<published, app, up, starts, losses>> /\ PublishedIntact'
  BY <1>1, RcvDataEffect, FileParts, StillPublished
<1>3. Msgs(net) = Msgs(net') \cup {Head(net)}
  BY <1>2, FileParts, MsgsTail
<1>4. CASE UNCHANGED <<ftp, disk, calls, marks, toApp>>
  <2>1. FlowLess
    BY <1>1, <1>2, <1>4, FlowNext
  <2> QED BY <1>2, <1>4, <2>1, PassFile
<1>5. ASSUME ftp # NoFtp, ftp.file # "none", ftp.id = Head(net).id, NEW h, DataRefused(h)
      PROVE  FileSafe'
  <2>1. /\ h \in Sessions /\ h.crc = ftp.crc /\ h.last = ftp.last /\ h.file = ftp.file
        /\ h.read = ftp.read /\ (ftp.last => h.pos = 0) /\ (~ftp.last => h.pos = ftp.pos)
        /\ calls' = calls
    BY <1>5 DEF DataRefused, Same
  <2>2. PICK why \in {"write", "limit"} : SendOrClose(h, disk, End(why))
    BY <1>5 DEF DataRefused
  <2>3. End(why).op = "end"
    BY DEF End
  <2>4. \/ ftp' = NoFtp
        \/ ftp' = h /\ disk' = disk /\ (toApp' = toApp \/ toApp' = Append(toApp, End(why)))
    BY <2>1, <2>2, SendEffect DEF Closed
  <2>5. CASE ftp' = NoFtp
    BY <1>2, <2>5, StillFile DEF Calm
  <2>6. CASE ftp' = h /\ disk' = disk /\ (toApp' = toApp \/ toApp' = Append(toApp, End(why)))
    <3>1. ~Calm
      BY <1>5, FileParts, SafeParts
    <3>2. Ordered'
      BY <1>2, <2>3, <2>6, <3>1, OrderNext DEF Early
    <3>3. FlowLess
      BY <1>1, <1>2, <2>3, <2>6, FlowNext
    <3>4. InCheck' => InCheck
      BY <2>1, <2>6, <3>3 DEF InCheck, FlowLess
    <3>5. InCheck /\ OnDisk /\ ftp.last => ~(First /\ Len(ftp.read) < SizeOf(ftp.crc))
      <4>1. CASE ftp.file = "tmp"
        BY <1>2, <1>5, <3>1, <4>1, TakenLate
      <4>2. CASE ftp.file = "tmpR"
        BY <3>1, <4>2, FileParts DEF Reads
      <4> QED BY <4>1, <4>2 DEF OnDisk
    <3>6. OnDisk' => OnDisk
      BY <2>1, <2>6 DEF OnDisk
    <3>7. OnDisk' /\ InCheck' =>
            \/ ftp'.pos = ftp.pos /\ ftp'.file = ftp.file
            \/ ftp'.pos = 0 /\ ~(First /\ Len(ftp.read) < SizeOf(ftp.crc))
      BY <2>1, <2>6, <3>4, <3>5, <3>6
    <3> QED BY <1>2, <2>1, <2>6, <3>1, <3>2, <3>3, <3>4, <3>6, <3>7, StillFile
         DEF FlowLess, FlowData
  <2> QED BY <2>4, <2>5, <2>6
<1>6. CASE ftp # NoFtp /\ ftp.file # "none" /\ ftp.id = Head(net).id /\ DataZeroth
  <2>1. ~Calm /\ disk \in File /\ Ordered
    BY <1>6, FileParts, SafeParts DEF DataZeroth, OnDisk
  <2>2. /\ ftp' \in Sessions /\ ftp'.crc = ftp.crc /\ ftp'.file = "tmp" /\ ftp'.last /\ ftp'.read = << >>
        /\ ftp'.pos = 0 /\ ftp.last /\ ftp.file = "tmp" /\ disk' = Write(disk, 0, b) /\ toApp' = toApp
    BY <1>6 DEF DataZeroth
  <2>3. disk'[0] = b
    <3>1. disk' = [disk EXCEPT ![0] = b] /\ 0 \in 0..LastBlock
      BY <2>2, ConstantsAssumption DEF Write
    <3> QED BY <2>1, <3>1 DEF File
  <2>4. Ordered'
    BY <1>2, <2>1, <2>2, OrderNext
  <2>5. InCheck => ~Renaming /\ b[2] # 0
    BY <1>2, <1>6, <2>1, <2>2, TakenLate
  <2>6. ~Renaming'
    <3>1. FlowLess
      BY <1>1, <1>2, <2>2, FlowNext
    <3> QED BY <2>5, <3>1 DEF InCheck, FlowLess
  <2>7. Clear'
    <3>1. SUFFICES ASSUME First'
                   PROVE  /\ \A m \in Msgs(net') : m.op = "data" => m.id = 0
                          /\ \A m \in Msgs(toApp') : m.op = "pull" => m.off = 0
      BY DEF Clear
    <3>2. b[2] = 0
      BY <2>3, <3>1 DEF First
    <3>3. Late(Head(net))
      BY <1>2, <3>2 DEF Late
    <3>4. \A m \in Msgs(net') : ~Early(m)
      BY <1>2, <2>1, <3>3, FileParts, ZeroTail DEF Ordered
    <3>5. \A m \in Msgs(toApp') : ~Early(m)
      BY <1>3, <2>1, <2>2, <3>3 DEF Ordered
    <3>6. \A m \in Msgs(net') : m.op = "data" => (m.block[2] = 0 => m.id = 0)
      BY <1>3, <2>1, FileParts DEF DiskSafe, Feeds
    <3> QED BY <3>4, <3>5, <3>6 DEF Early
  <2>8. Reads'
    BY <2>2 DEF Reads
  <2>9. Verified'
    BY <2>6 DEF Verified
  <2> QED BY <1>2, <2>4, <2>7, <2>8, <2>9 DEF FileSafe
<1>7. CASE ftp # NoFtp /\ ftp.file # "none" /\ DataAppended
  <2>1. ~Calm /\ ~InCheck
    BY <1>7, FileParts, AppendPlace
  <2>2. ftp' \in Sessions /\ ftp'.file = "tmp" /\ calls' = calls /\ Asks(ftp') /\ ~ftp.last
    BY <1>7 DEF DataAppended
  <2>3. /\ \A m \in Msgs(toApp') : m.op = "pull" =>
               m \in Msgs(toApp) \/ (m.off = 0 /\ m.n = 1 /\ ftp'.last) \/ (m.off = ftp'.off /\ ~ftp'.last)
        /\ "rename" \in Ops(toApp') => "rename" \in Ops(toApp)
    BY <1>1, <2>2, AskedFlow
  <2>4. ~InCheck'
    BY <1>3, <2>1, <2>2, <2>3 DEF InCheck, Renaming
  <2>5. Ordered'
    BY <1>2, <2>1, <2>2, OrderNext DEF Asks
  <2> QED BY <1>2, <2>4, <2>5, Unchecked
<1> QED BY <1>1, <1>4, <1>5, <1>6, <1>7, RcvDataEffect

\* The blocks of the announced file, as published.
LEMMA RenamedIntact ==
  ASSUME FileSafe, Renaming, Renames
  PROVE  PublishedIntact'
<1> DEFINE c == ftp.crc
           k == SizeOf(c)
<1>1. ~Calm /\ ftp.file # "final"
  <2>1. ~Calm
    BY FileParts, SafeParts DEF Renames
  <2>2. ftp.file = "final" => disk = Absent
    BY <2>1, FileParts DEF DiskSafe, DiskInv
  <2> QED BY <2>1, <2>2 DEF Renames
<1>2. c \in Contents /\ k = Size[c] /\ k \in Nat /\ OnDisk
  <2>1. ftp.file \in {"none", "tmp", "tmpR", "final"}
    BY <1>1, FileParts DEF Sessions
  <2> QED BY <1>1, <2>1, FileParts, ConstantsAssumption DEF OnDisk, Renames
<1>3. \A i \in 0..(k - 1) : disk[i] = <<c, i>>
  BY <1>1, <1>2, FileParts DEF Verified
<1> DEFINE x == [of |-> c, blocks |-> [i \in 1..k |-> disk[i - 1]]]
<1>4. x.of = c /\ x.blocks = Original(c)
  <2> HIDE DEF k
  <2>1. \A i \in 1..k : i - 1 \in 0..(k - 1)
    BY <1>2
  <2>2. \A i \in 1..k : disk[i - 1] = <<c, i - 1>>
    BY <1>3, <2>1
  <2>3. [i \in 1..k |-> disk[i - 1]] = [i \in 1..k |-> <<c, i - 1>>]
    BY <2>2
  <2>4. Original(c) = [i \in 1..k |-> <<c, i - 1>>]
    BY <1>2, ConstantsAssumption DEF Original
  <2> QED BY <2>3, <2>4
<1> HIDE DEF x
<1>5. published' = Append(published, x) /\ published \in Seq(Final)
  BY FileParts, Parts DEF Renames, RenamedFile, Finals, x
<1>6. /\ Len(published') = Len(published) + 1 /\ Len(published) \in Nat
      /\ published'[Len(published) + 1] = x
      /\ \A i \in 1..Len(published) : published'[i] = published[i]
  BY <1>5
<1>7. SUFFICES ASSUME NEW i \in 1..Len(published')
               PROVE  published'[i].blocks = Original(published'[i].of)
  BY DEF PublishedIntact
<1>8. i \in 1..Len(published) \/ i = Len(published) + 1
  BY <1>6
<1> QED BY <1>4, <1>6, <1>8, FileParts DEF PublishedIntact

LEMMA RcvRenameRspFile ==
  ASSUME FileSafe, DiskSafe', RcvRenameRsp
  PROVE  FileSafe'
<1>1. IInv /\ net # << >> /\ Head(net).op = "renameRsp"
  BY FileParts, RcvRenameEffect
<1>2. Head(net).ok => Renaming
  <2>1. Msgs(net) = Msgs(Tail(net)) \cup {Head(net)}
    BY <1>1, FileParts, MsgsTail
  <2> QED BY <1>1, <2>1 DEF Renaming
<1>3. CASE Head(net).ok /\ Renames /\ disk' = Absent /\ Reset
  <2>1. Calm'
    BY <1>3 DEF Reset, Calm
  <2> QED BY <1>2, <1>3, <2>1, RenamedIntact, StillFile
<1>4. CASE /\ net' = Tail(net) /\ UNCHANGED <<calls, app, up>> /\ ftp = NoFtp
           /\ UNCHANGED <<ftp, disk, published, marks, toApp>>
  BY <1>4, FileParts, StillPublished, StillFile DEF Calm
<1>5. ASSUME net' = Tail(net), UNCHANGED <<calls, app, up>>, ftp # NoFtp, NEW h, RenameAnswered(h)
      PROVE  FileSafe'
  <2>1. PublishedIntact'
    <3>1. published' = published \/ published' = Withdrawn(ftp) \/ (Head(net).ok /\ Renames)
      BY <1>5 DEF RenameAnswered
    <3> QED BY <1>2, <3>1, FileParts, StillPublished, RenamedIntact
  <2>2. CASE ftp' = NoFtp
    BY <2>1, <2>2, StillFile DEF Calm
  <2>3. ASSUME ftp' = h, Calm
        PROVE  FileSafe'
    <3>1. h.crc = ftp.crc
      BY <1>5 DEF RenameAnswered, Refiled
    <3>2. Calm'
      BY <1>5, <2>3, <3>1 DEF Calm
    <3> QED BY <2>1, <3>2, StillFile
  <2>4. ASSUME ftp' = h, ~Calm, NEW k, Refiled(h, k), k \notin {"tmp", "tmpR"},
               NEW m, ~Early(m), m.op # "pull", toApp' = toApp \/ toApp' = Append(toApp, m),
               Head(net).ok \/ toApp' = toApp
        PROVE  FileSafe'
    <3>1. ~OnDisk'
      BY <2>4 DEF OnDisk, Refiled
    <3>2. Ordered'
      BY <1>1, <1>5, <2>4, OrderNext
    <3>3. Clear' /\ Reads' /\ Verified'
      BY <3>1 DEF Clear, Reads, Verified, OnDisk
    <3> QED BY <2>1, <3>2, <3>3 DEF FileSafe
  <2>5. /\ Rename.op # "pull" /\ End("none").op # "pull"
        /\ ~Early(Rename) /\ ~Early(End("none"))
    BY DEF Rename, End, Early
  <2>6. CASE Refiled(h, "final") /\ Sent(h, Absent, End("none")) /\ Head(net).ok
    <3>1. ftp' = NoFtp \/ (ftp' = h /\ (toApp' = toApp \/ toApp' = Append(toApp, End("none"))))
      BY <2>6 DEF Sent, Closed
    <3> QED BY <2>2, <2>3, <2>4, <2>5, <2>6, <3>1
  <2>7. CASE /\ Refiled(h, "tmpR") /\ h.pos = 0 /\ ftp.file # "none" /\ disk # Absent
             /\ Sent(h, disk, Rename) /\ Head(net).ok
    <3>1. \/ ftp' = NoFtp
          \/ ftp' = h /\ disk' = disk /\ (toApp' = toApp \/ toApp' = Append(toApp, Rename))
      BY <2>7 DEF Sent, Closed
    <3>2. CASE /\ ftp' = h /\ disk' = disk /\ ~Calm
               /\ toApp' = toApp \/ toApp' = Append(toApp, Rename)
      <4>1. Ordered'
        BY <1>1, <1>5, <2>5, <3>2, OrderNext
      <4>2. Renaming /\ InCheck
        BY <1>2, <2>7 DEF InCheck
      <4>3. OnDisk
        <5>1. ftp.file \in {"none", "tmp", "tmpR", "final"}
          BY <3>2, FileParts DEF Sessions
        <5>2. ftp.file # "final"
          BY <2>7, <3>2, FileParts DEF DiskSafe, DiskInv
        <5> QED BY <2>7, <5>1, <5>2 DEF OnDisk
      <4>4. ~(First /\ Len(ftp.read) < SizeOf(ftp.crc))
        <5>1. Len(ftp.read) >= SizeOf(ftp.crc)
          BY <3>2, <4>2, <4>3, VerifiedFirst
        <5>2. Len(ftp.read) \in Nat /\ SizeOf(ftp.crc) \in Nat
          BY <3>2, FileParts, ConstantsAssumption
        <5> QED BY <5>1, <5>2
      <4>5. FlowData
        BY <1>1, <1>5, <2>5, <3>2, FlowNext
      <4>6. /\ ftp'.crc = ftp.crc /\ ftp'.last = ftp.last /\ ftp'.read = ftp.read
            /\ ftp'.file = "tmpR" /\ ftp'.pos = 0
        BY <2>7, <3>2 DEF Refiled
      <4> QED BY <2>1, <3>2, <4>1, <4>2, <4>3, <4>4, <4>5, <4>6, StillFile DEF FlowData
    <3> QED BY <2>2, <2>3, <3>1, <3>2
  <2>8. CASE Refiled(h, "none") /\ Sent(h, disk, Rename) /\ Head(net).ok
    <3>1. ftp' = NoFtp \/ (ftp' = h /\ (toApp' = toApp \/ toApp' = Append(toApp, Rename)))
      BY <2>8 DEF Sent, Closed
    <3> QED BY <2>2, <2>3, <2>4, <2>5, <2>8, <3>1
  <2>9. CASE Refiled(h, "none") /\ Closed(h, Deleted(ftp, disk)) /\ toApp' = toApp
    <3>1. ftp' = NoFtp \/ ftp' = h
      BY <2>9 DEF Closed
    <3> QED BY <2>2, <2>3, <2>4, <2>5, <2>9, <3>1
  <2> QED BY <1>5, <2>6, <2>7, <2>8, <2>9 DEF RenameAnswered
<1> QED BY <1>1, <1>3, <1>4, <1>5, RcvRenameEffect

\* n more blocks of the check, read from the file on disk.
LEMMA ReadOn ==
  ASSUME FileSafe, ~Calm, InCheck, OnDisk, NEW n \in Nat
  PROVE  LET r == ftp.read \o Read(ftp, n)
         IN /\ r = << >> => ftp.pos + n = 0
            /\ r # << >> => r[1] = disk[0]
            /\ First => \A i \in 1..Len(r) : i <= SizeOf(ftp.crc) => r[i] = disk[i - 1]
            /\ First /\ Len(r) < SizeOf(ftp.crc) => ftp.pos + n = Len(r) /\ ftp.file = "tmp"
            /\ Len(r) >= Len(ftp.read) /\ Len(r) \in Nat
<1> DEFINE q == ftp.read
           t == Read(ftp, n)
           r == q \o t
           k == SizeOf(ftp.crc)
<1>1. /\ q \in Seq(Block) /\ Len(q) \in Nat /\ ftp.pos \in Nat /\ disk \in File
      /\ k \in 1..(LastBlock + 1) /\ LastBlock \in Nat /\ disk # Absent
  BY FileParts, AbsenceAssumption, ConstantsAssumption
<1>2. \A p \in 0..LastBlock : ReadAt(ftp, p) = disk[p]
  BY <1>1 DEF ReadAt, OnDisk
<1>3. \A p \in Nat : ReadAt(ftp, p) \in Block
  <2>1. <<Junk, 0>> \in Block
    BY DEF Block
  <2>2. \A p \in 0..LastBlock : disk[p] \in Block
    BY <1>1 DEF File
  <2> QED BY <1>1, <2>1, <2>2 DEF ReadAt, OnDisk
<1>4. \A i \in 1..n : ftp.pos + i - 1 \in Nat
  BY <1>1
<1>5. t = [i \in 1..n |-> ReadAt(ftp, ftp.pos + i - 1)]
  BY DEF Read
<1>6. t \in Seq(Block) /\ Len(t) = n /\ \A i \in 1..n : t[i] = ReadAt(ftp, ftp.pos + i - 1)
  BY <1>3, <1>4, <1>5
<1> HIDE DEF t, k
<1> HIDE DEF q
<1>7. /\ Len(r) = Len(q) + n /\ Len(r) \in Nat /\ Len(r) >= Len(q)
      /\ \A i \in 1..Len(q) : r[i] = q[i]
      /\ \A i \in 1..Len(r) : i > Len(q) => i - Len(q) \in 1..n /\ r[i] = t[i - Len(q)]
      /\ r = << >> => q = << >> /\ n = 0
      /\ r # << >> => Len(r) >= 1
      /\ q # << >> => Len(q) >= 1
      /\ q = << >> => Len(q) = 0
  <2>1. /\ r \in Seq(Block) /\ Len(r) = Len(q) + n
        /\ \A i \in 1..Len(r) : r[i] = IF i <= Len(q) THEN q[i] ELSE t[i - Len(q)]
    BY <1>1, <1>6
  <2> HIDE DEF r
  <2>2. /\ q # << >> => Len(q) >= 1
        /\ q = << >> => Len(q) = 0
        /\ r # << >> => Len(r) >= 1
        /\ r = << >> => Len(r) = 0
    BY <1>1, <2>1
  <2>3. Len(r) \in Nat /\ Len(r) >= Len(q)
    BY <1>1, <2>1
  <2>4. \A i \in 1..Len(q) : r[i] = q[i]
    BY <1>1, <2>1
  <2>5. \A i \in 1..Len(r) : i > Len(q) => i - Len(q) \in 1..n /\ r[i] = t[i - Len(q)]
    BY <1>1, <2>1
  <2>6. r = << >> => q = << >> /\ n = 0
    BY <1>1, <2>1, <2>2
  <2> QED BY <2>1, <2>2, <2>3, <2>4, <2>5, <2>6
<1> HIDE DEF r
<1>8. /\ q = << >> => ftp.pos = 0
      /\ q # << >> => q[1] = disk[0]
      /\ First => \A i \in 1..Len(q) : i <= k => q[i] = disk[i - 1]
      /\ First /\ Len(q) < k => ftp.pos = Len(q) /\ ftp.file = "tmp"
  BY FileParts DEF Reads, q, k
<1>9. r = << >> => ftp.pos + n = 0
  BY <1>1, <1>7, <1>8
<1>10. r # << >> => r[1] = disk[0]
  <2>1. CASE q # << >>
    BY <1>1, <1>7, <1>8, <2>1
  <2>2. CASE q = << >> /\ r # << >>
    <3>1. 1 \in 1..Len(r) /\ 1 > Len(q) /\ 1 - Len(q) = 1 /\ ftp.pos = 0
      BY <1>7, <1>8, <2>2
    <3>2. r[1] = t[1] /\ 1 \in 1..n
      BY <1>7, <3>1
    <3>3. t[1] = ReadAt(ftp, 0)
      BY <1>6, <3>1, <3>2
    <3> QED BY <1>1, <1>2, <3>2, <3>3
  <2> QED BY <2>1, <2>2
<1>11. First => \A i \in 1..Len(r) : i <= k => r[i] = disk[i - 1]
  <2>1. SUFFICES ASSUME First, NEW i \in 1..Len(r), i <= k
                 PROVE  r[i] = disk[i - 1]
    OBVIOUS
  <2>2. CASE i <= Len(q)
    <3>1. i \in 1..Len(q)
      BY <1>1, <1>7, <2>2
    <3> QED BY <1>7, <1>8, <2>1, <3>1
  <2>3. CASE i > Len(q)
    <3>1. Len(q) < k /\ ftp.pos = Len(q)
      BY <1>1, <1>7, <1>8, <2>1, <2>3 DEF q
    <3>2. i - Len(q) \in 1..n /\ r[i] = t[i - Len(q)]
      BY <1>7, <2>3
    <3>3. ftp.pos + (i - Len(q)) - 1 = i - 1 /\ i - 1 \in 0..LastBlock
      BY <1>1, <1>7, <2>1, <3>1 DEF q
    <3>4. t[i - Len(q)] = ReadAt(ftp, i - 1)
      BY <1>6, <3>2, <3>3
    <3> QED BY <1>2, <3>2, <3>3, <3>4
  <2> QED BY <1>1, <1>7, <2>2, <2>3 DEF q
<1>12. First /\ Len(r) < k => ftp.pos + n = Len(r) /\ ftp.file = "tmp"
  BY <1>1, <1>7, <1>8 DEF q
<1> QED BY <1>7, <1>9, <1>10, <1>11, <1>12 DEF r, q, t, k

LEMMA CalculateFile ==
  ASSUME FileSafe, DiskSafe', Calculate
  PROVE  FileSafe'
<1>1. /\ IInv /\ calls > 0 /\ UNCHANGED <<net, app, up, starts, losses>> /\ InCheck
  BY FileParts, CalculateEffect DEF InCheck
<1>2. CASE ftp = NoFtp /\ UNCHANGED <<ftp, disk, published>>
  BY <1>2, FileParts, StillPublished, StillFile DEF Calm
<1>3. ASSUME ftp # NoFtp, NEW n \in Nat, NEW h, Checked(h, n)
      PROVE  FileSafe'
  <2> DEFINE r == ftp.read \o Read(ftp, n)
  <2>1. /\ h \in Sessions /\ h.crc = ftp.crc /\ h.last = ftp.last /\ h.read = r
    BY <1>3 DEF Checked, Counted
  <2>2. PublishedIntact'
    <3>1. published' = published \/ published' = Withdrawn(ftp)
      BY <1>3 DEF Checked
    <3> QED BY <1>1, <3>1, FileParts, StillPublished
  <2>3. CASE ftp' = NoFtp
    BY <2>2, <2>3, StillFile DEF Calm
  <2>4. ASSUME ftp' = h, Calm
        PROVE  FileSafe'
    <3>1. Calm'
      BY <1>3, <2>1, <2>4 DEF Calm
    <3> QED BY <2>2, <3>1, StillFile
  <2>5. ASSUME ~Calm, NEW m, m.op \in Asking, toApp' = toApp \/ toApp' = Append(toApp, m)
        PROVE  /\ Ordered' /\ Msgs(net') = Msgs(net)
               /\ \A x \in Msgs(toApp') : x.op = "pull" => x \in Msgs(toApp)
    <3>1. ~Early(m) /\ m.op # "pull"
      BY <2>5 DEF Early, Asking
    <3>2. toApp \in Seq(ToApp)
      BY FileParts
    <3>3. Msgs(toApp') = Msgs(toApp) \/ Msgs(toApp') = Msgs(toApp) \cup {m}
      BY <2>5, <3>2, MsgsAppend
    <3> QED BY <1>1, <2>5, <3>1, <3>3, OrderNext
  <2>6. ASSUME ~Calm, ftp' = h, h.file = ftp.file, disk' = disk,
               NEW m, m.op \in Asking, toApp' = toApp \/ toApp' = Append(toApp, m),
               OnDisk => /\ r = << >> => h.pos = 0
                         /\ First /\ Len(r) < SizeOf(ftp.crc) => h.pos = Len(r) /\ h.file = "tmp",
               Verified'
        PROVE  FileSafe'
    <3>1. /\ Ordered' /\ Msgs(net') = Msgs(net)
          /\ \A x \in Msgs(toApp') : x.op = "pull" => x \in Msgs(toApp)
      BY <2>5, <2>6
    <3>2. (OnDisk' <=> OnDisk) /\ (First' <=> First) /\ ftp'.read = r /\ ftp'.crc = ftp.crc
      BY <2>1, <2>6 DEF OnDisk, First
    <3>3. Clear'
      BY <1>1, <2>1, <2>6, <3>1, <3>2, FileParts DEF Clear
    <3> HIDE DEF r
    <3>4. OnDisk => /\ r # << >> => r[1] = disk[0]
                    /\ First => \A i \in 1..Len(r) : i <= SizeOf(ftp.crc) => r[i] = disk[i - 1]
      BY <1>1, <2>6, ReadOn DEF r
    <3>5. Reads'
      BY <2>6, <3>2, <3>4 DEF Reads
    <3> QED BY <2>2, <2>6, <3>1, <3>3, <3>5 DEF FileSafe
  <2>7. CASE /\ h.file = ftp.file /\ h.pos = ftp.pos + n /\ ftp' = h
             /\ UNCHANGED <<disk, calls, toApp>>
    <3>1. CASE ~Calm
      <4>1. Renaming' => Renaming
        BY <1>1, <2>7 DEF Renaming
      <4>2. OnDisk => /\ r = << >> => h.pos = 0
                      /\ First /\ Len(r) < SizeOf(ftp.crc) => h.pos = Len(r) /\ h.file = "tmp"
                      /\ Len(r) >= Len(ftp.read) /\ Len(r) \in Nat
        BY <1>1, <1>3, <2>7, <3>1, ReadOn
      <4> HIDE DEF r
      <4>3. Verified'
        <5>1. SUFFICES ASSUME Renaming, OnDisk
                       PROVE  /\ \A i \in 0..(SizeOf(ftp.crc) - 1) : disk[i] = <<ftp.crc, i>>
                              /\ Len(r) >= SizeOf(ftp.crc)
          BY <2>1, <2>7, <4>1 DEF Verified, OnDisk
        <5>2. /\ \A i \in 0..(SizeOf(ftp.crc) - 1) : disk[i] = <<ftp.crc, i>>
              /\ Len(ftp.read) >= SizeOf(ftp.crc)
          BY <3>1, <5>1, FileParts DEF Verified
        <5>3. Len(ftp.read) \in Nat /\ SizeOf(ftp.crc) \in Nat
          BY <3>1, FileParts, ConstantsAssumption
        <5> QED BY <4>2, <5>1, <5>2, <5>3
      <4>4. Rename.op \in Asking
        BY DEF Rename, Asking
      <4> QED BY <2>6, <2>7, <3>1, <4>2, <4>3, <4>4
    <3> QED BY <2>4, <2>7, <3>1
  <2>8. CASE /\ h.file = ftp.file /\ h.pos = SizeOf(h.crc) /\ h.read = Original(h.crc)
             /\ Sent(h, disk, Rename)
    <3>1. \/ ftp' = NoFtp
          \/ ftp' = h /\ disk' = disk /\ (toApp' = toApp \/ toApp' = Append(toApp, Rename))
      BY <2>8 DEF Sent, Closed
    <3>2. CASE /\ ftp' = h /\ disk' = disk /\ ~Calm
               /\ toApp' = toApp \/ toApp' = Append(toApp, Rename)
      <4> DEFINE k == SizeOf(ftp.crc)
      <4>1. k \in Nat /\ k >= 1 /\ r = [i \in 1..k |-> <<ftp.crc, i - 1>>]
        <5>1. ftp.crc \in Contents /\ ftp.crc # NoFile /\ k = Size[ftp.crc] /\ k \in Nat /\ k >= 1
          BY <3>2, FileParts, ConstantsAssumption
        <5> QED BY <2>1, <2>8, <5>1 DEF Original
      <4> HIDE DEF r, k
      <4>2. Len(r) = k /\ r # << >> /\ \A i \in 1..k : r[i] = <<ftp.crc, i - 1>>
        <5>1. \A i \in 1..k : <<ftp.crc, i - 1>> \in Block
          <6>1. \A i \in 1..k : i - 1 \in Nat
            BY <4>1
          <6> QED BY <3>2, <6>1, FileParts DEF Block
        <5>2. r \in Seq(Block) /\ Len(r) = k
          BY <4>1, <5>1
        <5>3. \A i \in 1..k : r[i] = <<ftp.crc, i - 1>>
          BY <4>1
        <5>4. Len(<< >>) = 0 /\ k # 0
          BY <4>1
        <5> QED BY <5>2, <5>3, <5>4, Zenon
      <4>3. OnDisk => /\ r = << >> => h.pos = 0
                      /\ First /\ Len(r) < SizeOf(ftp.crc) => h.pos = Len(r) /\ h.file = "tmp"
        BY <4>1, <4>2 DEF k
      <4>4. Verified'
        <5>1. SUFFICES ASSUME OnDisk
                       PROVE  /\ \A i \in 0..(k - 1) : disk[i] = <<ftp.crc, i>>
                              /\ Len(r) >= k
          BY <2>1, <2>8, <3>2 DEF Verified, OnDisk, k
        <5>2. /\ r[1] = disk[0]
              /\ First => \A i \in 1..k : r[i] = disk[i - 1]
          <6>1. /\ r # << >> => r[1] = disk[0]
                /\ First => \A i \in 1..Len(r) : i <= SizeOf(ftp.crc) => r[i] = disk[i - 1]
            BY <1>1, <3>2, <5>1, ReadOn DEF r
          <6>2. \A i \in 1..k : i \in 1..Len(r) /\ i <= SizeOf(ftp.crc)
            BY <4>1, <4>2 DEF k
          <6> QED BY <4>2, <6>1, <6>2
        <5>3. First
          BY <4>1, <4>2, <5>2 DEF First
        <5>4. \A i \in 0..(k - 1) : i + 1 \in 1..k /\ (i + 1) - 1 = i
          BY <4>1
        <5>5. \A i \in 0..(k - 1) : disk[i] = <<ftp.crc, i>>
          BY <4>2, <5>2, <5>3, <5>4
        <5> QED BY <4>1, <4>2, <5>5
      <4>5. Rename.op \in Asking
        BY DEF Rename, Asking
      <4> QED BY <2>6, <2>8, <3>2, <4>3, <4>4, <4>5
    <3> QED BY <2>3, <2>4, <3>1, <3>2
  <2>9. CASE h.file = "none" /\ Sent(h, Deleted(ftp, disk), End("crc"))
    <3>1. \/ ftp' = NoFtp
          \/ ftp' = h /\ (toApp' = toApp \/ toApp' = Append(toApp, End("crc")))
      BY <2>9 DEF Sent, Closed
    <3>2. CASE ftp' = h /\ ~Calm /\ (toApp' = toApp \/ toApp' = Append(toApp, End("crc")))
      <4>1. End("crc").op \in Asking
        BY DEF End, Asking
      <4>2. Ordered'
        BY <2>5, <3>2, <4>1
      <4>3. ~OnDisk' /\ ftp'.file # "tmp"
        BY <2>9, <3>2 DEF OnDisk
      <4> QED BY <2>2, <4>2, <4>3 DEF FileSafe, Clear, Reads, Verified
    <3> QED BY <2>3, <2>4, <3>1, <3>2
  <2> QED BY <1>3, <2>7, <2>8, <2>9 DEF Checked
<1> QED BY <1>1, <1>2, <1>3, CalculateEffect

LEMMA AppSpeaksFile ==
  ASSUME FileSafe, DiskSafe', AppPrepare \/ AppCancel \/ \E c \in Contents : AppStart(c)
  PROVE  FileSafe'
<1>1. UNCHANGED <<ftp, disk, calls, toApp, published>>
  BY DEF AppPrepare, AppCancel, AppStart, device
<1>2. net \in Seq(FromApp) /\ PublishedIntact'
  BY <1>1, FileParts, StillPublished
<1>3. CASE \E c \in Contents : AppStart(c)
  <2>1. PICK c \in Contents : net' = Append(net, [op |-> "start", c |-> c])
    BY <1>3 DEF AppStart
  <2>2. Ops(net') = Ops(net) \cup {"start"}
    BY <1>2, <2>1, OpsAppend
  <2>3. LineInv'
    BY DEF DiskSafe
  <2>4. Calm'
    BY <2>2, <2>3, LineParts DEF LineInv, StartInv, Starting
  <2> QED BY <1>2, <2>4, StillFile
<1>4. CASE AppPrepare \/ AppCancel
  <2>1. PICK m \in {[op |-> "prepare"], [op |-> "cancel"]} : net' = Append(net, m)
    BY <1>4 DEF AppPrepare, AppCancel
  <2>2. m.op \in {"prepare", "cancel"}
    BY <2>1
  <2>3. Msgs(net') = Msgs(net) \cup {m} /\ ~Early(m) /\ ~Late(m)
    BY <1>2, <2>1, <2>2, MsgsAppend DEF Early, Late
  <2>4. CASE Calm
    BY <1>1, <1>2, <2>4, StillFile DEF Calm
  <2>5. CASE ~Calm
    <3>1. Ordered'
      BY <1>1, <1>2, <2>1, <2>3, <2>5, FileParts, ZeroAppend DEF Ordered
    <3>2. (Renaming' => Renaming) /\ (InCheck' => InCheck)
      BY <1>1, <2>2, <2>3 DEF Renaming, InCheck
    <3> QED BY <1>1, <1>2, <2>2, <2>3, <2>5, <3>1, <3>2, StillFile DEF OnDisk
  <2> QED BY <2>4, <2>5
<1> QED BY <1>3, <1>4

LEMMA AppServeFile ==
  ASSUME FileSafe, DiskSafe', AppServe
  PROVE  FileSafe'
<1> DEFINE m == Head(toApp)
<1>1. /\ toApp # << >> /\ toApp' = Tail(toApp) /\ UNCHANGED <<ftp, disk, calls, published>>
      /\ toApp \in Seq(ToApp) /\ net \in Seq(FromApp)
  BY FileParts DEF AppServe, device
<1>2. /\ Msgs(toApp) = Msgs(toApp') \cup {m} /\ Ops(toApp) = Ops(toApp') \cup {m.op}
      /\ m \in ToApp /\ PublishedIntact'
  BY <1>1, MsgsTail, OpsTail, FileParts, StillPublished
<1>3. app \in [st : {"idle", "prep", "ready", "xfer"}, c : Contents, fed : BOOLEAN]
  BY FileParts, Parts
<1>4. CASE Calm
  BY <1>1, <1>2, <1>4, StillFile DEF Calm
<1>5. CASE ~Calm
  <2>1. Ordered
    BY <1>5, FileParts
  <2>2. ZeroLast(toApp') /\ (Late(m) => \A x \in Msgs(toApp') : ~Early(x))
    BY <1>1, <2>1, ZeroTail DEF Ordered
  <2>3. ASSUME NEW r \in Seq(FromApp), net' = net \o r,
               (\A x \in Msgs(r) : ~Early(x) /\ (Late(x) => Late(m)))
                 \/ (Early(m) /\ \A x \in Msgs(r) : ~Late(x)),
               \A x \in Msgs(r) : x.op = "renameRsp" => m.op = "rename",
               \A x \in Msgs(r) : x.op = "data" =>
                 m.op = "pull" /\ (m.off = 0 /\ ftp.last => x.id = 0)
        PROVE  FileSafe'
    <3>1. Msgs(net') = Msgs(net) \cup Msgs(r)
      BY <1>1, <2>3, MsgsConcat
    <3>2. Early(m) => \A x \in Msgs(net) : ~Late(x)
      BY <1>2, <2>1 DEF Ordered
    <3>3. ZeroLast(net')
      BY <1>1, <2>1, <2>3, <3>2, ZeroConcat DEF Ordered
    <3>4. \A x \in Msgs(net'), n \in Msgs(toApp') : Late(x) => ~Early(n)
      BY <1>2, <2>1, <2>2, <2>3, <3>1, <3>2 DEF Ordered
    <3>5. Ordered'
      BY <2>2, <3>3, <3>4 DEF Ordered
    <3>6. (Renaming' => Renaming) /\ (InCheck' => InCheck)
      BY <1>1, <1>2, <2>3, <3>1 DEF Renaming, InCheck
    <3>7. (First' <=> First) /\ (OnDisk' <=> OnDisk) /\ (Calm' <=> Calm)
      BY <1>1 DEF First, OnDisk, Calm
    <3>8. Clear'
      <4>1. SUFFICES ASSUME ftp.last, ftp.file = "tmp", First, InCheck
                     PROVE  /\ \A x \in Msgs(net') : x.op = "data" => x.id = 0
                            /\ \A x \in Msgs(toApp') : x.op = "pull" => x.off = 0
        BY <1>1, <3>6, <3>7 DEF Clear
      <4>2. /\ \A x \in Msgs(net) : x.op = "data" => x.id = 0
            /\ \A x \in Msgs(toApp) : x.op = "pull" => x.off = 0
        BY <1>5, <4>1, FileParts DEF Clear
      <4> QED BY <1>2, <2>3, <3>1, <4>1, <4>2
    <3>9. Reads' /\ Verified'
      BY <1>1, <1>5, <3>6, <3>7, FileParts DEF Reads, Verified
    <3> QED BY <1>2, <3>5, <3>8, <3>9 DEF FileSafe
  <2>4. CASE /\ m.op = "pull" /\ app.st = "xfer" /\ m.off < Size[app.c]
             /\ net' = net \o Packets(app.c, m.off, m.n)
    <3> DEFINE r == Packets(app.c, m.off, m.n)
    <3>1. m.off \in Nat /\ m.n \in Nat
      BY <1>2, <2>4 DEF ToApp
    <3>2. /\ r \in Seq(FromApp) /\ Len(r) <= m.n
          /\ \A i \in 1..Len(r) : /\ r[i].op = "data" /\ r[i].id = i - 1
                                  /\ r[i].block = <<app.c, m.off + i - 1>>
      BY <1>3, <2>4, <3>1, PacketsMade
    <3>3. m.off = 0 => m.n = 1 /\ ftp.last
      BY <1>2, <1>5, <2>4, FileParts DEF DiskSafe, Feeds
    <3> HIDE DEF r
    <3>4. \A i \in 1..Len(r) : /\ m.off = 0 => i = 1
                               /\ m.off # 0 => m.off + i - 1 # 0
      BY <3>1, <3>2, <3>3
    <3>5. \A x \in Msgs(r) : /\ x.op = "data"
                             /\ m.off = 0 => x.id = 0 /\ x.block[2] = 0
                             /\ m.off # 0 => x.block[2] # 0
      <4>1. SUFFICES ASSUME NEW i \in 1..Len(r)
                     PROVE  /\ r[i].op = "data"
                            /\ m.off = 0 => r[i].id = 0 /\ r[i].block[2] = 0
                            /\ m.off # 0 => r[i].block[2] # 0
        BY DEF Msgs
      <4>2. r[i].block[2] = m.off + i - 1
        BY <3>2
      <4>3. m.off = 0 => m.off + i - 1 = 0 /\ i - 1 = 0
        BY <3>4
      <4> QED BY <3>2, <3>4, <4>2, <4>3
    <3>6. net' = net \o r
      BY <2>4 DEF r
    <3>7. CASE m.off = 0
      <4>1. \A x \in Msgs(r) : ~Early(x)
        BY <3>5, <3>7 DEF Early
      <4>2. Late(m)
        BY <2>4, <3>7 DEF Late
      <4> QED BY <2>3, <2>4, <3>2, <3>5, <3>6, <3>7, <4>1, <4>2
    <3>8. CASE m.off # 0
      <4>1. \A x \in Msgs(r) : ~Late(x)
        BY <3>5, <3>8 DEF Late
      <4>2. Early(m)
        BY <2>4, <3>8 DEF Early
      <4> QED BY <2>3, <2>4, <3>2, <3>5, <3>6, <3>8, <4>1, <4>2
    <3> QED BY <3>7, <3>8
  <2>5. CASE m.op = "pull" /\ UNCHANGED net
    <3>1. << >> \in Seq(FromApp) /\ Msgs(<< >>) = {} /\ net' = net \o << >>
      BY <1>1, <2>5 DEF Msgs
    <3> QED BY <2>3, <3>1
  <2>6. ASSUME NEW x \in FromApp, net' = Append(net, x), x.op \in {"renameRsp", "endRsp"},
               x.op = "renameRsp" => m.op = "rename"
        PROVE  FileSafe'
    <3>1. <<x>> \in Seq(FromApp) /\ net' = net \o <<x>>
      BY <1>1, <2>6
    <3>2. Msgs(<<x>>) = {x}
      BY DEF Msgs
    <3>3. ~Early(x) /\ ~Late(x)
      BY <2>6 DEF Early, Late
    <3> QED BY <2>3, <2>6, <3>1, <3>2, <3>3
  <2>7. CASE /\ m.op = "rename"
             /\ net' = Append(net, [op |-> "renameRsp", ok |-> app.st = "xfer" /\ app.fed])
    <3>1. [op |-> "renameRsp", ok |-> app.st = "xfer" /\ app.fed] \in FromApp
      BY <1>3 DEF FromApp
    <3> QED BY <2>6, <2>7, <3>1
  <2>8. CASE m.op = "end" /\ net' = Append(net, [op |-> "endRsp"])
    <3>1. [op |-> "endRsp"] \in FromApp
      BY DEF FromApp
    <3> QED BY <2>6, <2>8, <3>1
  <2> QED BY <2>4, <2>5, <2>7, <2>8 DEF AppServe
<1> QED BY <1>4, <1>5

LEMMA EnvironmentFile ==
  ASSUME FileSafe, DiskSafe', Environment
  PROVE  FileSafe'
<1>1. net \in Seq(FromApp) /\ IInv /\ PublishedIntact'
  <2>1. published' = published
    BY DEF Environment, LoseData, LinkDown, LinkUp, ModeKey, PowerLoss, device
  <2> QED BY <2>1, FileParts, StillPublished
<1>2. CASE LoseData
  <2>1. /\ net # << >> /\ net' = Tail(net) /\ UNCHANGED <<ftp, disk, calls, toApp, app>>
    BY <1>2 DEF LoseData, Arrives, device
  <2>2. FlowLess
    BY <1>1, <2>1, FlowNext
  <2> QED BY <1>1, <2>1, <2>2, PassFile
<1>3. CASE LinkDown
  <2>1. toApp' = << >> /\ UNCHANGED <<ftp, disk, calls>>
    BY <1>3 DEF LinkDown, device
  <2>2. PICK k \in 0..Len(net) : net' = Append(SubSeq(net, 1, k), [op |-> "disconnect"])
    BY <1>3 DEF LinkDown
  <2> DEFINE q == SubSeq(net, 1, k)
             m == [op |-> "disconnect"]
  <2>3. Msgs(q) \subseteq Msgs(net) /\ q \in Seq(FromApp)
    BY <1>1, MsgsFront
  <2>4. m.op = "disconnect"
    OBVIOUS
  <2>5. ZeroLast(net) => ZeroLast(q)
    BY <1>1, ZeroFront
  <2> HIDE DEF q, m
  <2>6. Msgs(net') = Msgs(q) \cup {m} /\ net' = Append(q, m)
    BY <2>2, <2>3, MsgsAppend DEF q, m
  <2>7. Msgs(toApp') = {} /\ Ops(toApp') = {} /\ ZeroLast(toApp')
    BY <2>1 DEF Msgs, Ops, ZeroLast
  <2>8. CASE Calm
    BY <1>1, <2>1, <2>8, StillFile DEF Calm
  <2>9. CASE ~Calm
    <3>1. ZeroLast(net')
      BY <2>3, <2>4, <2>5, <2>6, <2>9, FileParts, ZeroAppend DEF Ordered, Early
    <3>2. Ordered'
      BY <2>7, <3>1 DEF Ordered
    <3>3. (Renaming' => Renaming) /\ (InCheck' => InCheck)
      BY <2>1, <2>3, <2>4, <2>6, <2>7 DEF Renaming, InCheck
    <3> QED BY <1>1, <2>1, <2>3, <2>4, <2>6, <2>7, <2>9, <3>2, <3>3, StillFile DEF OnDisk
  <2> QED BY <2>8, <2>9
<1>4. CASE LinkUp \/ ModeKey
  <2>1. UNCHANGED <<ftp, disk, calls, net, toApp, app>>
    BY <1>4 DEF LinkUp, ModeKey, device
  <2>2. FlowLess
    BY <2>1 DEF FlowLess, FlowData, Renaming
  <2> QED BY <1>1, <2>1, <2>2, PassFile
<1>5. CASE PowerLoss
  <2>1. Calm'
    BY <1>5 DEF PowerLoss, Reset, Calm
  <2> QED BY <1>1, <2>1, StillFile
<1> QED BY <1>2, <1>3, <1>4, <1>5 DEF Environment

\* The initial state has it.
LEMMA InitFile == Init => FileSafe
<1> SUFFICES ASSUME Init PROVE FileSafe
  OBVIOUS
<1>1. ftp = NoFtp /\ published = << >>
  BY DEF Init
<1>2. PublishedIntact
  BY <1>1 DEF PublishedIntact
<1> QED BY <1>1, <1>2, InitSafe DEF FileSafe, Clear, Reads, Verified, Calm

\* Every step keeps it.
LEMMA StepFile ==
  ASSUME "restart" \notin Faults
  PROVE  FileSafe /\ [Next]_vars => FileSafe'
<1> SUFFICES ASSUME FileSafe, [Next]_vars PROVE FileSafe'
  OBVIOUS
<1>1. DiskSafe'
  BY FileParts, StepSafe
<1>2. CASE UNCHANGED vars
  <2>1. UNCHANGED <<ftp, disk, calls, net, toApp, app, published>>
    BY <1>2 DEF vars
  <2>2. FlowLess /\ PublishedIntact'
    BY <2>1, FileParts, StillPublished DEF FlowLess, FlowData, Renaming
  <2> QED BY <1>1, <2>1, <2>2, PassFile
<1>3. CASE Receive
  BY <1>1, <1>3, RcvPrepareFile, RcvStartFile, RcvDataFile, RcvStopFile,
     RcvRenameRspFile DEF Receive
<1>4. CASE TaskStart
  BY <1>1, <1>4, TaskStartFile
<1>5. CASE Timers
  BY <1>1, <1>5, StartTimeoutFile, GetTimeoutFile, MarkScanFile DEF Timers
<1>6. CASE Calculate
  BY <1>1, <1>6, CalculateFile
<1>7. CASE App
  BY <1>1, <1>7, AppSpeaksFile, AppServeFile DEF App
<1>8. CASE Environment
  BY <1>1, <1>8, EnvironmentFile
<1> QED BY <1>2, <1>3, <1>4, <1>5, <1>6, <1>7, <1>8 DEF Next

\* A file that gets its final name is, block for block, the one announced: no
\* loss, late packet, resume, cancel or power loss puts a wrong file there
\* (file_transfer_download_file_check and file_transfer_file_rename).
THEOREM PublishedSafe ==
  ASSUME "restart" \notin Faults
  PROVE  Spec => []PublishedIntact
<1>1. FileSafe => PublishedIntact
  BY DEF FileSafe
<1> QED BY <1>1, InitFile, StepFile, PTL DEF Spec
=============================================================================

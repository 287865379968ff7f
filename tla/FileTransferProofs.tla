------------------------- MODULE FileTransferProofs -------------------------
(***************************************************************************)
(* Proofs about FileTransfer for all contents, sizes, windows and faults.   *)
(*                                                                         *)
(* IInv is TypeOK with what a session keeps true of itself: the two run     *)
(* invariants StartTimerIdle and OffsetWithinFile, and that the timer and   *)
(* the renamed file a session refers to exist.  It is inductive.            *)
(***************************************************************************)
EXTENDS FileTransfer, SequenceTheorems, TLAPS

\* A session record with its type, its start timer and its offset in order.
Sound(f) ==
  /\ f \in Sessions
  /\ f.start => f.file = "none" /\ f.crc = NoFile /\ ~f.mark
  /\ f.off <= SizeOf(f.crc)
  /\ f.last => SizeOf(f.crc) = 1 \/ f.off = SizeOf(f.crc)

Files == File \cup {Absent}
Final == [of : Contents \cup {NoFile}, blocks : Seq(Block)]
Finals == Seq(Final)
Tasks == {"other", "switching", "action"}

\* What the session refers to exists: its mark timer, its open file.
Refers(f) ==
  /\ f.mark => marks > 0
  /\ f.file = "final" => published # << >>
  /\ f.file = "tmp" => disk \in File

IInv ==
  /\ TypeOK
  /\ ftp # NoFtp => Sound(ftp) /\ Refers(ftp)

-----------------------------------------------------------------------------
\* The announced size is within the bound and never less than its partial block.
LEMMA SizeOfType ==
  ASSUME NEW c \in Contents \cup {NoFile}
  PROVE  /\ SizeOf(c) \in Nat /\ RemainOf(c) \in {0, 1}
         /\ SizeOf(c) <= LastBlock + 1
         /\ c \in Contents => SizeOf(c) = Size[c] /\ Size[c] \in 1..(LastBlock + 1)
         /\ SizeOf(c) - RemainOf(c) \in Nat
BY ConstantsAssumption DEF SizeOf, RemainOf

\* fwrite and the mark leave a file a file.
LEMMA WriteType ==
  ASSUME NEW d \in File, NEW p \in Nat, NEW b \in Block
  PROVE  Write(d, p, b) \in File
BY DEF Write, File

\* Writing the mark leaves a file a file.
LEMMA FillMarkType ==
  ASSUME NEW f \in Sessions, NEW d \in Files
  PROVE  FillMark(f, d) \in Files /\ (d \in File => FillMark(f, d) \in File)
BY WriteType, ConstantsAssumption DEF FillMark, Files, Block, Sessions

\* file_transfer_close leaves a sound session or none.
LEMMA CloseSettles ==
  ASSUME TypeOK, NEW f, NEW d \in Files, Sound(f), f.mark => marks > 0,
         Close(f, d)
  PROVE  /\ ftp' \in Sessions \cup {NoFtp} /\ disk' \in Files
         /\ task' \in Tasks /\ marks' \in Nat
         /\ ftp' # NoFtp => ftp' = f /\ marks' = marks /\ disk' = d
<1>1. FillMark(f, d) \in Files
  BY FillMarkType DEF Sound
<1>2. f \in Sessions /\ f.mark \in BOOLEAN /\ f.counter \in Nat
  BY DEF Sound, Sessions
<1>3. marks \in Nat /\ task \in Tasks
  BY DEF TypeOK, Tasks
<1>4. CASE f.counter > 0
  BY <1>2, <1>3, <1>4 DEF Close
<1>5. CASE ~(f.counter > 0)
  BY <1>1, <1>2, <1>3, <1>5 DEF Close, MarksLeft, Tasks
<1> QED BY <1>4, <1>5

\* A send that fails closes, one that succeeds keeps the session.
LEMMA SendSettles ==
  ASSUME TypeOK, NEW f, NEW d \in Files, Sound(f), f.mark => marks > 0,
         NEW m \in ToApp, SendOrClose(f, d, m)
  PROVE  /\ ftp' \in Sessions \cup {NoFtp} /\ disk' \in Files
         /\ task' \in Tasks /\ marks' \in Nat /\ toApp' \in Seq(ToApp)
         /\ ftp' # NoFtp => ftp' = f /\ marks' = marks /\ disk' = d
<1>1. toApp \in Seq(ToApp)
  BY DEF TypeOK
<1>2. CASE toApp' = Append(toApp, m) /\ Keep(f, d)
  BY <1>1, <1>2 DEF Keep, Sound, TypeOK, Tasks
<1>3. CASE UNCHANGED toApp /\ Close(f, d)
  BY <1>1, <1>3, CloseSettles
<1> QED BY <1>2, <1>3 DEF SendOrClose

\* file_transfer_download_get_data touches the window and the timeout only.
LEMMA GetDataSettles ==
  ASSUME TypeOK, NEW f, Sound(f), GetData(f)
  PROVE  /\ Sound(ftp') /\ ftp'.mark = f.mark /\ ftp'.file = f.file
         /\ toApp' \in Seq(ToApp)
<1>1. f \in Sessions /\ toApp \in Seq(ToApp)
  BY DEF Sound, TypeOK
<1>2. CASE ftp' = f /\ UNCHANGED toApp
  BY <1>1, <1>2
<1>3. CASE \E w \in Windows :
             LET g == [f EXCEPT !.id = 0, !.idMax = w]
             IN \/ /\ up
                   /\ toApp' = Append(toApp, Request(f, w))
                   /\ ftp' = [g EXCEPT !.get = IF @ = "none" THEN "armed" ELSE @]
                \/ SendFails /\ ftp' = g /\ UNCHANGED toApp
  <2> PICK w \in Windows :
             LET g == [f EXCEPT !.id = 0, !.idMax = w]
             IN \/ /\ up
                   /\ toApp' = Append(toApp, Request(f, w))
                   /\ ftp' = [g EXCEPT !.get = IF @ = "none" THEN "armed" ELSE @]
                \/ SendFails /\ ftp' = g /\ UNCHANGED toApp
    BY <1>3
  <2>1. w \in Nat
    BY ConstantsAssumption
  <2>2. Request(f, w) \in ToApp
    BY <1>1, <2>1 DEF Request, Pull, ToApp, Sessions
  <2>3. toApp' \in Seq(ToApp)
    BY <1>1, <2>2
  <2>4. \E v \in {"none", "armed", "fired"} :
          ftp' = [f EXCEPT !.id = 0, !.idMax = w, !.get = v]
    <3> DEFINE g == [f EXCEPT !.id = 0, !.idMax = w]
               x == IF f.get = "none" THEN "armed" ELSE f.get
    <3>1. f.get \in {"none", "armed", "fired"} /\ g.get = f.get
      BY <1>1 DEF Sessions
    <3>2. CASE ftp' = [g EXCEPT !.get = IF @ = "none" THEN "armed" ELSE @]
      <4>1. ftp' = [g EXCEPT !.get = x]
        BY <3>1, <3>2
      <4>2. ftp' = [f EXCEPT !.id = 0, !.idMax = w, !.get = x]
        BY <1>1, <4>1 DEF Sessions
      <4> HIDE DEF x
      <4>3. x \in {"none", "armed", "fired"}
        BY <3>1 DEF x
      <4> QED BY <4>2, <4>3
    <3>3. CASE ftp' = g
      <4>1. ftp' = [f EXCEPT !.id = 0, !.idMax = w, !.get = f.get]
        BY <1>1, <3>3 DEF Sessions
      <4> QED BY <3>1, <4>1
    <3> QED BY <3>2, <3>3
  <2>5. PICK v \in {"none", "armed", "fired"} :
          ftp' = [f EXCEPT !.id = 0, !.idMax = w, !.get = v]
    BY <2>4
  <2>6. ftp' \in Sessions
    BY <1>1, <2>1, <2>5 DEF Sessions
  <2>7. /\ ftp'.mark = f.mark /\ ftp'.file = f.file /\ ftp'.crc = f.crc
        /\ ftp'.off = f.off /\ ftp'.last = f.last /\ ftp'.start = f.start
    BY <1>1, <2>4 DEF Sessions
  <2> QED BY <2>3, <2>6, <2>7 DEF Sound
<1> QED BY <1>2, <1>3 DEF GetData

\* Rewinding for the check keeps the session sound.
LEMMA CheckRecordSound ==
  ASSUME NEW f, Sound(f), ~f.start
  PROVE  /\ Sound(CheckRecord(f))
         /\ CheckRecord(f).mark = f.mark /\ CheckRecord(f).file = f.file
<1>1. f \in Sessions /\ f.crc \in Contents \cup {NoFile}
  BY DEF Sound, Sessions
<1>2. SizeOf(f.crc) \in Nat /\ RemainOf(f.crc) \in {0, 1}
      /\ SizeOf(f.crc) - RemainOf(f.crc) \in Nat
  BY <1>1, SizeOfType
<1>3. << >> \in Seq(Block)
  OBVIOUS
<1> DEFINE g == CheckRecord(f)
<1>4. g \in Sessions
  BY <1>1, <1>2, <1>3 DEF CheckRecord, Sessions
<1>5. /\ g.off = SizeOf(f.crc) /\ g.crc = f.crc /\ g.start = f.start
      /\ g.last = f.last /\ g.mark = f.mark /\ g.file = f.file
  BY <1>1 DEF CheckRecord, Sessions
<1> QED BY <1>2, <1>4, <1>5 DEF Sound

\* The next message, when there is one.
LEMMA HeadType ==
  ASSUME TypeOK, net # << >>
  PROVE  Head(net) \in FromApp /\ Tail(net) \in Seq(FromApp)
BY DEF TypeOK
-----------------------------------------------------------------------------
(* START: the session it works on and the state it opens the file in.       *)

\* A fresh session (file_transfer_init, or zalloc) is sound and refers to nothing.
LEMMA NewFtpSound ==
  ASSUME NEW hosted \in BOOLEAN
  PROVE  /\ Sound(NewFtp(hosted)) /\ ~NewFtp(hosted).mark
         /\ NewFtp(hosted).file = "none"
<1>1. << >> \in Seq(Block)
  OBVIOUS
<1>2. NewFtp(hosted) \in Sessions
  BY <1>1 DEF NewFtp, Sessions
<1>3. SizeOf(NoFile) = 0
  BY DEF SizeOf
<1> QED BY <1>2, <1>3 DEF NewFtp, Sound

\* The offset a START goes on from lies inside the announced file.
LEMMA ResumeWithin ==
  ASSUME NEW c \in Contents, NEW d \in File, Size[c] # 1
  PROVE  ResumeFrom(c, d) \in 1..Size[c]
<1>1. Size[c] \in Nat /\ Size[c] >= 1 /\ Remain[c] \in Nat
  BY ConstantsAssumption
<1>2. 0 \in 0..LastBlock
  BY ConstantsAssumption
<1>3. d[0] \in Block
  BY <1>2 DEF File
<1>4. MarkedOffset(d) \in Nat
  BY <1>3 DEF MarkedOffset, Block
<1> QED BY <1>1, <1>4 DEF ResumeFrom

\* Stopping the start timer keeps the session sound.
LEMMA StopSound ==
  ASSUME NEW f, Sound(f)
  PROVE  /\ Sound(StartStopped(f)) /\ ~StartStopped(f).start
         /\ StartStopped(f).mark = f.mark /\ StartStopped(f).file = f.file
<1>1. f \in Sessions
  BY DEF Sound
<1>2. StartStopped(f) \in Sessions
  BY <1>1 DEF StartStopped, Sessions
<1>3. /\ StartStopped(f).start = FALSE /\ StartStopped(f).mark = f.mark
      /\ StartStopped(f).file = f.file /\ StartStopped(f).crc = f.crc
      /\ StartStopped(f).off = f.off /\ StartStopped(f).last = f.last
  BY <1>1 DEF StartStopped, Sessions
<1> QED BY <1>2, <1>3 DEF Sound

\* The session START opens its file in is sound, with the start timer stopped.
LEMMA OpenedSound ==
  ASSUME NEW f, Sound(f), ~f.start, NEW c \in Contents, NEW d \in File
  PROVE  /\ Sound(Opened(f, c, d)) /\ ~Opened(f, c, d).start
         /\ Opened(f, c, d).mark = f.mark /\ Opened(f, c, d).file = "tmp"
<1> DEFINE g == [f EXCEPT !.file = "tmp", !.crc = c, !.pos = 0,
                          !.last = (Size[c] = 1)]
           h == Opened(f, c, d)
<1>1. f \in Sessions
  BY DEF Sound
<1>2. g \in Sessions
  BY <1>1 DEF Sessions
<1>3. /\ g.crc = c /\ g.last = (Size[c] = 1) /\ g.file = "tmp"
      /\ g.mark = f.mark /\ g.start = f.start
  BY <1>1 DEF Sessions
<1>4. SizeOf(c) = Size[c] /\ Size[c] \in Nat
  BY SizeOfType
<1> HIDE DEF g
<1>5. CASE Size[c] = 1
  <2>1. h = [g EXCEPT !.off = 0]
    BY <1>5 DEF Opened, g
  <2>2. h \in Sessions
    BY <1>2, <2>1 DEF Sessions
  <2>3. /\ h.off = 0 /\ h.crc = g.crc /\ h.last = g.last /\ h.file = g.file
        /\ h.mark = g.mark /\ h.start = g.start
    BY <1>2, <2>1 DEF Sessions
  <2> QED BY <1>3, <1>4, <1>5, <2>2, <2>3 DEF Sound
<1>6. CASE Size[c] # 1
  <2> DEFINE p == ResumeFrom(c, d)
  <2>1. p \in Nat /\ p <= Size[c]
    BY <1>4, <1>6, ResumeWithin
  <2>2. h = [[g EXCEPT !.off = p] EXCEPT !.pos = [g EXCEPT !.off = p].off]
    BY <1>6 DEF Opened, SeekBack, g
  <2> HIDE DEF p, h
  <2>3. h = [g EXCEPT !.off = p, !.pos = p]
    BY <1>2, <2>2 DEF Sessions
  <2>4. h \in Sessions
    BY <1>2, <2>1, <2>3 DEF Sessions
  <2>5. /\ h.off = p /\ h.crc = g.crc /\ h.last = g.last /\ h.file = g.file
        /\ h.mark = g.mark /\ h.start = g.start
    BY <1>2, <2>3 DEF Sessions
  <2>6. Sound(h)
    BY <1>3, <1>4, <1>6, <2>1, <2>4, <2>5 DEF Sound
  <2> QED BY <1>3, <2>5, <2>6 DEF h
<1> QED BY <1>5, <1>6
-----------------------------------------------------------------------------
(* One lemma per group of actions: each keeps IInv.                         *)

\* The next state keeps IInv when its parts do.
LEMMA Rebuild ==
  ASSUME IInv,
         ftp' \in Sessions \cup {NoFtp}, disk' \in Files, task' \in Tasks,
         calls' \in Nat, marks' \in Nat, net' \in Seq(FromApp),
         toApp' \in Seq(ToApp), published' \in Finals,
         app' \in [st : {"idle", "prep", "ready", "xfer"}, c : Contents, fed : BOOLEAN],
         up' \in BOOLEAN, starts' \in 0..MaxStarts, losses' \in 0..MaxLoss,
         ftp' # NoFtp => Sound(ftp') /\ Refers(ftp)'
  PROVE  IInv'
BY DEF IInv, TypeOK, Files, Tasks, Finals, Final

\* START, in each of its outcomes.
LEMMA RcvStartKeeps ==
  ASSUME IInv, RcvStart
  PROVE  IInv'
<1> DEFINE c == Head(net).c
           f == StartStopped(ftp)
           d == IF disk = Absent THEN Blank ELSE disk
           g == Opened(f, c, d)
           e == IF g.last \/ MarkedOffset(d) = g.off THEN d ELSE FillMark(g, d)
<1>1. TypeOK /\ (ftp # NoFtp => Sound(ftp) /\ Refers(ftp))
  BY DEF IInv
<1>2. /\ net' \in Seq(FromApp) /\ c \in Contents
  BY <1>1, HeadType DEF RcvStart, Arrives, FromApp
<1>3. Blank \in File
  BY DEF Blank, File, Block
<1>4. d \in File
  BY <1>1, <1>3 DEF TypeOK
<1>5. /\ published' = published /\ up' = up /\ starts' = starts
      /\ losses' = losses
      /\ published \in Finals /\ up \in BOOLEAN /\ starts \in 0..MaxStarts
      /\ losses \in 0..MaxLoss /\ calls \in Nat /\ marks \in Nat
      /\ disk \in Files /\ task \in Tasks /\ toApp \in Seq(ToApp)
      /\ app \in [st : {"idle", "prep", "ready", "xfer"}, c : Contents, fed : BOOLEAN]
  BY <1>1 DEF RcvStart, TypeOK, Finals, Final, Files, Tasks
<1>6. ASSUME ftp # NoFtp
      PROVE  /\ Sound(f) /\ ~f.start /\ f.mark = ftp.mark /\ f.file = ftp.file
             /\ Sound(g) /\ ~g.start /\ g.mark = f.mark /\ g.file = "tmp"
             /\ f.mark => marks > 0
             /\ f.file = "final" => published # << >>
             /\ f.file = "tmp" => disk \in File
  BY <1>1, <1>2, <1>4, <1>6, StopSound, OpenedSound DEF Refers
<1>7. ASSUME AnswerFail
      PROVE  app' \in [st : {"idle", "prep", "ready", "xfer"}, c : Contents, fed : BOOLEAN]
  BY <1>5, <1>7 DEF AnswerFail
<1> HIDE DEF c, d
<1>8. CASE /\ ftp = NoFtp /\ ftp' = NewFtp(FALSE) /\ AnswerFail
           /\ UNCHANGED <<disk, task, calls, marks, toApp>>
  <2>1. ftp' \in Sessions /\ Sound(ftp') /\ ~ftp'.mark /\ ftp'.file = "none"
    BY <1>8, NewFtpSound DEF Sound
  <2> QED BY <1>2, <1>5, <1>7, <1>8, <2>1, Rebuild DEF Refers
<1>9. CASE ftp # NoFtp /\ Close(f, disk) /\ AnswerFail /\ UNCHANGED <<calls, toApp>>
  <2>1. /\ ftp' \in Sessions \cup {NoFtp} /\ disk' \in Files
        /\ task' \in Tasks /\ marks' \in Nat
        /\ ftp' # NoFtp => ftp' = f /\ marks' = marks /\ disk' = disk
    BY <1>1, <1>5, <1>6, <1>9, CloseSettles
  <2> QED BY <1>2, <1>5, <1>6, <1>7, <1>9, <2>1, Rebuild DEF Refers
<1>10. CASE /\ ftp # NoFtp /\ Close([f EXCEPT !.file = "none"], disk) /\ AnswerFail
            /\ UNCHANGED <<calls, toApp>>
  <2> DEFINE h == [f EXCEPT !.file = "none"]
  <2>1. Sound(h) /\ h.mark = f.mark /\ h.file = "none"
    BY <1>6, <1>10 DEF Sound, Sessions
  <2>2. /\ ftp' \in Sessions \cup {NoFtp} /\ disk' \in Files
        /\ task' \in Tasks /\ marks' \in Nat
        /\ ftp' # NoFtp => ftp' = h /\ marks' = marks /\ disk' = disk
    BY <1>1, <1>5, <1>6, <1>10, <2>1, CloseSettles
  <2> QED BY <1>2, <1>5, <1>6, <1>7, <1>10, <2>1, <2>2, Rebuild DEF Refers
<1>11. CASE /\ ftp # NoFtp /\ Keep(CheckRecord(g), d) /\ calls' = calls + 1
            /\ UNCHANGED <<toApp, app>>
  <2>1. Sound(ftp') /\ ftp'.mark = g.mark /\ ftp'.file = "tmp"
    BY <1>6, <1>11, CheckRecordSound DEF Keep
  <2>2. ftp' \in Sessions /\ disk' \in File /\ disk' \in Files
        /\ task' = task /\ marks' = marks
    BY <1>4, <1>11, <2>1 DEF Sound, Keep, Files
  <2> QED BY <1>2, <1>5, <1>6, <1>11, <2>1, <2>2, Rebuild DEF Refers
<1>12. CASE /\ ftp # NoFtp /\ GetData([g EXCEPT !.mark = TRUE])
            /\ disk' = e /\ marks' = marks + 1 /\ UNCHANGED <<task, calls, app>>
  <2> DEFINE h == [g EXCEPT !.mark = TRUE]
  <2>1. Sound(h) /\ h.mark /\ h.file = "tmp"
    BY <1>6, <1>12 DEF Sound, Sessions
  <2>2. Sound(ftp') /\ ftp'.mark /\ ftp'.file = "tmp" /\ toApp' \in Seq(ToApp)
    BY <1>1, <1>12, <2>1, GetDataSettles
  <2>3. disk' \in File /\ disk' \in Files /\ ftp' \in Sessions
    BY <1>4, <1>6, <1>12, <2>2, FillMarkType DEF Files, Sound
  <2> QED BY <1>2, <1>5, <1>12, <2>2, <2>3, Rebuild DEF Refers
<1>13. CASE /\ ftp # NoFtp /\ ftp' = NoFtp /\ UNCHANGED <<calls, toApp, app>>
            /\ IF g.counter > 0
               THEN disk' = e /\ UNCHANGED <<task, marks>>
               ELSE /\ disk' = IF g.last THEN e ELSE FillMark(g, e)
                    /\ task' = IF g.hosted /\ task = "action" THEN "other" ELSE task
                    /\ marks' = MarksLeft(g)
  <2>1. e \in Files /\ FillMark(g, e) \in Files
    BY <1>4, <1>6, <1>13, FillMarkType DEF Files, Sound
  <2>2. marks' \in Nat
    BY <1>5, <1>6, <1>13 DEF MarksLeft
  <2>3. disk' \in Files /\ task' \in Tasks
    BY <1>5, <1>13, <2>1 DEF Tasks
  <2> QED BY <1>2, <1>5, <1>13, <2>2, <2>3, Rebuild
<1> QED BY <1>8, <1>9, <1>10, <1>11, <1>12, <1>13 DEF RcvStart, c, d

\* What IInv says of the current state, in the names Rebuild uses.
LEMMA Parts ==
  ASSUME IInv
  PROVE  /\ TypeOK /\ ftp \in Sessions \cup {NoFtp}
         /\ disk \in Files /\ task \in Tasks /\ calls \in Nat /\ marks \in Nat
         /\ net \in Seq(FromApp) /\ toApp \in Seq(ToApp) /\ published \in Finals
         /\ app \in [st : {"idle", "prep", "ready", "xfer"}, c : Contents, fed : BOOLEAN]
         /\ up \in BOOLEAN /\ starts \in 0..MaxStarts /\ losses \in 0..MaxLoss
         /\ ftp # NoFtp => Sound(ftp) /\ Refers(ftp)
BY DEF IInv, TypeOK, Files, Tasks, Finals, Final

\* Steps that leave the session, its timers and the renamed files alone.
LEMMA OthersKeep ==
  ASSUME IInv, UNCHANGED <<ftp, marks, published, disk>>, task' \in Tasks, calls' \in Nat,
         net' \in Seq(FromApp), toApp' \in Seq(ToApp),
         app' \in [st : {"idle", "prep", "ready", "xfer"}, c : Contents, fed : BOOLEAN],
         up' \in BOOLEAN, starts' \in 0..MaxStarts, losses' \in 0..MaxLoss
  PROVE  IInv'
BY Parts, Rebuild DEF Refers

\* RcvCancel, RcvStop, StartTimeout: the session is closed.
LEMMA CloseKeeps ==
  ASSUME IInv, ftp # NoFtp, NEW f, Sound(f), f.mark = ftp.mark, f.file = ftp.file,
         Close(f, disk), net' \in Seq(FromApp),
         UNCHANGED <<published, calls, toApp, app, up, starts, losses>>
  PROVE  IInv'
<1>1. /\ ftp' \in Sessions \cup {NoFtp} /\ disk' \in Files
      /\ task' \in Tasks /\ marks' \in Nat
      /\ ftp' # NoFtp => ftp' = f /\ marks' = marks /\ disk' = disk
  BY Parts, CloseSettles DEF Refers
<1> QED BY <1>1, Parts, Rebuild DEF Refers

\* CANCEL, the disconnect event and the answer to END.
LEMMA RcvStopKeeps ==
  ASSUME IInv, RcvCancel \/ RcvStop
  PROVE  IInv'
<1>1. net' \in Seq(FromApp)
  BY Parts, HeadType DEF RcvCancel, RcvStop, Arrives
<1>2. CASE ftp = NoFtp
  BY <1>1, <1>2, Parts, OthersKeep DEF RcvCancel, RcvStop
<1>3. CASE ftp # NoFtp
  BY <1>1, <1>3, Parts, CloseKeeps DEF RcvCancel, RcvStop
<1> QED BY <1>2, <1>3

\* The two-second start timer.
LEMMA StartTimeoutKeeps ==
  ASSUME IInv, StartTimeout
  PROVE  IInv'
<1> DEFINE f == [ftp EXCEPT !.start = FALSE]
<1>1. ftp # NoFtp /\ Sound(ftp) /\ ftp \in Sessions
  BY Parts DEF StartTimeout, Sound
<1>2. f \in Sessions
  BY <1>1 DEF Sessions
<1>3. /\ f.start = FALSE /\ f.mark = ftp.mark /\ f.file = ftp.file
      /\ f.crc = ftp.crc /\ f.off = ftp.off /\ f.last = ftp.last
  BY <1>1 DEF Sessions
<1>4. Sound(f)
  BY <1>1, <1>2, <1>3 DEF Sound
<1>5. Close(f, disk)
  BY DEF StartTimeout
<1> HIDE DEF f
<1> QED BY <1>1, <1>3, <1>4, <1>5, Parts, CloseKeeps DEF StartTimeout

\* The app asks for the action mode.
LEMMA RcvPrepareKeeps ==
  ASSUME IInv, RcvPrepare
  PROVE  IInv'
<1>1. net' \in Seq(FromApp)
  BY Parts, HeadType DEF RcvPrepare, Arrives
<1>2. app' \in [st : {"idle", "prep", "ready", "xfer"}, c : Contents, fed : BOOLEAN]
  BY Parts DEF RcvPrepare
<1>3. task' \in Tasks
  BY Parts DEF RcvPrepare, Tasks
<1> QED BY <1>1, <1>2, <1>3, Parts, OthersKeep DEF RcvPrepare

\* The action mode starts and hosts a session.
LEMMA TaskStartKeeps ==
  ASSUME IInv, TaskStart
  PROVE  IInv'
<1>1. app' \in [st : {"idle", "prep", "ready", "xfer"}, c : Contents, fed : BOOLEAN]
  BY Parts DEF TaskStart
<1>2. task' \in Tasks
  BY DEF TaskStart, Tasks
<1>3. ftp' \in Sessions \cup {NoFtp} /\ (ftp' # NoFtp => Sound(ftp') /\ Refers(ftp)')
  BY Parts, NewFtpSound DEF TaskStart, Refers, Sound
<1> QED BY <1>1, <1>2, <1>3, Parts, Rebuild DEF TaskStart

\* The pull timeout.
LEMMA GetTimeoutKeeps ==
  ASSUME IInv, GetTimeout
  PROVE  IInv'
<1> DEFINE f == [ftp EXCEPT !.get = "fired"]
<1>1. ftp # NoFtp /\ Sound(ftp) /\ ftp \in Sessions
  BY Parts DEF GetTimeout, Sound
<1>2. f \in Sessions
  BY <1>1 DEF Sessions
<1>3. /\ f.start = ftp.start /\ f.mark = ftp.mark /\ f.file = ftp.file
      /\ f.crc = ftp.crc /\ f.off = ftp.off /\ f.last = ftp.last
  BY <1>1 DEF Sessions
<1>4. Sound(f) /\ GetData(f)
  BY <1>1, <1>2, <1>3 DEF Sound, GetTimeout
<1> HIDE DEF f
<1>5. /\ Sound(ftp') /\ ftp'.mark = f.mark /\ ftp'.file = f.file
      /\ toApp' \in Seq(ToApp)
  BY <1>4, Parts, GetDataSettles
<1>6. ftp' \in Sessions /\ Refers(ftp)'
  BY <1>1, <1>3, <1>5, Parts DEF Sound, Refers, GetTimeout
<1> QED BY <1>5, <1>6, Parts, Rebuild DEF GetTimeout

\* The periodic mark timer.
LEMMA MarkScanKeeps ==
  ASSUME IInv, MarkScan
  PROVE  IInv'
<1>1. ftp # NoFtp /\ Sound(ftp) /\ ftp \in Sessions
  BY Parts DEF MarkScan, Sound
<1>2. ftp' = [ftp EXCEPT !.pos = ftp.off]
  BY DEF MarkScan, SeekBack
<1>3. ftp' \in Sessions
  BY <1>1, <1>2 DEF Sessions
<1>4. /\ ftp'.start = ftp.start /\ ftp'.mark = ftp.mark /\ ftp'.file = ftp.file
      /\ ftp'.crc = ftp.crc /\ ftp'.off = ftp.off /\ ftp'.last = ftp.last
  BY <1>1, <1>2 DEF Sessions
<1>5. disk' \in Files /\ (disk \in File => disk' \in File)
  BY <1>1, Parts, FillMarkType DEF MarkScan
<1>6. Sound(ftp') /\ Refers(ftp)'
  BY <1>1, <1>3, <1>4, <1>5, Parts DEF Sound, Refers, MarkScan
<1> QED BY <1>3, <1>5, <1>6, Parts, Rebuild DEF MarkScan

\* A data packet, in each of its outcomes.
LEMMA RcvDataKeeps ==
  ASSUME IInv, RcvData
  PROVE  IInv'
<1> DEFINE m == Head(net)
           f == [ftp EXCEPT !.id = @ + 1]
           w == Write(disk, f.pos, m.block)
           g == [f EXCEPT !.off = @ + 1, !.pos = @ + 1]
           l == [f EXCEPT !.get = "none", !.pos = 0]
<1>1. net' \in Seq(FromApp) /\ m.block \in Block
  BY Parts, HeadType DEF RcvData, Arrives, FromApp
<1>2. /\ UNCHANGED <<published, app, up, starts, losses>>
  BY DEF RcvData
<1>3. CASE UNCHANGED <<ftp, disk, task, calls, marks, toApp>>
  BY <1>1, <1>2, <1>3, Parts, OthersKeep
<1>4. ASSUME ftp # NoFtp, ftp.file # "none"
      PROVE  /\ ftp \in Sessions /\ Sound(ftp) /\ ~ftp.start
             /\ (ftp.mark => marks > 0) /\ (ftp.file = "final" => published # << >>)
             /\ (ftp.file = "tmp" => disk \in File)
  BY <1>4, Parts DEF Sound, Refers
<1>5. ASSUME ftp # NoFtp, ftp.file # "none"
      PROVE  /\ f \in Sessions /\ f.start = FALSE /\ f.mark = ftp.mark
             /\ f.file = ftp.file /\ f.crc = ftp.crc /\ f.off = ftp.off
             /\ f.last = ftp.last
  BY <1>4, <1>5 DEF Sessions
<1>6. ASSUME ftp # NoFtp, ftp.file # "none"
      PROVE  Sound(f)
  BY <1>4, <1>5, <1>6 DEF Sound
<1>7. ASSUME ftp # NoFtp, ftp.file # "none"
      PROVE  /\ l \in Sessions /\ ~l.start /\ l.mark = ftp.mark
             /\ l.file = ftp.file /\ l.crc = ftp.crc /\ l.off = ftp.off
             /\ l.last = ftp.last
  BY <1>4, <1>5, <1>7 DEF Sessions
<1>8. ASSUME ftp # NoFtp, ftp.file # "none"
      PROVE  Sound(l)
  BY <1>4, <1>7, <1>8 DEF Sound
<1> HIDE DEF f, l
<1>9. ASSUME ftp # NoFtp, ftp.file = "tmp", ~ftp.last
      PROVE  /\ g \in Sessions /\ ~g.start /\ g.mark = ftp.mark
             /\ g.file = ftp.file /\ g.crc = ftp.crc /\ g.off = ftp.off + 1
             /\ ~g.last
  <2>1. f \in Sessions /\ f.start = FALSE /\ f.last = ftp.last /\ f.off = ftp.off
        /\ f.mark = ftp.mark /\ f.file = ftp.file /\ f.crc = ftp.crc
    BY <1>5, <1>9
  <2> DEFINE a == f.off + 1
             b == f.pos + 1
  <2>2. a \in Nat /\ b \in Nat /\ g = [f EXCEPT !.off = a, !.pos = b]
    BY <2>1 DEF Sessions
  <2> HIDE DEF a, b, g
  <2>3. g \in Sessions
    BY <2>1, <2>2 DEF Sessions
  <2>4. /\ g.start = f.start /\ g.last = f.last /\ g.off = a
        /\ g.mark = f.mark /\ g.file = f.file /\ g.crc = f.crc
    BY <2>1, <2>2 DEF Sessions
  <2> QED BY <1>9, <2>1, <2>3, <2>4 DEF a
<1>10. ASSUME ftp # NoFtp, ftp.file = "tmp"
       PROVE  w \in File /\ w \in Files
  <2>1. f.pos \in Nat
    BY <1>5, <1>10 DEF Sessions
  <2> QED BY <1>1, <1>4, <1>10, <2>1, WriteType DEF Files
<1>11. ASSUME ftp # NoFtp, ftp.file # "none"
       PROVE  ftp.off \in Nat /\ SizeOf(ftp.crc) \in Nat
  BY <1>4, <1>11, SizeOfType DEF Sessions
<1> HIDE DEF g, m, w
<1>12. CASE /\ ftp # NoFtp /\ ftp.file # "none" /\ f.last /\ f.file = "tmp"
            /\ Keep(CheckRecord(l), Write(disk, 0, m.block))
            /\ calls' = calls + 1 /\ UNCHANGED toApp
  <2>1. Sound(ftp') /\ ftp'.mark = ftp.mark /\ ftp'.file = ftp.file
    BY <1>7, <1>8, <1>12, CheckRecordSound DEF Keep
  <2>2. Write(disk, 0, m.block) \in File /\ Write(disk, 0, m.block) \in Files
    BY <1>1, <1>4, <1>5, <1>12, WriteType DEF Files
  <2>3. /\ ftp' \in Sessions /\ disk' \in File /\ disk' \in Files /\ task' = task /\ marks' = marks
    BY <1>12, <2>1, <2>2 DEF Keep, Sound
  <2> QED BY <1>1, <1>2, <1>4, <1>12, <2>1, <2>3, Parts, Rebuild DEF Refers
<1>13. ASSUME ftp # NoFtp, ftp.file # "none", NEW h \in {f, l}, NEW x \in ToApp,
              SendOrClose(h, disk, x), UNCHANGED calls
       PROVE  IInv'
  <2>1. Sound(h) /\ h.mark = ftp.mark /\ h.file = ftp.file
    BY <1>5, <1>6, <1>7, <1>8, <1>13
  <2>2. /\ ftp' \in Sessions \cup {NoFtp} /\ disk' \in Files
        /\ task' \in Tasks /\ marks' \in Nat /\ toApp' \in Seq(ToApp)
        /\ ftp' # NoFtp => ftp' = h /\ marks' = marks /\ disk' = disk
    BY <1>4, <1>13, <2>1, Parts, SendSettles
  <2> QED BY <1>1, <1>2, <1>4, <1>13, <2>1, <2>2, Parts, Rebuild DEF Refers
<1>14. End("write") \in ToApp /\ End("limit") \in ToApp
  BY DEF End, ToApp
<1>15. CASE /\ ftp # NoFtp /\ ftp.file # "none" /\ ~f.last /\ f.file = "tmp"
            /\ g.off = SizeOf(f.crc)
            /\ GetData([g EXCEPT !.last = TRUE, !.mark = FALSE])
            /\ disk' = w /\ marks' = MarksLeft(f) /\ UNCHANGED <<task, calls>>
  <2>0. /\ g \in Sessions /\ ~g.start /\ g.file = "tmp" /\ g.crc = ftp.crc
        /\ f.crc = ftp.crc /\ f.mark = ftp.mark /\ g.off = SizeOf(ftp.crc)
    BY <1>5, <1>9, <1>15
  <2> DEFINE h == [g EXCEPT !.last = TRUE, !.mark = FALSE]
  <2>1. /\ h \in Sessions /\ h.mark = FALSE /\ h.file = g.file /\ h.crc = g.crc
        /\ h.off = g.off /\ h.last = TRUE /\ h.start = g.start
    BY <2>0 DEF Sessions
  <2>2. Sound(h)
    BY <1>11, <1>15, <2>0, <2>1 DEF Sound
  <2> HIDE DEF h
  <2>3. /\ Sound(ftp') /\ ftp'.mark = FALSE /\ ftp'.file = "tmp"
        /\ toApp' \in Seq(ToApp)
    BY <1>15, <2>0, <2>1, <2>2, Parts, GetDataSettles DEF h
  <2>4. marks' \in Nat
    BY <1>4, <1>15, <2>0, Parts DEF MarksLeft
  <2>5. disk' \in File /\ disk' \in Files /\ ftp' \in Sessions
    BY <1>5, <1>10, <1>15, <2>3 DEF Sound
  <2> QED BY <1>1, <1>2, <1>15, <2>3, <2>4, <2>5, Parts, Rebuild DEF Refers
<1>16. CASE /\ ftp # NoFtp /\ ftp.file # "none" /\ ~f.last /\ f.file = "tmp"
            /\ g.off < SizeOf(f.crc)
            /\ IF g.id >= g.idMax THEN GetData(g) ELSE ftp' = g /\ UNCHANGED toApp
            /\ disk' = w /\ UNCHANGED <<task, calls, marks>>
  <2>0. /\ g \in Sessions /\ ~g.start /\ g.file = "tmp" /\ g.crc = ftp.crc
        /\ ~g.last /\ g.mark = ftp.mark /\ g.off < SizeOf(ftp.crc)
    BY <1>5, <1>9, <1>16
  <2> HIDE DEF g
  <2>1. g.off \in Nat
    BY <2>0 DEF Sessions
  <2>2. SizeOf(ftp.crc) \in Nat
    BY <1>11, <1>16
  <2>3. Sound(g)
    BY <2>0, <2>1, <2>2 DEF Sound
  <2>4. /\ Sound(ftp') /\ ftp'.mark = ftp.mark /\ ftp'.file = "tmp"
        /\ toApp' \in Seq(ToApp)
    BY <1>16, <2>0, <2>3, Parts, GetDataSettles
  <2>5. disk' \in File /\ disk' \in Files /\ ftp' \in Sessions
    BY <1>5, <1>10, <1>16, <2>4 DEF Sound
  <2> QED BY <1>1, <1>2, <1>4, <1>16, <2>4, <2>5, Parts, Rebuild DEF Refers
<1>17. CASE ftp # NoFtp /\ ftp.file # "none" /\ ftp.id = m.id
            /\ ~(UNCHANGED <<ftp, disk, task, calls, marks, toApp>>)
  <2>1. f.crc = ftp.crc /\ f.off = ftp.off
    BY <1>5, <1>17
  <2>2. \/ f.last /\ f.file = "tmp" /\ Keep(CheckRecord(l), Write(disk, 0, m.block))
             /\ calls' = calls + 1 /\ UNCHANGED toApp
        \/ SendOrClose(l, disk, End("write")) /\ UNCHANGED calls
        \/ SendOrClose(f, disk, End("limit")) /\ UNCHANGED calls
        \/ SendOrClose(f, disk, End("write")) /\ UNCHANGED calls
        \/ /\ ~f.last /\ f.file = "tmp"
           /\ g.off = SizeOf(f.crc)
           /\ GetData([g EXCEPT !.last = TRUE, !.mark = FALSE])
           /\ disk' = w /\ marks' = MarksLeft(f) /\ UNCHANGED <<task, calls>>
        \/ /\ ~f.last /\ f.file = "tmp"
           /\ g.off < SizeOf(f.crc)
           /\ IF g.id >= g.idMax THEN GetData(g) ELSE ftp' = g /\ UNCHANGED toApp
           /\ disk' = w /\ UNCHANGED <<task, calls, marks>>
    BY <1>17 DEF RcvData, f, g, l, m, w
  <2> QED BY <1>12, <1>13, <1>14, <1>15, <1>16, <1>17, <2>1, <2>2
<1> QED BY <1>3, <1>17 DEF RcvData, m

\* A restart leaves no session; the files stay.
LEMMA ResetKeeps ==
  ASSUME IInv, Reset, disk' \in Files, published' \in Finals,
         UNCHANGED <<starts, losses>>
  PROVE  IInv'
<1>1. app' \in [st : {"idle", "prep", "ready", "xfer"}, c : Contents, fed : BOOLEAN]
  BY Parts DEF Reset
<1>2. task' \in Tasks /\ << >> \in Seq(FromApp) /\ << >> \in Seq(ToApp)
  BY DEF Reset, Tasks
<1> QED BY <1>1, <1>2, Parts, Rebuild DEF Reset

\* The renamed file is a sequence of blocks.
LEMMA RenamedType ==
  ASSUME ftp \in Sessions, disk \in File, published \in Finals
  PROVE  Append(published, RenamedFile) \in Finals /\ Append(published, RenamedFile) # << >>
<1>1. ftp.crc \in Contents \cup {NoFile}
  BY DEF Sessions
<1>2. SizeOf(ftp.crc) \in Nat /\ SizeOf(ftp.crc) <= LastBlock + 1 /\ LastBlock \in Nat
  BY <1>1, SizeOfType, ConstantsAssumption
<1>3. ASSUME NEW i \in 1..SizeOf(ftp.crc)
      PROVE  disk[i - 1] \in Block
  <2>1. i - 1 \in 0..LastBlock
    BY <1>2
  <2> QED BY <2>1 DEF File
<1>4. [i \in 1..SizeOf(ftp.crc) |-> disk[i - 1]] \in Seq(Block)
  BY <1>2, <1>3
<1>5. RenamedFile \in Final
  BY <1>1, <1>4 DEF RenamedFile, Final
<1> QED BY <1>5, AppendProperties DEF Finals

\* The session with its FILE replaced or shut stays sound.
LEMMA RefiledSound ==
  ASSUME Sound(ftp), NEW v \in {"none", "tmpR", "final"}, v # "none" => ~ftp.start
  PROVE  LET h == [ftp EXCEPT !.file = v, !.pos = 0]
         IN Sound(h) /\ h.mark = ftp.mark /\ h.file = v
<1> DEFINE h == [ftp EXCEPT !.file = v, !.pos = 0]
<1>1. ftp \in Sessions
  BY DEF Sound
<1>2. h \in Sessions
  BY <1>1 DEF Sessions
<1>3. /\ h.start = ftp.start /\ h.mark = ftp.mark /\ h.file = v
      /\ h.crc = ftp.crc /\ h.off = ftp.off /\ h.last = ftp.last
  BY <1>1 DEF Sessions
<1> QED BY <1>2, <1>3 DEF Sound

\* A session whose FILE was closed stays sound.
LEMMA ShutSound ==
  ASSUME NEW f, Sound(f)
  PROVE  LET h == [f EXCEPT !.file = "none"]
         IN Sound(h) /\ h.mark = f.mark /\ h.file = "none"
<1> DEFINE h == [f EXCEPT !.file = "none"]
<1>1. f \in Sessions
  BY DEF Sound
<1>2. h \in Sessions
  BY <1>1 DEF Sessions
<1>3. /\ h.start = f.start /\ h.mark = f.mark /\ h.file = "none"
      /\ h.crc = f.crc /\ h.off = f.off /\ h.last = f.last
  BY <1>1 DEF Sessions
<1> QED BY <1>2, <1>3 DEF Sound

\* Deleting a renamed file leaves the others.
LEMMA WithdrawnType ==
  ASSUME NEW f, published \in Finals, f.file = "final" => published # << >>
  PROVE  Withdrawn(f) \in Finals
<1>1. Len(published) \in Nat
  BY DEF Finals
<1>2. CASE f.file = "final"
  <2>1. Len(published) - 1 \in 0..Len(published) /\ 1 \in 1..(Len(published) + 1)
    BY <1>1, <1>2 DEF Finals
  <2>2. SubSeq(published, 1, Len(published) - 1) \in Finals
    BY <1>1, <2>1, SubSeqProperties DEF Finals
  <2> QED BY <1>2, <2>2 DEF Withdrawn
<1>3. CASE f.file # "final"
  BY <1>3 DEF Withdrawn
<1> QED BY <1>2, <1>3

\* The app's answer to RENAME, in each of its outcomes.
LEMMA RcvRenameRspKeeps ==
  ASSUME IInv, RcvRenameRsp
  PROVE  IInv'
<1> DEFINE moved == [ftp EXCEPT !.file = "final", !.pos = 0]
           kept == [ftp EXCEPT !.file = "tmpR", !.pos = 0]
           shut == [ftp EXCEPT !.file = "none"]
<1>1. Tail(net) \in Seq(FromApp) /\ UNCHANGED <<starts, losses>>
  BY Parts, HeadType DEF RcvRenameRsp
<1>2. ASSUME ftp # NoFtp
      PROVE  /\ ftp \in Sessions /\ Sound(ftp) /\ (ftp.mark => marks > 0)
             /\ (ftp.file = "final" => published # << >>)
             /\ (ftp.file # "none" => ~ftp.start)
  BY <1>2, Parts DEF Sound, Refers
<1>3. ASSUME ftp # NoFtp, ftp.file # "none", disk # Absent
      PROVE  /\ Append(published, RenamedFile) \in Finals
             /\ Append(published, RenamedFile) # << >>
             /\ Sound(moved) /\ moved.mark = ftp.mark /\ moved.file = "final"
             /\ Sound(kept) /\ kept.mark = ftp.mark /\ kept.file = "tmpR"
  BY <1>2, <1>3, Parts, RenamedType, RefiledSound DEF Files
<1>4. ASSUME ftp # NoFtp
      PROVE  Sound(shut) /\ shut.mark = ftp.mark /\ shut.file = "none"
  BY <1>2, <1>4, ShutSound
<1>5. Absent \in Files /\ End("none") \in ToApp /\ Rename \in ToApp
  BY DEF Files, End, Rename, ToApp
<1> HIDE DEF moved, kept, shut
<1>6. CASE /\ ftp # NoFtp /\ ftp.file # "none" /\ disk # Absent /\ Reset
           /\ published' = Append(published, RenamedFile) /\ disk' = Absent
  BY <1>1, <1>3, <1>5, <1>6, ResetKeeps
<1>7. CASE /\ ftp = NoFtp /\ net' = Tail(net) /\ UNCHANGED <<calls, app, up>>
           /\ UNCHANGED <<ftp, disk, published, task, marks, toApp>>
  BY <1>1, <1>7, Parts, OthersKeep
<1>8. CASE /\ net' = Tail(net) /\ UNCHANGED <<calls, app, up>>
           /\ ftp # NoFtp /\ ftp.file # "none" /\ disk # Absent
           /\ published' = Append(published, RenamedFile)
           /\ SendOrClose(moved, Absent, End("none"))
  <2>1. /\ ftp' \in Sessions \cup {NoFtp} /\ disk' \in Files
        /\ task' \in Tasks /\ marks' \in Nat /\ toApp' \in Seq(ToApp)
        /\ ftp' # NoFtp => ftp' = moved /\ marks' = marks
    BY <1>2, <1>3, <1>5, <1>8, Parts, SendSettles
  <2> QED BY <1>1, <1>2, <1>3, <1>8, <2>1, Parts, Rebuild DEF Refers
<1>9. CASE /\ net' = Tail(net) /\ UNCHANGED <<calls, app, up>>
           /\ ftp # NoFtp /\ ftp.file # "none" /\ disk # Absent
           /\ SendOrClose(kept, disk, Rename) /\ UNCHANGED published
  <2>1. /\ ftp' \in Sessions \cup {NoFtp} /\ disk' \in Files
        /\ task' \in Tasks /\ marks' \in Nat /\ toApp' \in Seq(ToApp)
        /\ ftp' # NoFtp => ftp' = kept /\ marks' = marks
    BY <1>2, <1>3, <1>5, <1>9, Parts, SendSettles
  <2> QED BY <1>1, <1>2, <1>3, <1>9, <2>1, Parts, Rebuild DEF Refers
<1>10. CASE /\ net' = Tail(net) /\ UNCHANGED <<calls, app, up>> /\ ftp # NoFtp
            /\ SendOrClose(shut, disk, Rename) /\ UNCHANGED published
  <2>1. /\ ftp' \in Sessions \cup {NoFtp} /\ disk' \in Files
        /\ task' \in Tasks /\ marks' \in Nat /\ toApp' \in Seq(ToApp)
        /\ ftp' # NoFtp => ftp' = shut /\ marks' = marks
    BY <1>2, <1>4, <1>5, <1>10, Parts, SendSettles
  <2> QED BY <1>1, <1>2, <1>4, <1>10, <2>1, Parts, Rebuild DEF Refers
<1>11. CASE /\ net' = Tail(net) /\ UNCHANGED <<calls, app, up>> /\ ftp # NoFtp
            /\ Close(shut, Deleted(ftp, disk)) /\ published' = Withdrawn(ftp)
            /\ UNCHANGED toApp
  <2>1. Deleted(ftp, disk) \in Files
    BY <1>5, Parts DEF Deleted
  <2>2. /\ ftp' \in Sessions \cup {NoFtp} /\ disk' \in Files
        /\ task' \in Tasks /\ marks' \in Nat
        /\ ftp' # NoFtp => ftp' = shut /\ marks' = marks
    BY <1>2, <1>4, <1>11, <2>1, Parts, CloseSettles
  <2>3. published' \in Finals
    BY <1>2, <1>11, Parts, WithdrawnType
  <2> QED BY <1>1, <1>2, <1>4, <1>11, <2>2, <2>3, Parts, Rebuild DEF Refers
<1> QED
  BY <1>6, <1>7, <1>8, <1>9, <1>10, <1>11 DEF RcvRenameRsp, moved, kept, shut

\* One step of the check reads blocks and counts down.
LEMMA StepSound ==
  ASSUME Sound(ftp), Refers(ftp), disk \in Files, published \in Finals,
         NEW n \in Nat, NEW k \in Nat, k <= ftp.counter
  PROVE  LET f == [ftp EXCEPT !.read = @ \o Read(ftp, n), !.pos = @ + n,
                              !.counter = @ - k]
         IN /\ Sound(f) /\ f.mark = ftp.mark /\ f.file = ftp.file /\ f.crc = ftp.crc
<1> DEFINE r == ftp.read \o Read(ftp, n)
           p == ftp.pos + n
           q == ftp.counter - k
           f == [ftp EXCEPT !.read = r, !.pos = p, !.counter = q]
<1>1. ftp \in Sessions
  BY DEF Sound
<1>2. ASSUME NEW x \in Nat
      PROVE  ReadAt(ftp, x) \in Block
  <2>1. CASE ftp.file \in {"tmp", "tmpR"} /\ disk # Absent /\ x \in 0..LastBlock
    BY <2>1 DEF ReadAt, Files, File
  <2>2. CASE /\ ~(ftp.file \in {"tmp", "tmpR"} /\ disk # Absent /\ x \in 0..LastBlock)
             /\ ftp.file = "final" /\ x < Len(published[Len(published)].blocks)
    <3>1. published # << >>
      BY <2>2 DEF Refers
    <3>2. published[Len(published)] \in Final
      <4> USE DEF Finals
      <4>1. Len(published) \in 1..Len(published)
        BY <3>1
      <4> QED BY <4>1
    <3>3. published[Len(published)].blocks \in Seq(Block)
      BY <3>2 DEF Final
    <3>4. published[Len(published)].blocks[x + 1] \in Block
      BY <2>2, <3>3
    <3> QED BY <2>2, <3>4 DEF ReadAt
  <2>3. CASE /\ ~(ftp.file \in {"tmp", "tmpR"} /\ disk # Absent /\ x \in 0..LastBlock)
             /\ ~(ftp.file = "final" /\ x < Len(published[Len(published)].blocks))
    BY <2>3 DEF ReadAt, Block
  <2> QED BY <2>1, <2>2, <2>3
<1>3. ftp.pos \in Nat /\ ftp.counter \in Nat /\ ftp.read \in Seq(Block)
  BY <1>1 DEF Sessions
<1>4. ASSUME NEW i \in 1..n
      PROVE  ReadAt(ftp, ftp.pos + i - 1) \in Block
  <2>1. ftp.pos + i - 1 \in Nat
    BY <1>3
  <2> QED BY <1>2, <2>1
<1>5. Read(ftp, n) \in Seq(Block)
  BY <1>4 DEF Read
<1>6. r \in Seq(Block) /\ p \in Nat /\ q \in Nat
  BY <1>3, <1>5
<1> HIDE DEF r, p, q
<1>7. f \in Sessions
  BY <1>1, <1>6 DEF Sessions
<1>8. /\ f.start = ftp.start /\ f.mark = ftp.mark /\ f.file = ftp.file
      /\ f.crc = ftp.crc /\ f.off = ftp.off /\ f.last = ftp.last
  BY <1>1 DEF Sessions
<1>9. Sound(f) /\ f.mark = ftp.mark /\ f.file = ftp.file /\ f.crc = ftp.crc
  BY <1>7, <1>8 DEF Sound
<1> QED BY <1>9 DEF r, p, q

\* One callback of the file check.
LEMMA CalculateKeeps ==
  ASSUME IInv, Calculate
  PROVE  IInv'
<1> DEFINE cnt == IF ftp.counter >= CheckMax THEN CheckMax ELSE ftp.counter
           n == IF cnt = ftp.counter THEN cnt + ftp.remain ELSE cnt
           f == [ftp EXCEPT !.read = @ \o Read(ftp, n), !.pos = @ + n,
                            !.counter = @ - cnt]
<1>1. UNCHANGED <<net, app, up, starts, losses>> /\ calls > 0 /\ calls - 1 \in Nat
  BY Parts DEF Calculate
<1>2. CASE ftp = NoFtp /\ calls' = calls - 1
           /\ UNCHANGED <<ftp, disk, published, task, marks, toApp>>
  BY <1>1, <1>2, Parts, OthersKeep
<1>3. ASSUME ftp # NoFtp
      PROVE  /\ ftp \in Sessions /\ Sound(ftp) /\ (ftp.mark => marks > 0)
             /\ (ftp.file = "final" => published # << >>)
             /\ (ftp.file = "tmp" => disk \in File)
  BY <1>3, Parts DEF Sound, Refers
<1>4. ASSUME ftp # NoFtp
      PROVE  cnt \in Nat /\ n \in Nat /\ cnt <= ftp.counter
  <2>1. ftp.counter \in Nat /\ ftp.remain \in {0, 1} /\ CheckMax \in Nat
    BY <1>3, <1>4, ConstantsAssumption DEF Sessions
  <2> QED BY <2>1
<1> HIDE DEF cnt, n
<1>5. ASSUME ftp # NoFtp
      PROVE  Sound(f) /\ f.mark = ftp.mark /\ f.file = ftp.file
  BY <1>3, <1>4, <1>5, Parts, StepSound
<1> HIDE DEF f
<1>6. CASE ftp # NoFtp /\ Keep(f, disk) /\ UNCHANGED <<published, calls, toApp>>
  <2>1. ftp' = f /\ f \in Sessions /\ UNCHANGED <<disk, task, marks>>
    BY <1>5, <1>6 DEF Keep, Sound
  <2> QED BY <1>1, <1>3, <1>5, <1>6, <2>1, Parts, Rebuild DEF Refers
<1>7. CASE /\ ftp # NoFtp /\ calls' = calls - 1
           /\ SendOrClose([f EXCEPT !.pos = SizeOf(f.crc)], disk, Rename)
           /\ UNCHANGED published
  <2> DEFINE h == [f EXCEPT !.pos = SizeOf(f.crc)]
  <2>1. f \in Sessions /\ SizeOf(f.crc) \in Nat
    BY <1>5, <1>7, SizeOfType DEF Sound, Sessions
  <2>2. h \in Sessions
    BY <2>1 DEF Sessions
  <2>3. /\ h.start = f.start /\ h.mark = f.mark /\ h.file = f.file
        /\ h.crc = f.crc /\ h.off = f.off /\ h.last = f.last
    BY <2>1 DEF Sessions
  <2>4. Sound(h)
    BY <1>5, <1>7, <2>2, <2>3 DEF Sound
  <2> HIDE DEF h
  <2>5. Rename \in ToApp
    BY DEF Rename, ToApp
  <2>6. /\ ftp' \in Sessions \cup {NoFtp} /\ disk' \in Files
        /\ task' \in Tasks /\ marks' \in Nat /\ toApp' \in Seq(ToApp)
        /\ ftp' # NoFtp => ftp' = h /\ marks' = marks /\ disk' = disk
    BY <1>3, <1>5, <1>7, <2>3, <2>4, <2>5, Parts, SendSettles DEF h
  <2> QED BY <1>1, <1>3, <1>5, <1>7, <2>3, <2>4, <2>6, Parts, Rebuild DEF Refers
<1>8. CASE /\ ftp # NoFtp /\ calls' = calls - 1
           /\ SendOrClose([f EXCEPT !.file = "none"], Deleted(f, disk), End("crc"))
           /\ published' = Withdrawn(f)
  <2> DEFINE h == [f EXCEPT !.file = "none"]
  <2>1. Sound(h) /\ h.mark = ftp.mark /\ h.file = "none"
    BY <1>5, <1>8, ShutSound
  <2> HIDE DEF h
  <2>2. End("crc") \in ToApp /\ Deleted(f, disk) \in Files
    BY Parts DEF End, ToApp, Deleted, Files
  <2>3. published' \in Finals
    BY <1>3, <1>5, <1>8, Parts, WithdrawnType
  <2>4. /\ ftp' \in Sessions \cup {NoFtp} /\ disk' \in Files
        /\ task' \in Tasks /\ marks' \in Nat /\ toApp' \in Seq(ToApp)
        /\ ftp' # NoFtp => ftp' = h /\ marks' = marks
    BY <1>3, <1>8, <2>1, <2>2, Parts, SendSettles DEF h
  <2> QED BY <1>1, <1>3, <1>8, <2>1, <2>3, <2>4, Parts, Rebuild DEF Refers
<1> QED BY <1>2, <1>6, <1>7, <1>8 DEF Calculate, f, n, cnt

\* The app and the link only move messages, counters and their own state.
LEMMA AppKeeps ==
  ASSUME IInv, AppPrepare \/ AppCancel \/ \E c \in Contents : AppStart(c)
  PROVE  IInv'
<1>1. CASE AppPrepare
  <2>1. [op |-> "prepare"] \in FromApp
    BY DEF FromApp
  <2>2. starts' \in 0..MaxStarts
    BY <1>1, Parts, ConstantsAssumption DEF AppPrepare
  <2>3. net' \in Seq(FromApp)
    BY <1>1, <2>1, Parts DEF AppPrepare
  <2> QED BY <1>1, <2>2, <2>3, Parts, OthersKeep DEF AppPrepare, device
<1>2. CASE AppCancel
  <2>1. [op |-> "cancel"] \in FromApp
    BY DEF FromApp
  <2> QED BY <1>2, <2>1, Parts, OthersKeep DEF AppCancel, device
<1>3. ASSUME NEW c \in Contents, AppStart(c)
      PROVE  IInv'
  <2>1. [op |-> "start", c |-> c] \in FromApp
    BY DEF FromApp
  <2> QED BY <1>3, <2>1, Parts, OthersKeep DEF AppStart, device
<1> QED BY <1>1, <1>2, <1>3

\* The app answers what it is asked.
LEMMA AppServeKeeps ==
  ASSUME IInv, AppServe
  PROVE  IInv'
<1> DEFINE m == Head(toApp)
<1>1. toApp' \in Seq(ToApp) /\ m \in ToApp /\ UNCHANGED <<device, up, starts, losses>>
  BY Parts DEF AppServe
<1>2. app.c \in Contents /\ Size[app.c] \in Nat
  BY Parts, ConstantsAssumption
<1>3. CASE /\ m.op = "pull" /\ m.off < Size[app.c]
           /\ net' = net \o Packets(app.c, m.off, m.n)
           /\ app' = [app EXCEPT !.fed = @ \/ m.off = 0]
  <2>1. m.off \in Nat /\ m.n \in Nat
    BY <1>1, <1>3 DEF ToApp
  <2> DEFINE k == IF m.off + m.n > Size[app.c] THEN Size[app.c] - m.off ELSE m.n
  <2>2. k \in Nat
    BY <1>2, <1>3, <2>1
  <2> HIDE DEF k
  <2>3. ASSUME NEW i \in 1..k
        PROVE  [op |-> "data", id |-> i - 1, block |-> <<app.c, m.off + i - 1>>] \in FromApp
    <3>1. i - 1 \in Nat /\ m.off + i - 1 \in Nat
      BY <2>1, <2>2
    <3>2. <<app.c, m.off + i - 1>> \in Block
      BY <1>2, <3>1 DEF Block
    <3> QED BY <3>1, <3>2 DEF FromApp
  <2>4. [i \in 1..k |-> [op |-> "data", id |-> i - 1,
                         block |-> <<app.c, m.off + i - 1>>]] \in Seq(FromApp)
    BY <2>2, <2>3
  <2>5. Packets(app.c, m.off, m.n) \in Seq(FromApp)
    BY <2>4 DEF Packets, k
  <2>6. net' \in Seq(FromApp)
    BY <1>3, <2>5, Parts
  <2>7. app' \in [st : {"idle", "prep", "ready", "xfer"}, c : Contents, fed : BOOLEAN]
    BY <1>3, Parts
  <2> QED BY <1>1, <2>6, <2>7, Parts, OthersKeep DEF device
<1>4. CASE UNCHANGED <<net, app>>
  BY <1>1, <1>4, Parts, OthersKeep DEF device
<1>5. CASE \E v \in BOOLEAN : net' = Append(net, [op |-> "renameRsp", ok |-> v])
           /\ UNCHANGED app
  <2>1. \A v \in BOOLEAN : [op |-> "renameRsp", ok |-> v] \in FromApp
    BY DEF FromApp
  <2>2. net' \in Seq(FromApp)
    BY <1>5, <2>1, Parts
  <2> QED BY <1>1, <1>5, <2>2, Parts, OthersKeep DEF device
<1>6. CASE net' = Append(net, [op |-> "endRsp"]) /\ app' = [app EXCEPT !.st = "idle"]
  <2>1. [op |-> "endRsp"] \in FromApp
    BY DEF FromApp
  <2>2. net' \in Seq(FromApp)
    BY <1>6, <2>1, Parts
  <2>3. app' \in [st : {"idle", "prep", "ready", "xfer"}, c : Contents, fed : BOOLEAN]
    BY <1>6, Parts
  <2> QED BY <1>1, <2>2, <2>3, Parts, OthersKeep DEF device
<1>7. (app.st = "xfer" /\ app.fed) \in BOOLEAN
  OBVIOUS
<1> QED BY <1>3, <1>4, <1>5, <1>6, <1>7 DEF AppServe

\* Loss, link, keys and power.
LEMMA EnvironmentKeeps ==
  ASSUME IInv, Environment
  PROVE  IInv'
<1>1. CASE LoseData
  BY <1>1, Parts, HeadType, OthersKeep, ConstantsAssumption DEF LoseData, Arrives, device
<1>2. CASE LinkDown
  <2> PICK k \in 0..Len(net) : net' = Append(SubSeq(net, 1, k), [op |-> "disconnect"])
    BY <1>2 DEF LinkDown
  <2>1. Len(net) \in Nat /\ net \in Seq(FromApp)
    BY Parts
  <2>2. \A i \in 1..k : net[i] \in FromApp
    BY <2>1
  <2>3. SubSeq(net, 1, k) \in Seq(FromApp)
    BY <2>1, <2>2, SubSeqProperties
  <2>4. [op |-> "disconnect"] \in FromApp /\ << >> \in Seq(ToApp)
    BY DEF FromApp
  <2>5. net' \in Seq(FromApp)
    BY <2>3, <2>4
  <2>6. app' \in [st : {"idle", "prep", "ready", "xfer"}, c : Contents, fed : BOOLEAN]
    BY <1>2, Parts DEF LinkDown
  <2>7. /\ UNCHANGED <<ftp, disk, published, task, calls, marks, starts, losses>>
        /\ up' \in BOOLEAN /\ toApp' \in Seq(ToApp)
    BY <1>2, <2>4 DEF LinkDown, device
  <2> QED BY <2>5, <2>6, <2>7, Parts, OthersKeep
<1>3. CASE LinkUp
  BY <1>3, Parts, OthersKeep DEF LinkUp, device
<1>4. CASE ModeKey
  BY <1>4, Parts, OthersKeep DEF ModeKey, Tasks
<1>5. CASE PowerLoss
  BY <1>5, Parts, ResetKeeps DEF PowerLoss
<1> QED BY <1>1, <1>2, <1>3, <1>4, <1>5 DEF Environment
-----------------------------------------------------------------------------
(* The invariant and what follows from it.                                  *)

\* The initial state has the invariant.
LEMMA InitInv == Init => IInv
<1> SUFFICES ASSUME Init PROVE IInv
  OBVIOUS
<1>1. << >> \in Seq(FromApp) /\ << >> \in Seq(ToApp) /\ << >> \in Finals
  BY DEF Finals
<1>2. 0 \in 0..MaxStarts /\ 0 \in 0..MaxLoss
  BY ConstantsAssumption
<1> QED BY <1>1, <1>2 DEF Init, IInv, TypeOK, Finals, Final

\* Every step keeps the invariant.
LEMMA StepInv == IInv /\ [Next]_vars => IInv'
<1> SUFFICES ASSUME IInv, [Next]_vars PROVE IInv'
  OBVIOUS
<1>1. CASE UNCHANGED vars
  BY <1>1, Parts, OthersKeep DEF vars
<1>2. CASE Receive
  BY <1>2, RcvPrepareKeeps, RcvStartKeeps, RcvDataKeeps, RcvStopKeeps,
     RcvRenameRspKeeps DEF Receive
<1>3. CASE TaskStart
  BY <1>3, TaskStartKeeps
<1>4. CASE Timers
  BY <1>4, StartTimeoutKeeps, GetTimeoutKeeps, MarkScanKeeps DEF Timers
<1>5. CASE Calculate
  BY <1>5, CalculateKeeps
<1>6. CASE App
  BY <1>6, AppKeeps, AppServeKeeps DEF App
<1>7. CASE Environment
  BY <1>7, EnvironmentKeeps
<1> QED BY <1>1, <1>2, <1>3, <1>4, <1>5, <1>6, <1>7 DEF Next

\* The inductive invariant holds throughout (file_transfer.c, all handlers).
THEOREM Invariance == Spec => []IInv
BY InitInv, StepInv, PTL DEF Spec

\* Every variable keeps its type, whatever fails and however messages are
\* ordered: in particular no count of timers or callbacks goes below zero.
THEOREM TypeCorrect == Spec => []TypeOK
<1>1. IInv => TypeOK
  BY DEF IInv
<1> QED BY <1>1, Invariance, PTL

\* No start timer is left pending once a START opened a file, so it can never
\* close a transfer that has begun (file_transfer_download_start).
THEOREM StartTimerSafe == Spec => []StartTimerIdle
<1>1. IInv => StartTimerIdle
  BY DEF IInv, Sound, StartTimerIdle
<1> QED BY <1>1, Invariance, PTL

\* For every content, window and order of packets the offset stays inside the
\* announced file, and block 0 is only waited for when all others are in
\* (file_transfer_download_doing, file_transfer_download_start).
THEOREM OffsetSafe == Spec => []OffsetWithinFile
<1>1. IInv => OffsetWithinFile
  BY DEF IInv, Sound, OffsetWithinFile
<1> QED BY <1>1, Invariance, PTL
=============================================================================

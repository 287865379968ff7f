--------------------------- MODULE FileTransferLine ---------------------------
(***************************************************************************)
(* What passes between the app and the device in FileTransfer, proved for   *)
(* an app that lets one transfer come to rest before it prepares the next   *)
(* (no "restart" among the faults): a START only ever meets a session that  *)
(* has received nothing, and only one mark timer is armed.                  *)
(***************************************************************************)
EXTENDS FileTransferProofs

\* The kinds of the messages in q.
Ops(q) == {q[i].op : i \in 1..Len(q)}

\* There is no session, or one that has received nothing.
Calm == ftp = NoFtp \/ ftp.crc = NoFile
\* A transfer is prepared, and its START not handled yet.
Starting == app.st \in {"prep", "ready"} \/ "start" \in Ops(net)
\* What may follow a START before it is handled.
Closers == {"cancel", "disconnect"}

\* Before a START there are only prepares, after it only what ends it.
Line(q) == \A i, j \in 1..Len(q) : i < j =>
  /\ q[j].op = "start" => q[i].op = "prepare"
  /\ q[i].op = "start" => q[j].op \in Closers

\* A START is of the content the app sends, unless its end is on the way.
Announced(q) == \A i \in 1..Len(q) : q[i].op = "start" =>
  \/ app.st = "xfer" /\ q[i].c = app.c
  \/ app.st = "idle" /\ \E j \in 1..Len(q) : q[j].op \in Closers

StartInv ==
  /\ Starting => Calm /\ toApp = << >> /\ calls = 0
  /\ app.st \in {"prep", "ready"} => Ops(net) \subseteq {"prepare"}
  /\ Line(net) /\ Announced(net)

\* A session that has received nothing, and one that is being checked.
FreshInv == ftp # NoFtp =>
  /\ ftp.crc = NoFile => ftp.file = "none" /\ ~ftp.mark /\ ftp.counter = 0
  /\ ftp.counter > 0 => calls > 0

\* A session that has received a START has something to wait for.
Ending == {"cancel", "disconnect", "endRsp", "renameRsp"}
Asking == {"rename", "end"}
LiveInv == \/ Calm \/ app.st = "xfer" \/ calls > 0
           \/ Ops(net) \cap Ending # {} \/ Ops(toApp) \cap Asking # {}

LineInv == IInv /\ StartInv /\ FreshInv /\ LiveInv /\ MarkTimerOwned
-----------------------------------------------------------------------------
(* Field by field, what the handlers do to the session and the disk.        *)

\* A session that differs from f in its position, window and timeouts at most.
Same(f, g) ==
  /\ g \in Sessions
  /\ g.crc = f.crc /\ g.file = f.file /\ g.mark = f.mark /\ g.counter = f.counter
  /\ g.off = f.off /\ g.last = f.last /\ g.read = f.read

\* Nothing more is asked for, or one window or block.
Asks(f) == toApp' = toApp \/ (f.file # "none" /\ \E w \in Windows : toApp' = Append(toApp, Request(f, w)))

LEMMA GetDataEffect ==
  ASSUME NEW f \in Sessions, GetData(f)
  PROVE  Same(f, ftp') /\ ftp'.pos = f.pos /\ Asks(f)
<1>1. CASE ftp' = f /\ UNCHANGED toApp
  BY <1>1 DEF Same, Asks
<1>2. CASE \E w \in Windows :
             LET g == [f EXCEPT !.id = 0, !.idMax = w]
             IN \/ /\ up
                   /\ toApp' = Append(toApp, Request(f, w))
                   /\ ftp' = [g EXCEPT !.get = IF @ = "none" THEN "armed" ELSE @]
                \/ SendFails /\ ftp' = g /\ UNCHANGED toApp
  <2> SUFFICES ASSUME f.file # "none" PROVE Same(f, ftp') /\ ftp'.pos = f.pos /\ Asks(f)
    BY <1>1 DEF GetData
  <2>1. PICK w \in Windows :
             LET g == [f EXCEPT !.id = 0, !.idMax = w]
             IN \/ /\ up
                   /\ toApp' = Append(toApp, Request(f, w))
                   /\ ftp' = [g EXCEPT !.get = IF @ = "none" THEN "armed" ELSE @]
                \/ SendFails /\ ftp' = g /\ UNCHANGED toApp
    BY <1>2
  <2> DEFINE g == [f EXCEPT !.id = 0, !.idMax = w]
  <2>2. w \in Nat
    BY ConstantsAssumption
  <2>3. Same(f, g) /\ g.pos = f.pos /\ g.get \in {"none", "armed", "fired"}
    BY <2>2 DEF Same, Sessions
  <2>4. \A v \in {"none", "armed", "fired"} : Same(f, [g EXCEPT !.get = v]) /\ [g EXCEPT !.get = v].pos = f.pos
    BY <2>3 DEF Same, Sessions
  <2>5. CASE ftp' = g /\ UNCHANGED toApp
    BY <2>3, <2>5 DEF Asks
  <2>6. CASE /\ toApp' = Append(toApp, Request(f, w))
             /\ ftp' = [g EXCEPT !.get = IF @ = "none" THEN "armed" ELSE @]
    <3> DEFINE v == IF g.get = "none" THEN "armed" ELSE g.get
    <3>1. v \in {"none", "armed", "fired"} /\ ftp' = [g EXCEPT !.get = v]
      BY <2>3, <2>6
    <3> HIDE DEF g, v
    <3> QED BY <2>4, <2>6, <3>1 DEF Asks
  <2> QED BY <2>1, <2>5, <2>6
<1> QED BY <1>1, <1>2 DEF GetData

\* A data packet: dropped, refused, taken for block 0, or appended.
DataRefused(h) ==
  /\ Same(ftp, h) /\ h.id = ftp.id + 1
  /\ ftp.last => h.pos = 0 /\ h.get = "none"
  /\ ~ftp.last => h.pos = ftp.pos /\ h.get = ftp.get
  /\ \E why \in {"write", "limit"} : SendOrClose(h, disk, End(why))
  /\ UNCHANGED calls
DataZeroth ==
  /\ ftp.last /\ ftp.file = "tmp"
  /\ ftp' \in Sessions /\ ftp'.crc = ftp.crc /\ ftp'.file = "tmp" /\ ftp'.mark = ftp.mark
  /\ ftp'.last /\ ftp'.off = SizeOf(ftp.crc) /\ ftp'.read = << >> /\ ftp'.pos = 0
  /\ ftp'.id = ftp.id + 1 /\ ftp'.get = "none"
  /\ disk' = Write(disk, 0, Head(net).block)
  /\ calls' = calls + 1 /\ UNCHANGED <<marks, toApp>>
DataAppended ==
  /\ ~ftp.last /\ ftp.file = "tmp" /\ ftp.off < SizeOf(ftp.crc)
  /\ ftp' \in Sessions /\ ftp'.crc = ftp.crc /\ ftp'.file = "tmp" /\ ftp'.counter = ftp.counter
  /\ ftp'.read = ftp.read /\ ftp'.off = ftp.off + 1 /\ ftp'.pos = ftp.pos + 1
  /\ \/ ftp'.last /\ ~ftp'.mark /\ marks' = MarksLeft(ftp)
     \/ ~ftp'.last /\ ftp'.mark = ftp.mark /\ marks' = marks
  /\ disk' = Write(disk, ftp.pos, Head(net).block)
  /\ UNCHANGED calls /\ Asks(ftp')

LEMMA RcvDataEffect ==
  ASSUME IInv, RcvData
  PROVE  /\ net # << >> /\ Head(net).op = "data" /\ net' = Tail(net)
         /\ UNCHANGED <<published, app, up, starts, losses>>
         /\ \/ UNCHANGED <<ftp, disk, calls, marks, toApp>>
            \/ /\ ftp # NoFtp /\ ftp.file # "none" /\ ftp.id = Head(net).id
               /\ (\E h : DataRefused(h)) \/ DataZeroth \/ DataAppended
<1> DEFINE m == Head(net)
           f == [ftp EXCEPT !.id = @ + 1]
           w == Write(disk, f.pos, m.block)
           g == [f EXCEPT !.off = @ + 1, !.pos = @ + 1]
           l == [f EXCEPT !.get = "none", !.pos = 0]
<1>1. /\ net # << >> /\ m.op = "data" /\ net' = Tail(net)
      /\ UNCHANGED <<published, app, up, starts, losses>>
  BY DEF RcvData, Arrives
<1>2. SUFFICES ASSUME ~UNCHANGED <<ftp, disk, calls, marks, toApp>>, 
                      ftp # NoFtp, ftp.file # "none", ftp.id = m.id
               PROVE  (\E h : DataRefused(h)) \/ DataZeroth \/ DataAppended
  BY <1>1 DEF RcvData
<1>3. ftp \in Sessions /\ ftp.off \in Nat /\ ftp.pos \in Nat /\ ftp.id \in Nat
  BY <1>2, Parts DEF Sound, Sessions
<1>4. Same(ftp, f) /\ f.id = ftp.id + 1 /\ f.pos = ftp.pos /\ f.get = ftp.get
  <2>1. f \in Sessions
    BY <1>3 DEF Sessions
  <2>2. /\ f.crc = ftp.crc /\ f.file = ftp.file /\ f.mark = ftp.mark /\ f.counter = ftp.counter
        /\ f.off = ftp.off /\ f.last = ftp.last /\ f.read = ftp.read
    BY <1>3 DEF Sessions
  <2>3. f.id = ftp.id + 1 /\ f.pos = ftp.pos /\ f.get = ftp.get
    BY <1>3 DEF Sessions
  <2> QED BY <2>1, <2>2, <2>3 DEF Same
<1> HIDE DEF f
<1>5. Same(ftp, l) /\ l.id = ftp.id + 1 /\ l.pos = 0 /\ l.get = "none"
  <2>1. f \in Sessions
    BY <1>4 DEF Same
  <2>2. Same(f, l) /\ l.id = f.id /\ l.pos = 0 /\ l.get = "none"
    BY <2>1 DEF Same, Sessions
  <2> QED BY <1>4, <2>2 DEF Same
<1>6. /\ g \in Sessions /\ g.crc = ftp.crc /\ g.file = ftp.file /\ g.mark = ftp.mark
      /\ g.counter = ftp.counter /\ g.read = ftp.read /\ g.last = ftp.last
      /\ g.off = ftp.off + 1 /\ g.pos = ftp.pos + 1 /\ f.off = ftp.off
  <2>1. f \in Sessions /\ f.off \in Nat /\ f.pos \in Nat
    BY <1>4 DEF Same, Sessions
  <2>2. /\ g \in Sessions /\ g.crc = f.crc /\ g.file = f.file /\ g.mark = f.mark
        /\ g.counter = f.counter /\ g.read = f.read /\ g.last = f.last
        /\ g.off = f.off + 1 /\ g.pos = f.pos + 1
    <3> DEFINE o == f.off + 1
               p == f.pos + 1
    <3>1. o \in Nat /\ p \in Nat /\ g = [f EXCEPT !.off = o, !.pos = p]
      BY <2>1
    <3> HIDE DEF o, p, g
    <3>2. g \in Sessions /\ g.off = o /\ g.pos = p
      BY <2>1, <3>1 DEF Sessions
    <3>3. /\ g.crc = f.crc /\ g.file = f.file /\ g.mark = f.mark
          /\ g.counter = f.counter /\ g.read = f.read /\ g.last = f.last
      BY <2>1, <3>1 DEF Sessions
    <3> QED BY <3>2, <3>3 DEF o, p
  <2> QED BY <1>4, <2>2 DEF Same
<1>7. f.last = ftp.last /\ f.file = ftp.file /\ f.off = ftp.off /\ f.crc = ftp.crc /\ f.mark = ftp.mark
  BY <1>4 DEF Same
<1> HIDE DEF g, l
<1>8. ASSUME f.last, f.file = "tmp", Keep(CheckRecord(l), Write(disk, 0, m.block)), calls' = calls + 1,
             UNCHANGED toApp
      PROVE  DataZeroth
  <2> DEFINE k == CheckRecord(l)
  <2>1. Sound(ftp)
    BY <1>2, Parts
  <2>2. Sound(l) /\ ~l.start
    <3>1. l.start = ftp.start
      BY <1>3 DEF l, f, Sessions
    <3> QED BY <2>1, <1>2, <1>5, <3>1 DEF Sound, Same
  <2>3. k \in Sessions
    BY <2>2, CheckRecordSound DEF Sound
  <2>4. l \in Sessions
    BY <1>5 DEF Same
  <2>5. /\ k.crc = l.crc /\ k.file = l.file /\ k.mark = l.mark /\ k.last = l.last
        /\ k.off = SizeOf(l.crc) /\ k.read = << >> /\ k.pos = 0 /\ k.id = l.id /\ k.get = l.get
    BY <2>4 DEF CheckRecord, Sessions
  <2>6. ftp' = k /\ disk' = Write(disk, 0, m.block) /\ marks' = marks
    BY <1>8 DEF Keep
  <2> HIDE DEF k
  <2> QED BY <1>5, <1>7, <1>8, <2>3, <2>5, <2>6 DEF DataZeroth, Same
<1>9. ASSUME NEW why \in {"write", "limit"}, UNCHANGED calls,
             \/ f.last /\ SendOrClose(l, disk, End(why))
             \/ ~f.last /\ SendOrClose(f, disk, End(why))
      PROVE  \E h : DataRefused(h)
  <2>1. CASE f.last /\ SendOrClose(l, disk, End(why))
    <3>1. DataRefused(l)
      BY <1>5, <1>7, <1>9, <2>1 DEF DataRefused
    <3> QED BY <3>1
  <2>2. CASE ~f.last /\ SendOrClose(f, disk, End(why))
    <3>1. DataRefused(f)
      BY <1>4, <1>7, <1>9, <2>2 DEF DataRefused
    <3> QED BY <3>1
  <2> QED BY <1>9, <2>1, <2>2
<1>10. ASSUME ~f.last, f.file = "tmp", f.off < SizeOf(f.crc), 
              GetData([g EXCEPT !.last = TRUE, !.mark = FALSE]), disk' = w,
              marks' = MarksLeft(f), UNCHANGED calls
       PROVE  DataAppended
  <2> DEFINE k == [g EXCEPT !.last = TRUE, !.mark = FALSE]
  <2>1. /\ k \in Sessions /\ k.crc = g.crc /\ k.file = g.file /\ k.mark = FALSE /\ k.last = TRUE
        /\ k.counter = g.counter /\ k.read = g.read /\ k.off = g.off /\ k.pos = g.pos
    BY <1>6 DEF Sessions
  <2> HIDE DEF k
  <2>2. Same(k, ftp') /\ ftp'.pos = k.pos /\ Asks(k)
    BY <1>10, <2>1, GetDataEffect DEF k
  <2>3. Asks(ftp')
    BY <2>2 DEF Same, Asks, Request
  <2>4. disk' = Write(disk, ftp.pos, m.block) /\ marks' = MarksLeft(ftp)
    BY <1>4, <1>7, <1>10 DEF MarksLeft
  <2> QED BY <1>6, <1>7, <1>10, <2>1, <2>2, <2>3, <2>4 DEF DataAppended, Same
<1>11. ASSUME ~f.last, f.file = "tmp", g.off < SizeOf(f.crc), 
              IF g.id >= g.idMax THEN GetData(g) ELSE ftp' = g /\ UNCHANGED toApp,
              disk' = w, UNCHANGED <<calls, marks>>
       PROVE  DataAppended
  <2>1. Same(g, ftp') /\ ftp'.pos = g.pos /\ Asks(g)
    <3>1. CASE g.id >= g.idMax
      BY <1>6, <1>11, <3>1, GetDataEffect
    <3>2. CASE ~(g.id >= g.idMax)
      BY <1>6, <1>11, <3>2 DEF Same, Asks
    <3> QED BY <3>1, <3>2
  <2>2. Asks(ftp')
    BY <2>1 DEF Same, Asks, Request
  <2>3. disk' = Write(disk, ftp.pos, m.block)
    BY <1>4, <1>11
  <2>4. SizeOf(ftp.crc) \in Nat /\ ftp.off < SizeOf(ftp.crc)
    BY <1>3, <1>6, <1>7, <1>11, SizeOfType DEF Sessions
  <2> QED BY <1>6, <1>7, <1>11, <2>1, <2>2, <2>3, <2>4 DEF DataAppended, Same
<1>12. \/ f.last /\ f.file = "tmp" /\ Keep(CheckRecord(l), Write(disk, 0, m.block))
            /\ calls' = calls + 1 /\ UNCHANGED toApp
       \/ f.last /\ SendOrClose(l, disk, End("write")) /\ UNCHANGED calls
       \/ ~f.last /\ SendOrClose(f, disk, End("limit")) /\ UNCHANGED calls
       \/ ~f.last /\ SendOrClose(f, disk, End("write")) /\ UNCHANGED calls
       \/ /\ ~f.last /\ f.file = "tmp" /\ f.off < SizeOf(f.crc)
          /\ GetData([g EXCEPT !.last = TRUE, !.mark = FALSE])
          /\ disk' = w /\ marks' = MarksLeft(f) /\ UNCHANGED calls
       \/ /\ ~f.last /\ f.file = "tmp" /\ g.off < SizeOf(f.crc)
          /\ IF g.id >= g.idMax THEN GetData(g) ELSE ftp' = g /\ UNCHANGED toApp
          /\ disk' = w /\ UNCHANGED <<calls, marks>>
  <2>1. g.off = SizeOf(f.crc) => f.off < SizeOf(f.crc)
    BY <1>3, <1>6, <1>7
  <2> QED BY <1>2, <2>1 DEF RcvData, f, g, l
<1> QED BY <1>8, <1>9, <1>10, <1>11, <1>12
-----------------------------------------------------------------------------
(* Sequences of messages.                                                   *)

LEMMA OpsAppend ==
  ASSUME NEW S, NEW q \in Seq(S), NEW m
  PROVE  Ops(Append(q, m)) = Ops(q) \cup {m.op}
<1> DEFINE r == Append(q, m)
<1>1. Len(r) = Len(q) + 1 /\ r[Len(q) + 1] = m /\ \A i \in 1..Len(q) : r[i] = q[i]
  OBVIOUS
<1>2. 1..Len(r) = (1..Len(q)) \cup {Len(q) + 1}
  BY <1>1
<1> HIDE DEF r
<1> QED BY <1>1, <1>2 DEF Ops, r

LEMMA OpsTail ==
  ASSUME NEW S, NEW q \in Seq(S), q # << >>
  PROVE  Ops(q) = Ops(Tail(q)) \cup {Head(q).op}
<1> DEFINE r == Tail(q)
<1>1. /\ Len(q) \in Nat /\ Len(q) >= 1 /\ Len(r) = Len(q) - 1
      /\ \A i \in 1..Len(r) : r[i] = q[i + 1]
  OBVIOUS
<1>2. Head(q) = q[1]
  OBVIOUS
<1> HIDE DEF r
<1>3. \A i \in 1..Len(q) : i # 1 => i - 1 \in 1..Len(r) /\ q[i] = r[i - 1]
  BY <1>1
<1>4. 1 \in 1..Len(q) /\ \A i \in 1..Len(r) : i + 1 \in 1..Len(q)
  BY <1>1
<1>5. \A x \in Ops(q) : x \in Ops(r) \cup {Head(q).op}
  BY <1>2, <1>3 DEF Ops
<1>6. \A x \in Ops(r) : x \in Ops(q)
  BY <1>1, <1>4 DEF Ops
<1>7. Head(q).op \in Ops(q)
  BY <1>2, <1>4 DEF Ops
<1> QED BY <1>5, <1>6, <1>7 DEF r

LEMMA OpsConcat ==
  ASSUME NEW S, NEW q \in Seq(S), NEW r \in Seq(S)
  PROVE  Ops(q \o r) = Ops(q) \cup Ops(r)
<1> DEFINE s == q \o r
<1>1. /\ Len(q) \in Nat /\ Len(r) \in Nat /\ Len(s) = Len(q) + Len(r)
      /\ \A i \in 1..Len(s) : s[i] = IF i <= Len(q) THEN q[i] ELSE r[i - Len(q)]
  OBVIOUS
<1> HIDE DEF s
<1>2. \A x \in Ops(s) : x \in Ops(q) \cup Ops(r)
  <2> TAKE x \in Ops(s)
  <2>1. PICK i \in 1..Len(s) : x = s[i].op
    BY DEF Ops
  <2>2. CASE i <= Len(q)
    <3>1. i \in 1..Len(q) /\ s[i] = q[i]
      BY <1>1, <2>2
    <3> QED BY <2>1, <3>1 DEF Ops
  <2>3. CASE ~(i <= Len(q))
    <3>1. i - Len(q) \in 1..Len(r) /\ s[i] = r[i - Len(q)]
      BY <1>1, <2>3
    <3> QED BY <2>1, <3>1 DEF Ops
  <2> QED BY <2>2, <2>3
<1>3. \A i \in 1..Len(q) : i \in 1..Len(s) /\ s[i] = q[i]
  BY <1>1
<1>4. \A i \in 1..Len(r) : i + Len(q) \in 1..Len(s) /\ s[i + Len(q)] = r[i]
  BY <1>1
<1>5. \A x \in Ops(q) : x \in Ops(s)
  BY <1>3 DEF Ops
<1>6. \A x \in Ops(r) : x \in Ops(s)
  BY <1>4 DEF Ops
<1> QED BY <1>2, <1>5, <1>6 DEF s

LEMMA OpsNone == Ops(<< >>) = {}
BY DEF Ops

\* A message is gone from the front: the order of the others stays.
LEMMA LineTail ==
  ASSUME NEW S, NEW q \in Seq(S), q # << >>, Line(q)
  PROVE  /\ Line(Tail(q))
         /\ "start" \in Ops(Tail(q)) => Head(q).op = "prepare"
         /\ Head(q).op = "start" => Ops(Tail(q)) \subseteq Closers
<1> DEFINE r == Tail(q)
<1>1. /\ Len(q) \in Nat /\ Len(q) >= 1 /\ Len(r) = Len(q) - 1
      /\ \A i \in 1..Len(r) : r[i] = q[i + 1]
  OBVIOUS
<1>2. Head(q) = q[1]
  OBVIOUS
<1> HIDE DEF r
<1>3. \A i \in 1..Len(r) : i + 1 \in 1..Len(q) /\ 1 < i + 1
  BY <1>1
<1>4. 1 \in 1..Len(q)
  BY <1>1
<1>5. \A i, j \in 1..Len(r) : i < j => i + 1 < j + 1
  BY <1>1
<1>6. Line(r)
  BY <1>1, <1>3, <1>5 DEF Line
<1>7. \A j \in 1..Len(r) : /\ r[j].op = "start" => q[1].op = "prepare"
                           /\ q[1].op = "start" => r[j].op \in Closers
  BY <1>1, <1>3, <1>4 DEF Line
<1> QED BY <1>2, <1>6, <1>7 DEF Ops, r

\* A message that is no START joins a line without one, or one that ends it.
LEMMA LineAppend ==
  ASSUME NEW S, NEW q \in Seq(S), NEW m, Line(q),
         m.op = "start" => Ops(q) \subseteq {"prepare"},
         "start" \in Ops(q) => m.op \in Closers
  PROVE  Line(Append(q, m))
<1> DEFINE r == Append(q, m)
           n == Len(q) + 1
<1>1. /\ Len(q) \in Nat /\ Len(r) = n /\ r[n] = m
      /\ \A i \in 1..Len(q) : r[i] = q[i]
  OBVIOUS
<1>2. SUFFICES ASSUME NEW i \in 1..n, NEW j \in 1..n, i < j
               PROVE  /\ r[j].op = "start" => r[i].op = "prepare"
                      /\ r[i].op = "start" => r[j].op \in Closers
  BY <1>1 DEF Line
<1>3. i \in 1..Len(q) /\ r[i] = q[i] /\ q[i].op \in Ops(q)
  BY <1>1, <1>2 DEF Ops
<1>4. CASE j = n
  BY <1>1, <1>3, <1>4
<1>5. CASE j # n
  <2>1. j \in 1..Len(q) /\ r[j] = q[j]
    BY <1>1, <1>5
  <2> QED BY <1>2, <1>3, <2>1 DEF Line
<1> QED BY <1>4, <1>5

\* A front part of a line is a line.
LEMMA LineFront ==
  ASSUME NEW S, NEW q \in Seq(S), NEW k \in 0..Len(q), Line(q)
  PROVE  /\ Line(SubSeq(q, 1, k)) /\ Ops(SubSeq(q, 1, k)) \subseteq Ops(q)
         /\ SubSeq(q, 1, k) \in Seq(S)
<1> DEFINE r == SubSeq(q, 1, k)
<1>1. k \in Nat /\ Len(q) \in Nat /\ k <= Len(q)
  OBVIOUS
<1>2. \A i \in 1..k : q[i] \in S
  BY <1>1
<1>3. Len(r) = k /\ r \in Seq(S) /\ \A i \in 1..k : r[i] = q[i]
  BY <1>1, <1>2, SubSeqProperties
<1>4. \A i \in 1..k : i \in 1..Len(q)
  BY <1>1
<1> HIDE DEF r
<1>5. Line(r) /\ Ops(r) \subseteq Ops(q)
  BY <1>3, <1>4 DEF Line, Ops
<1> QED BY <1>3, <1>5 DEF r
-----------------------------------------------------------------------------
(* Sessions.                                                                *)

\* file_transfer_close on a session f: refused, or the session is gone.
Closed(f, d) ==
  \/ f.counter > 0 /\ ftp' = f /\ disk' = d /\ marks' = marks
  \/ /\ f.counter = 0 /\ ftp' = NoFtp /\ marks' = MarksLeft(f)
     /\ disk' = IF f.last THEN d ELSE FillMark(f, d)

\* What a step leaves of the running session, as far as the line is concerned.
Onward(f) ==
  /\ f \in Sessions /\ f.crc = ftp.crc /\ f.mark = ftp.mark
  /\ f.crc = NoFile => f.file = "none" /\ f.counter = 0

LEMMA CloseEffect ==
  ASSUME NEW f \in Sessions, NEW d, Close(f, d)
  PROVE  Closed(f, d)
<1>1. f.counter \in Nat
  BY DEF Sessions
<1> QED BY <1>1 DEF Close, Closed

LEMMA SendEffect ==
  ASSUME NEW f \in Sessions, NEW d, NEW m, SendOrClose(f, d, m)
  PROVE  \/ toApp' = Append(toApp, m) /\ ftp' = f /\ disk' = d /\ marks' = marks
         \/ toApp' = toApp /\ Closed(f, d)
BY CloseEffect DEF SendOrClose, Keep

\* A session that is gone has taken its mark timer along.
LEMMA ClosedOwns ==
  ASSUME MarkTimerOwned, ftp # NoFtp, NEW f \in Sessions, f.mark = ftp.mark, NEW d,
         Closed(f, d)
  PROVE  \/ f.counter > 0 /\ ftp' = f /\ marks' = marks
         \/ f.counter = 0 /\ ftp' = NoFtp /\ marks' = 0
<1>1. MarksLeft(f) = 0
  BY DEF MarkTimerOwned, MarksLeft
<1> QED BY <1>1 DEF Closed

LEMMA LineParts ==
  ASSUME LineInv
  PROVE  /\ IInv /\ MarkTimerOwned /\ Line(net) /\ net \in Seq(FromApp) /\ toApp \in Seq(ToApp)
         /\ calls \in Nat /\ marks \in Nat
         /\ Starting => Calm /\ toApp = << >> /\ calls = 0
         /\ app.st \in {"prep", "ready"} => Ops(net) \subseteq {"prepare"}
         /\ ftp # NoFtp => ftp \in Sessions /\ Onward(ftp) /\ (ftp.counter > 0 => calls > 0)
         /\ ftp # NoFtp => ftp.counter \in Nat
         /\ ftp # NoFtp /\ ftp.crc = NoFile => ftp.file = "none" /\ ~ftp.mark /\ ftp.counter = 0
         /\ ftp # NoFtp => marks = IF ftp.mark THEN 1 ELSE 0
         /\ ftp = NoFtp => marks = 0
BY Parts DEF LineInv, StartInv, FreshInv, Onward, Sound, Sessions, MarkTimerOwned

\* What is not asked for now still is, or something else is waited for.
Waited == \/ app.st = "xfer" \/ calls > 0
          \/ Ops(net) \cap Ending # {} \/ Ops(toApp) \cap Asking # {}

\* A step that leaves no START on the way keeps the line in order when its
\* session goes on, waited for, or goes with its timer.
LEMMA QuietKeeps ==
  ASSUME LineInv, IInv', ~Starting',
         \/ ftp' = NoFtp /\ marks' = 0
         \/ /\ ftp # NoFtp /\ Onward(ftp') /\ marks' = marks
            /\ ftp'.counter > 0 => calls' > 0
            /\ ~Calm => Waited'
  PROVE  LineInv'
<1>1. "start" \notin Ops(net)' /\ app'.st \notin {"prep", "ready"}
  BY DEF Starting
<1>2. \A i \in 1..Len(net') : net'[i].op # "start"
  BY <1>1 DEF Ops
<1>3. StartInv'
  BY <1>1, <1>2 DEF StartInv, Starting, Line, Announced
<1>4. FreshInv' /\ MarkTimerOwned' /\ LiveInv'
  <2>1. CASE ftp' = NoFtp /\ marks' = 0
    BY <2>1 DEF FreshInv, MarkTimerOwned, LiveInv, Calm
  <2>2. CASE /\ ftp # NoFtp /\ Onward(ftp') /\ marks' = marks
             /\ ftp'.counter > 0 => calls' > 0
             /\ ~Calm => Waited'
    <3>1. ftp' \in Sessions /\ ftp' # NoFtp /\ ftp'.crc = ftp.crc /\ ftp'.mark = ftp.mark
      BY <2>2, AbsenceAssumption DEF Onward
    <3>2. ftp'.crc = NoFile => ftp'.file = "none" /\ ~ftp'.mark /\ ftp'.counter = 0
      BY <2>2, <3>1, LineParts DEF Onward
    <3>3. marks' = IF ftp'.mark THEN 1 ELSE 0
      BY <2>2, <3>1, LineParts
    <3>4. FreshInv' /\ MarkTimerOwned'
      BY <2>2, <3>1, <3>2, <3>3 DEF FreshInv, MarkTimerOwned
    <3>5. LiveInv'
      BY <2>2, <3>1 DEF LiveInv, Calm, Waited
    <3> QED BY <3>4, <3>5
  <2> QED BY <2>1, <2>2
<1> QED BY <1>3, <1>4 DEF LineInv

\* A message that is neither a prepare nor a START comes when none is prepared.
LEMMA HeadQuiet ==
  ASSUME LineInv, net # << >>, Head(net).op \notin {"prepare", "start"}
  PROVE  ~Starting /\ "start" \notin Ops(Tail(net))
<1>1. Ops(net) = Ops(Tail(net)) \cup {Head(net).op}
  BY LineParts, OpsTail
<1>2. "start" \notin Ops(Tail(net))
  BY LineParts, LineTail
<1> QED BY <1>1, <1>2, LineParts DEF Starting

\* Steps that leave the session as it is, or only its place, window and
\* timeouts, and leave the app's line alone.
LEMMA SameKeeps ==
  ASSUME LineInv, IInv', net' = net, app' = app, calls' = calls, marks' = marks,
         \/ ftp' = ftp
         \/ ftp # NoFtp /\ ftp' \in Sessions /\ ftp'.crc = ftp.crc /\ ftp'.file = ftp.file
              /\ ftp'.mark = ftp.mark /\ ftp'.counter = ftp.counter,
         Calm => toApp' = toApp, Ops(toApp) \subseteq Ops(toApp')
  PROVE  LineInv'
<1>1. Calm' = Calm /\ Starting' = Starting
  BY AbsenceAssumption DEF Calm, Starting
<1>2. StartInv'
  BY <1>1 DEF LineInv, StartInv, Line, Announced
<1>3. FreshInv' /\ MarkTimerOwned'
  BY AbsenceAssumption DEF LineInv, FreshInv, MarkTimerOwned
<1>4. LiveInv'
  BY <1>1 DEF LineInv, LiveInv
<1> QED BY <1>2, <1>3, <1>4 DEF LineInv
-----------------------------------------------------------------------------
(* One lemma per action: each keeps LineInv.                                *)

\* A message is gone from the front of the line.
LEMMA NetTail ==
  ASSUME LineInv, net # << >>, net' = Tail(net)
  PROVE  /\ Ops(net) = Ops(net') \cup {Head(net).op} /\ Line(net')
         /\ Head(net) \in FromApp /\ Len(net') = Len(net) - 1
         /\ \A i \in 1..Len(net') : net'[i] = net[i + 1] /\ i + 1 \in 1..Len(net)
<1>1. net \in Seq(FromApp) /\ Line(net)
  BY LineParts
<1>2. Len(net) \in Nat /\ Len(net') = Len(net) - 1 /\ \A i \in 1..Len(net') : net'[i] = net[i + 1]
  BY <1>1
<1> QED BY <1>1, <1>2, OpsTail, LineTail

LEMMA RcvPrepareLine ==
  ASSUME LineInv, IInv', RcvPrepare
  PROVE  LineInv'
<1>1. /\ net # << >> /\ Head(net).op = "prepare" /\ net' = Tail(net)
      /\ UNCHANGED <<ftp, calls, marks, toApp>>
      /\ app' = app \/ (app.st = "prep" /\ app' = [app EXCEPT !.st = "ready"])
  BY DEF RcvPrepare, Arrives
<1>2. /\ Ops(net) = Ops(net') \cup {"prepare"} /\ Line(net')
      /\ Len(net') = Len(net) - 1 /\ Len(net) \in Nat
      /\ \A i \in 1..Len(net') : net'[i] = net[i + 1] /\ i + 1 \in 1..Len(net)
  BY <1>1, NetTail, LineParts
<1>3. app \in [st : {"idle", "prep", "ready", "xfer"}, c : Contents, fed : BOOLEAN]
  BY Parts DEF LineInv
<1>4. /\ app'.st \in {"prep", "ready"} <=> app.st \in {"prep", "ready"}
      /\ app'.st = "xfer" <=> app.st = "xfer"
      /\ app'.st = "idle" <=> app.st = "idle"
      /\ app'.c = app.c
  BY <1>1, <1>3
<1>5. Calm' = Calm /\ (Starting' => Starting)
  BY <1>1, <1>2, <1>4 DEF Calm, Starting
<1>6. Head(net) = net[1]
  BY <1>1, LineParts
<1>7. Announced(net)'
  <2>1. SUFFICES ASSUME NEW i \in 1..Len(net'), net'[i].op = "start", ~(app'.st = "xfer" /\ net'[i].c = app'.c)
                 PROVE  app'.st = "idle" /\ \E j \in 1..Len(net') : net'[j].op \in Closers
    BY DEF Announced
  <2>2. app.st = "idle" /\ \E j \in 1..Len(net) : net[j].op \in Closers
    BY <1>2, <1>4, <2>1 DEF LineInv, StartInv, Announced
  <2>5. PICK j \in 1..Len(net) : net[j].op \in Closers
    BY <2>2
  <2>3. j # 1 /\ j - 1 \in 1..Len(net')
    BY <1>1, <1>2, <1>6, <2>5 DEF Closers
  <2>4. net'[j - 1] = net[j]
    BY <1>2, <2>3
  <2> QED BY <1>4, <2>2, <2>3, <2>4, <2>5
<1>8. StartInv'
  BY <1>1, <1>2, <1>4, <1>5, <1>7, LineParts DEF StartInv
<1>9. FreshInv' /\ MarkTimerOwned'
  BY <1>1 DEF LineInv, FreshInv, MarkTimerOwned
<1>10. LiveInv'
  BY <1>1, <1>2, <1>4, <1>5 DEF LineInv, LiveInv, Ending
<1> QED BY <1>8, <1>9, <1>10 DEF LineInv

\* What a fresh session starts from.
LEMMA NewFtpFields ==
  ASSUME NEW hosted \in BOOLEAN
  PROVE  LET f == NewFtp(hosted)
         IN /\ f \in Sessions /\ f.crc = NoFile /\ f.file = "none" /\ ~f.mark /\ f.counter = 0
            /\ ~f.last /\ f.read = << >>
<1>1. NewFtp(hosted) \in Sessions
  BY NewFtpSound DEF Sound
<1> QED BY <1>1 DEF NewFtp

LEMMA TaskStartLine ==
  ASSUME LineInv, IInv', TaskStart
  PROVE  LineInv'
<1>1. /\ UNCHANGED <<calls, marks, net, toApp>>
      /\ app' = app \/ (app.st = "prep" /\ app' = [app EXCEPT !.st = "ready"])
      /\ ftp' = ftp \/ (ftp = NoFtp /\ ftp' = NewFtp(TRUE))
  BY DEF TaskStart
<1>2. app \in [st : {"idle", "prep", "ready", "xfer"}, c : Contents, fed : BOOLEAN]
  BY Parts DEF LineInv
<1>3. /\ app'.st \in {"prep", "ready"} <=> app.st \in {"prep", "ready"}
      /\ app'.st = "xfer" <=> app.st = "xfer"
      /\ app'.st = "idle" <=> app.st = "idle"
      /\ app'.c = app.c
  BY <1>1, <1>2
<1>4. Calm' = Calm
  BY <1>1, NewFtpFields DEF Calm
<1>5. StartInv'
  BY <1>1, <1>3, <1>4 DEF LineInv, StartInv, Starting, Announced
<1>6. LiveInv'
  BY <1>1, <1>3, <1>4 DEF LineInv, LiveInv
<1>7. FreshInv' /\ MarkTimerOwned'
  <2>1. CASE ftp' = ftp
    BY <1>1, <2>1 DEF LineInv, FreshInv, MarkTimerOwned
  <2>2. CASE ftp = NoFtp /\ ftp' = NewFtp(TRUE)
    <3>1. /\ ftp'.crc = NoFile /\ ftp'.file = "none" /\ ~ftp'.mark /\ ftp'.counter = 0
          /\ marks' = 0
      BY <1>1, <2>2, NewFtpFields, LineParts
    <3> QED BY <3>1 DEF FreshInv, MarkTimerOwned
  <2> QED BY <1>1, <2>1, <2>2
<1> QED BY <1>5, <1>6, <1>7 DEF LineInv

LEMMA RcvStopLine ==
  ASSUME LineInv, IInv', RcvCancel \/ RcvStop
  PROVE  LineInv'
<1>1. /\ net # << >> /\ Head(net).op \in {"cancel", "disconnect", "endRsp"} /\ net' = Tail(net)
      /\ UNCHANGED <<calls, toApp, app>>
      /\ (ftp = NoFtp /\ UNCHANGED <<ftp, marks>>) \/ (ftp # NoFtp /\ Close(ftp, disk))
  BY DEF RcvCancel, RcvStop, Arrives
<1>2. ~Starting'
  BY <1>1, HeadQuiet DEF Starting
<1>3. CASE ftp = NoFtp /\ UNCHANGED <<ftp, marks>>
  BY <1>2, <1>3, LineParts, QuietKeeps
<1>4. CASE ftp # NoFtp /\ Close(ftp, disk)
  <2>1. \/ ftp.counter > 0 /\ ftp' = ftp /\ marks' = marks
        \/ ftp.counter = 0 /\ ftp' = NoFtp /\ marks' = 0
    BY <1>4, LineParts, CloseEffect, ClosedOwns
  <2>2. ftp.counter > 0 => calls > 0
    BY <1>4, LineParts
  <2> QED BY <1>1, <1>2, <1>4, <2>1, <2>2, LineParts, QuietKeeps DEF Waited
<1> QED BY <1>1, <1>3, <1>4

LEMMA StartTimeoutLine ==
  ASSUME LineInv, IInv', StartTimeout
  PROVE  LineInv'
<1> DEFINE f == [ftp EXCEPT !.start = FALSE]
<1>1. /\ ftp # NoFtp /\ ftp.start /\ Close(f, disk) /\ UNCHANGED <<calls, net, toApp, app>>
  BY DEF StartTimeout
<1>2. ftp \in Sessions /\ ftp.crc = NoFile /\ ftp.file = "none" /\ ~ftp.mark /\ ftp.counter = 0
  BY <1>1, LineParts, Parts DEF Sound
<1>3. f \in Sessions /\ f.mark = ftp.mark /\ f.counter = 0
  BY <1>2 DEF Sessions
<1> HIDE DEF f
<1>4. ftp' = NoFtp /\ marks' = 0
  BY <1>1, <1>3, LineParts, CloseEffect, ClosedOwns
<1>5. Calm /\ Calm' /\ Starting' = Starting
  BY <1>1, <1>2, <1>4 DEF Calm, Starting
<1>6. StartInv'
  BY <1>1, <1>5 DEF LineInv, StartInv, Announced
<1> QED BY <1>4, <1>5, <1>6 DEF LineInv, FreshInv, MarkTimerOwned, LiveInv

LEMMA OpsAsked ==
  ASSUME IInv, NEW f, Asks(f)
  PROVE  Ops(toApp) \subseteq Ops(toApp') /\ (f.file = "none" => toApp' = toApp)
<1>1. toApp \in Seq(ToApp)
  BY Parts
<1> QED BY <1>1, OpsAppend DEF Asks

LEMMA GetTimeoutLine ==
  ASSUME LineInv, IInv', GetTimeout
  PROVE  LineInv'
<1> DEFINE f == [ftp EXCEPT !.get = "fired"]
<1>1. ftp # NoFtp /\ GetData(f) /\ UNCHANGED <<calls, marks, net, app>>
  BY DEF GetTimeout
<1>2. ftp \in Sessions
  BY <1>1, LineParts
<1>3. f \in Sessions /\ Same(ftp, f)
  BY <1>2 DEF Sessions, Same
<1> HIDE DEF f
<1>4. Same(f, ftp') /\ Asks(f)
  BY <1>1, <1>3, GetDataEffect
<1>5. Ops(toApp) \subseteq Ops(toApp') /\ (f.file = "none" => toApp' = toApp)
  BY <1>4, LineParts, OpsAsked
<1>6. Calm => f.file = "none"
  BY <1>1, <1>3, LineParts DEF Calm, Same
<1> QED BY <1>1, <1>3, <1>4, <1>5, <1>6, SameKeeps DEF Same

LEMMA MarkScanLine ==
  ASSUME LineInv, IInv', MarkScan
  PROVE  LineInv'
<1>1. /\ ftp # NoFtp /\ ftp' = [ftp EXCEPT !.pos = ftp.off]
      /\ UNCHANGED <<calls, marks, net, toApp, app>>
  BY DEF MarkScan, SeekBack
<1>2. ftp \in Sessions
  BY <1>1, LineParts
<1>3. ftp' \in Sessions
  BY <1>1, <1>2 DEF Sessions
<1>4. ftp'.crc = ftp.crc /\ ftp'.file = ftp.file /\ ftp'.mark = ftp.mark /\ ftp'.counter = ftp.counter
  BY <1>1, <1>2 DEF Sessions
<1> QED BY <1>1, <1>3, <1>4, SameKeeps

LEMMA AppPrepareLine ==
  ASSUME LineInv, IInv', AppPrepare, "restart" \notin Faults
  PROVE  LineInv'
<1>1. /\ app.st = "idle" /\ net = << >> /\ toApp = << >> /\ calls = 0
      /\ app' = [app EXCEPT !.st = "prep"] /\ net' = Append(net, [op |-> "prepare"])
      /\ UNCHANGED <<ftp, calls, marks, toApp>>
  BY DEF AppPrepare, device
<1>2. Ops(net) = {} /\ Ops(toApp) = {}
  BY <1>1, OpsNone
<1>3. Calm
  BY <1>1, <1>2 DEF LineInv, LiveInv
<1>4. Calm'
  BY <1>1, <1>3 DEF Calm
<1>5. Ops(net') = {"prepare"} /\ Len(net') = 1
  <2>1. << >> \in Seq(FromApp) /\ net' = Append(<< >>, [op |-> "prepare"])
    BY <1>1
  <2>2. Ops(net') = Ops(<< >>) \cup {"prepare"}
    BY <2>1, OpsAppend
  <2> QED BY <2>1, <2>2, OpsNone
<1>6. \A i \in 1..Len(net') : net'[i].op # "start" /\ i = 1
  BY <1>5 DEF Ops
<1>7. Line(net') /\ Announced(net)'
  BY <1>5, <1>6 DEF Line, Announced
<1>8. StartInv'
  BY <1>1, <1>4, <1>5, <1>7 DEF StartInv
<1> QED BY <1>1, <1>4, <1>8 DEF LineInv, FreshInv, MarkTimerOwned, LiveInv

LEMMA AppStartLine ==
  ASSUME LineInv, IInv', NEW c \in Contents, AppStart(c)
  PROVE  LineInv'
<1> DEFINE m == [op |-> "start", c |-> c]
<1>1. /\ app.st = "ready" /\ app' = [st |-> "xfer", c |-> c, fed |-> FALSE]
      /\ net' = Append(net, m) /\ UNCHANGED <<ftp, calls, marks, toApp>>
  BY DEF AppStart, device
<1>2. Starting /\ Calm /\ Calm' /\ toApp' = << >> /\ calls' = 0 /\ Ops(net) \subseteq {"prepare"}
  <2>1. Starting
    BY <1>1 DEF Starting
  <2> QED BY <1>1, <2>1, LineParts DEF Calm
<1>3. net \in Seq(FromApp) /\ Line(net) /\ m.op = "start"
  BY LineParts
<1>4. Line(net')
  BY <1>1, <1>2, <1>3, LineAppend
<1>5. /\ Len(net') = Len(net) + 1 /\ net'[Len(net) + 1] = m
      /\ Len(net) \in Nat /\ \A i \in 1..Len(net) : net'[i] = net[i]
  BY <1>1, <1>3
<1>6. \A i \in 1..Len(net) : net[i].op = "prepare"
  BY <1>2 DEF Ops
<1>7. Announced(net)'
  <2>1. SUFFICES ASSUME NEW i \in 1..Len(net'), net'[i].op = "start"
                 PROVE  app'.st = "xfer" /\ net'[i].c = app'.c
    BY DEF Announced
  <2>2. i = Len(net) + 1
    BY <1>5, <1>6, <2>1
  <2> QED BY <1>1, <1>5, <2>2
<1>8. StartInv'
  BY <1>1, <1>2, <1>4, <1>7 DEF StartInv
<1> QED BY <1>1, <1>2, <1>8 DEF LineInv, FreshInv, MarkTimerOwned, LiveInv

LEMMA AppCancelLine ==
  ASSUME LineInv, IInv', AppCancel
  PROVE  LineInv'
<1>1. /\ app' = [app EXCEPT !.st = "idle"] /\ net' = Append(net, [op |-> "cancel"])
      /\ UNCHANGED <<ftp, calls, marks, toApp>>
  BY DEF AppCancel, device
<1>2. net \in Seq(FromApp) /\ Line(net)
  BY LineParts
<1>3. app'.st = "idle"
  BY <1>1, Parts DEF LineInv
<1>4. Ops(net') = Ops(net) \cup {"cancel"}
  BY <1>1, <1>2, OpsAppend
<1>5. Line(net')
  BY <1>1, <1>2, LineAppend DEF Closers
<1>6. Calm' = Calm /\ (Starting' => Starting)
  BY <1>1, <1>3, <1>4 DEF Calm, Starting
<1>7. Announced(net)'
  <2>1. net'[Len(net) + 1].op \in Closers /\ Len(net) + 1 \in 1..Len(net')
    BY <1>1, <1>2 DEF Closers
  <2> QED BY <1>3, <2>1 DEF Announced
<1>8. StartInv'
  BY <1>1, <1>3, <1>5, <1>6, <1>7 DEF LineInv, StartInv
<1>9. LiveInv'
  BY <1>4 DEF LiveInv, Ending
<1> QED BY <1>1, <1>8, <1>9 DEF LineInv, FreshInv, MarkTimerOwned

\* The packets of a pull: consecutive blocks of the content, numbered from 0.
LEMMA PacketsMade ==
  ASSUME NEW c \in Contents, NEW off \in Nat, NEW n \in Nat, off < Size[c]
  PROVE  LET r == Packets(c, off, n)
         IN /\ r \in Seq(FromApp) /\ Len(r) <= n /\ off + Len(r) <= Size[c]
            /\ \A i \in 1..Len(r) : /\ r[i].op = "data" /\ r[i].id = i - 1
                                    /\ r[i].block = <<c, off + i - 1>>
<1> DEFINE k == IF off + n > Size[c] THEN Size[c] - off ELSE n
           r == Packets(c, off, n)
<1>1. Size[c] \in Nat
  BY ConstantsAssumption
<1>2. k \in Nat /\ k <= n /\ off + k <= Size[c]
  BY <1>1
<1>3. r = [i \in 1..k |-> [op |-> "data", id |-> i - 1, block |-> <<c, off + i - 1>>]]
  BY DEF Packets
<1> HIDE DEF k
<1>4. ASSUME NEW i \in 1..k
      PROVE  [op |-> "data", id |-> i - 1, block |-> <<c, off + i - 1>>] \in FromApp
  <2>1. i - 1 \in Nat /\ off + i - 1 \in Nat
    BY <1>2
  <2>2. <<c, off + i - 1>> \in Block
    BY <2>1 DEF Block
  <2> QED BY <2>1, <2>2 DEF FromApp
<1>5. [i \in 1..k |-> [op |-> "data", id |-> i - 1, block |-> <<c, off + i - 1>>]] \in Seq(FromApp)
  BY <1>2, <1>4
<1>6. r \in Seq(FromApp)
  BY <1>3, <1>5
<1>7. Len(r) = k /\ \A i \in 1..k : r[i] = [op |-> "data", id |-> i - 1, block |-> <<c, off + i - 1>>]
  BY <1>2, <1>3
<1> HIDE DEF r
<1>8. \A i \in 1..k : /\ r[i].op = "data" /\ r[i].id = i - 1
                      /\ r[i].block = <<c, off + i - 1>>
  BY <1>7
<1> QED BY <1>2, <1>6, <1>7, <1>8 DEF r

\* The app answers what it is asked: a rename and an end are answered at once.
LEMMA AppServeLine ==
  ASSUME LineInv, IInv', AppServe
  PROVE  LineInv'
<1> DEFINE m == Head(toApp)
<1>1. /\ toApp # << >> /\ toApp' = Tail(toApp) /\ UNCHANGED <<ftp, calls, marks>>
      /\ toApp \in Seq(ToApp) /\ net \in Seq(FromApp)
  BY LineParts DEF AppServe, device
<1>2. ~Starting /\ "start" \notin Ops(net) /\ app.st \notin {"prep", "ready"}
  BY <1>1, LineParts DEF Starting
<1>3. Ops(toApp) = Ops(toApp') \cup {m.op} /\ m \in ToApp
  BY <1>1, OpsTail
<1>4. app \in [st : {"idle", "prep", "ready", "xfer"}, c : Contents, fed : BOOLEAN]
  BY Parts DEF LineInv
<1>5. \/ /\ m.op = "pull" /\ app'.st = app.st
         /\ Ops(net) \subseteq Ops(net') /\ Ops(net') \subseteq Ops(net) \cup {"data"}
      \/ m.op = "rename" /\ app'.st = app.st /\ Ops(net') = Ops(net) \cup {"renameRsp"}
      \/ m.op = "end" /\ app'.st = "idle" /\ Ops(net') = Ops(net) \cup {"endRsp"}
  <2>1. CASE /\ m.op = "pull" /\ m.off < Size[app.c] /\ net' = net \o Packets(app.c, m.off, m.n)
             /\ app' = [app EXCEPT !.fed = @ \/ m.off = 0]
    <3> DEFINE r == Packets(app.c, m.off, m.n)
    <3>1. m.off \in Nat /\ m.n \in Nat
      BY <1>3, <2>1 DEF ToApp
    <3>2. r \in Seq(FromApp) /\ \A i \in 1..Len(r) : r[i].op = "data"
      BY <1>4, <2>1, <3>1, PacketsMade
    <3> HIDE DEF r
    <3>6. Ops(r) \subseteq {"data"}
      BY <3>2 DEF Ops
    <3>7. Ops(net') = Ops(net) \cup Ops(r)
      BY <1>1, <2>1, <3>2, OpsConcat DEF r
    <3>8. app'.st = app.st
      BY <1>4, <2>1
    <3> QED BY <2>1, <3>6, <3>7, <3>8
  <2>2. CASE m.op = "pull" /\ UNCHANGED <<net, app>>
    BY <2>2
  <2>3. CASE /\ m.op = "rename" /\ UNCHANGED app
             /\ net' = Append(net, [op |-> "renameRsp", ok |-> app.st = "xfer" /\ app.fed])
    BY <1>1, <2>3, OpsAppend
  <2>4. CASE /\ m.op = "end" /\ net' = Append(net, [op |-> "endRsp"])
             /\ app' = [app EXCEPT !.st = "idle"]
    BY <1>1, <1>4, <2>4, OpsAppend
  <2> QED BY <2>1, <2>2, <2>3, <2>4 DEF AppServe
<1>6. ~Starting'
  BY <1>2, <1>5 DEF Starting
<1>7. ~Calm => Waited'
  <2>1. ~Calm => Waited
    BY DEF LineInv, LiveInv, Waited
  <2> QED BY <1>1, <1>3, <1>5, <2>1 DEF Waited, Ending, Asking
<1> QED BY <1>1, <1>6, <1>7, LineParts, QuietKeeps

LEMMA LoseDataLine ==
  ASSUME LineInv, IInv', LoseData
  PROVE  LineInv'
<1>1. /\ net # << >> /\ Head(net).op = "data" /\ net' = Tail(net)
      /\ UNCHANGED <<ftp, calls, marks, toApp, app>>
  BY DEF LoseData, Arrives, device
<1>2. ~Starting' /\ Ops(net) = Ops(net') \cup {"data"}
  BY <1>1, HeadQuiet, NetTail DEF Starting
<1>3. ~Calm => Waited'
  BY <1>1, <1>2 DEF LineInv, LiveInv, Waited, Ending
<1> QED BY <1>1, <1>2, <1>3, LineParts, QuietKeeps

LEMMA LinkDownLine ==
  ASSUME LineInv, IInv', LinkDown
  PROVE  LineInv'
<1>1. /\ toApp' = << >> /\ app' = [app EXCEPT !.st = "idle"]
      /\ UNCHANGED <<ftp, calls, marks>>
  BY DEF LinkDown, device
<1>2. PICK k \in 0..Len(net) : net' = Append(SubSeq(net, 1, k), [op |-> "disconnect"])
  BY DEF LinkDown
<1> DEFINE q == SubSeq(net, 1, k)
<1>3. Line(q) /\ Ops(q) \subseteq Ops(net) /\ q \in Seq(FromApp)
  BY LineParts, LineFront
<1>4. app'.st = "idle"
  BY <1>1, Parts DEF LineInv
<1> HIDE DEF q
<1>5. net' = Append(q, [op |-> "disconnect"])
  BY <1>2 DEF q
<1>6. Ops(net') = Ops(q) \cup {"disconnect"} /\ Line(net')
  BY <1>3, <1>5, OpsAppend, LineAppend DEF Closers
<1>7. Calm' = Calm /\ (Starting' => Starting)
  BY <1>1, <1>3, <1>4, <1>6 DEF Calm, Starting
<1>8. Announced(net)'
  <2>1. net'[Len(q) + 1].op \in Closers /\ Len(q) + 1 \in 1..Len(net')
    BY <1>3, <1>5 DEF Closers
  <2> QED BY <1>4, <2>1 DEF Announced
<1>9. StartInv'
  BY <1>1, <1>4, <1>6, <1>7, <1>8, LineParts DEF StartInv
<1>10. LiveInv'
  BY <1>6 DEF LiveInv, Ending
<1> QED BY <1>1, <1>9, <1>10 DEF LineInv, FreshInv, MarkTimerOwned

LEMMA ResetLine ==
  ASSUME IInv, IInv', Reset
  PROVE  LineInv'
<1>1. /\ ftp' = NoFtp /\ calls' = 0 /\ marks' = 0 /\ net' = << >> /\ toApp' = << >>
      /\ app'.st = "idle"
  BY Parts DEF Reset
<1>2. ~Starting' /\ Calm'
  BY <1>1, OpsNone DEF Starting, Calm
<1>3. StartInv'
  BY <1>1, <1>2 DEF StartInv, Line, Announced
<1> QED BY <1>1, <1>2, <1>3 DEF LineInv, FreshInv, LiveInv, MarkTimerOwned

LEMMA EnvironmentLine ==
  ASSUME LineInv, IInv', Environment
  PROVE  LineInv'
<1>1. CASE LinkUp
  BY <1>1, SameKeeps DEF LinkUp, device
<1>2. CASE ModeKey
  BY <1>2, SameKeeps DEF ModeKey
<1>3. CASE PowerLoss
  BY <1>3, LineParts, ResetLine DEF PowerLoss
<1> QED BY <1>1, <1>2, <1>3, LoseDataLine, LinkDownLine DEF Environment
-----------------------------------------------------------------------------
(* START, on a session that has received nothing.                           *)

\* e is d with the mark for offset o in block 0.
Marked(d, e, o) ==
  /\ e \in File /\ MarkedOffset(e) = o
  /\ \A i \in 1..LastBlock : e[i] = d[i]

LEMMA FillMarkEffect ==
  ASSUME NEW f \in Sessions, NEW d \in Files
  PROVE  /\ f.file = "tmp" /\ d \in File => Marked(d, FillMark(f, d), f.off)
         /\ ~(f.file = "tmp" /\ d \in File) => FillMark(f, d) = d
<1>1. ASSUME f.file = "tmp", d \in File
      PROVE  Marked(d, FillMark(f, d), f.off)
  <2> DEFINE e == [d EXCEPT ![0] = <<Mark, f.off>>]
  <2>1. FillMark(f, d) = e
    BY <1>1, ConstantsAssumption, AbsenceAssumption DEF FillMark, Write
  <2>2. 0 \in 0..LastBlock /\ <<Mark, f.off>> \in Block
    BY ConstantsAssumption DEF Block, Sessions
  <2>3. e \in File /\ e[0] = <<Mark, f.off>> /\ \A i \in 1..LastBlock : e[i] = d[i]
    BY <1>1, <2>2, ConstantsAssumption DEF File
  <2>4. MarkedOffset(e) = f.off
    BY <2>3 DEF MarkedOffset
  <2> QED BY <2>1, <2>3, <2>4 DEF Marked
<1> QED BY <1>1 DEF FillMark, Files

\* The file START opens, and the offset it goes on from.
Opening == IF disk = Absent THEN Blank ELSE disk
Resuming == ResumeFrom(Head(net).c, Opening)

\* No session yet: a new one that still waits for its START.
StartLeft ==
  /\ ftp = NoFtp /\ ftp' \in Sessions /\ ftp'.crc = NoFile /\ ftp'.file = "none"
  /\ ~ftp'.mark /\ ftp'.counter = 0
  /\ UNCHANGED <<disk, calls, marks, toApp>>
\* The session is gone.
StartGone ==
  /\ ftp' = NoFtp /\ marks' = 0 /\ UNCHANGED <<calls, toApp>>
  /\ \/ disk' = disk
     \/ Size[Head(net).c] = 1 /\ disk' = Opening
     \/ Size[Head(net).c] # 1 /\ Marked(Opening, disk', Resuming)
\* All blocks but 0 are there: the check is queued.
StartChecks ==
  /\ ftp' \in Sessions /\ ftp'.crc = Head(net).c /\ ftp'.file = "tmp" /\ ~ftp'.mark /\ ~ftp'.last
  /\ ftp'.off = Size[Head(net).c] /\ ftp'.read = << >> /\ ftp'.pos = 0
  /\ Resuming = Size[Head(net).c] /\ Size[Head(net).c] # 1
  /\ disk' = Opening /\ calls' = calls + 1 /\ UNCHANGED <<marks, toApp, app>>
\* The first pull, and the mark timer.
StartPulls ==
  /\ ftp' \in Sessions /\ ftp'.crc = Head(net).c /\ ftp'.file = "tmp" /\ ftp'.mark
  /\ ftp'.last = (Size[Head(net).c] = 1) /\ ftp'.counter = 0
  /\ IF ftp'.last THEN disk' = Opening
     ELSE ftp'.off = Resuming /\ ftp'.pos = Resuming /\ Marked(Opening, disk', Resuming)
  /\ marks' = marks + 1 /\ Asks(ftp') /\ UNCHANGED <<calls, app>>

LEMMA StartFresh ==
  ASSUME LineInv, RcvStart
  PROVE  /\ Calm /\ toApp = << >> /\ calls = 0 /\ marks = 0
         /\ net # << >> /\ Head(net).op = "start" /\ net' = Tail(net)
         /\ Ops(net') \subseteq Closers /\ app.st \notin {"prep", "ready"}
         /\ Head(net).c \in Contents /\ Opening \in File
<1>1. net # << >> /\ Head(net).op = "start" /\ net' = Tail(net)
  BY DEF RcvStart, Arrives
<1>2. Ops(net) = Ops(net') \cup {"start"} /\ Ops(net') \subseteq Closers
  BY <1>1, NetTail, LineParts, LineTail
<1>3. Starting /\ app.st \notin {"prep", "ready"}
  <2>1. "start" \in Ops(net)
    BY <1>2
  <2> QED BY <2>1, LineParts DEF Starting
<1>4. Calm /\ toApp = << >> /\ calls = 0 /\ marks = 0
  BY <1>3, LineParts DEF Calm
<1>5. Head(net).c \in Contents
  BY <1>1, NetTail DEF FromApp
<1>6. Opening \in File
  <2>1. Blank \in File
    BY DEF Blank, File, Block
  <2> QED BY <2>1, LineParts, Parts DEF Opening, Files
<1> QED BY <1>1, <1>2, <1>3, <1>4, <1>5, <1>6

\* The session in which START opens the file.
LEMMA OpenedEffect ==
  ASSUME NEW f \in Sessions, NEW c \in Contents, NEW d \in File
  PROVE  LET g == Opened(f, c, d)
         IN /\ g \in Sessions /\ g.crc = c /\ g.file = "tmp" /\ g.mark = f.mark
            /\ g.counter = f.counter /\ g.last = (Size[c] = 1)
            /\ g.last => g.off = 0
            /\ ~g.last => g.off = ResumeFrom(c, d) /\ g.pos = ResumeFrom(c, d)
<1> DEFINE g == [f EXCEPT !.file = "tmp", !.crc = c, !.pos = 0, !.last = (Size[c] = 1)]
           h == Opened(f, c, d)
<1>1. g \in Sessions
  BY DEF Sessions
<1>2. /\ g.crc = c /\ g.last = (Size[c] = 1) /\ g.file = "tmp"
      /\ g.mark = f.mark /\ g.counter = f.counter
  BY DEF Sessions
<1> HIDE DEF g
<1>3. CASE Size[c] = 1
  <2>1. h = [g EXCEPT !.off = 0]
    BY <1>3, Zenon DEF Opened, g
  <2> HIDE DEF h
  <2>2. h \in Sessions
    BY <1>1, <2>1 DEF Sessions
  <2>3. /\ h.off = 0 /\ h.crc = g.crc /\ h.last = g.last /\ h.file = g.file
        /\ h.mark = g.mark /\ h.counter = g.counter
    BY <1>1, <2>1 DEF Sessions
  <2> QED BY <1>2, <1>3, <2>2, <2>3 DEF h
<1>4. CASE Size[c] # 1
  <2> DEFINE p == ResumeFrom(c, d)
  <2>1. p \in Nat
    BY <1>4, ResumeWithin
  <2>2. h = [[g EXCEPT !.off = p] EXCEPT !.pos = [g EXCEPT !.off = p].off]
    BY <1>4 DEF Opened, SeekBack, g
  <2> HIDE DEF p, h
  <2>3. h = [g EXCEPT !.off = p, !.pos = p]
    BY <1>1, <2>2 DEF Sessions
  <2>4. h \in Sessions
    BY <1>1, <2>1, <2>3 DEF Sessions
  <2>5. /\ h.off = p /\ h.pos = p /\ h.crc = g.crc /\ h.last = g.last /\ h.file = g.file
        /\ h.mark = g.mark /\ h.counter = g.counter
    BY <1>1, <2>3 DEF Sessions
  <2> QED BY <1>2, <1>4, <2>4, <2>5 DEF h, p
<1> QED BY <1>3, <1>4

\* Rewinding for the check.
LEMMA CheckRecordEffect ==
  ASSUME NEW f \in Sessions
  PROVE  LET g == CheckRecord(f)
         IN /\ g \in Sessions /\ g.crc = f.crc /\ g.file = f.file /\ g.mark = f.mark
            /\ g.last = f.last /\ g.off = SizeOf(f.crc) /\ g.read = << >> /\ g.pos = 0
            /\ g.id = f.id /\ g.get = f.get
<1> DEFINE g == CheckRecord(f)
<1>1. SizeOf(f.crc) \in Nat /\ RemainOf(f.crc) \in {0, 1} /\ SizeOf(f.crc) - RemainOf(f.crc) \in Nat
  BY SizeOfType DEF Sessions
<1>2. << >> \in Seq(Block)
  OBVIOUS
<1>3. g \in Sessions
  BY <1>1, <1>2 DEF CheckRecord, Sessions
<1>4. /\ g.crc = f.crc /\ g.file = f.file /\ g.mark = f.mark
      /\ g.last = f.last /\ g.off = SizeOf(f.crc) /\ g.read = << >> /\ g.pos = 0
      /\ g.id = f.id /\ g.get = f.get
  BY DEF CheckRecord, Sessions
<1> QED BY <1>3, <1>4

\* What START does, in each of its outcomes.
LEMMA RcvStartEffect ==
  ASSUME LineInv, RcvStart
  PROVE  /\ UNCHANGED <<published, up, starts, losses>>
         /\ StartLeft \/ StartGone \/ StartChecks \/ StartPulls
         /\ \/ app' = app
            \/ app' = [app EXCEPT !.st = "idle"] /\ (StartLeft \/ StartGone)
<1> DEFINE c == Head(net).c
           f == StartStopped(ftp)
           d == Opening
           g == Opened(f, c, d)
           e == IF g.last \/ MarkedOffset(d) = g.off THEN d ELSE FillMark(g, d)
<1>1. /\ Calm /\ toApp = << >> /\ calls = 0 /\ marks = 0 /\ c \in Contents /\ d \in File
      /\ UNCHANGED <<published, up, starts, losses>>
  BY StartFresh DEF RcvStart
<1>2. ASSUME AnswerFail
      PROVE  app' = app \/ app' = [app EXCEPT !.st = "idle"]
  BY <1>2 DEF AnswerFail
<1>3. ASSUME ftp # NoFtp
      PROVE  /\ f \in Sessions /\ f.file = "none" /\ ~f.mark /\ f.counter = 0
             /\ f.crc = NoFile /\ ftp.crc = NoFile
  <2>1. ftp \in Sessions /\ ftp.crc = NoFile /\ ftp.file = "none" /\ ~ftp.mark /\ ftp.counter = 0
    BY <1>1, <1>3, LineParts DEF Calm
  <2> QED BY <2>1 DEF StartStopped, Sessions
<1> HIDE DEF f
<1>4. ASSUME ftp # NoFtp
      PROVE  /\ g \in Sessions /\ g.crc = c /\ g.file = "tmp" /\ ~g.mark
             /\ g.counter = 0 /\ g.last = (Size[c] = 1)
             /\ ~g.last => g.off = Resuming /\ g.pos = Resuming
  BY <1>1, <1>3, <1>4, OpenedEffect DEF Resuming
<1> HIDE DEF g
<1>5. ASSUME ftp # NoFtp
      PROVE  IF g.last THEN e = d ELSE Marked(d, e, Resuming) /\ Marked(d, FillMark(g, e), Resuming)
  <2>1. CASE g.last
    BY <2>1
  <2>2. CASE ~g.last
    <3>1. d \in Files
      BY <1>1 DEF Files
    <3>2. Marked(d, e, Resuming)
      <4>1. CASE MarkedOffset(d) = g.off
        BY <1>1, <1>4, <1>5, <2>2, <4>1 DEF Marked
      <4>2. CASE MarkedOffset(d) # g.off
        BY <1>1, <1>4, <1>5, <2>2, <3>1, <4>2, FillMarkEffect
      <4> QED BY <4>1, <4>2
    <3> HIDE DEF e
    <3>3. e \in File /\ e \in Files
      BY <3>2 DEF Marked, Files
    <3>4. Marked(e, FillMark(g, e), Resuming)
      BY <1>4, <1>5, <2>2, <3>3, FillMarkEffect
    <3> QED BY <2>2, <3>2, <3>4 DEF Marked
  <2> QED BY <2>1, <2>2
<1> HIDE DEF e
<1>6. CASE /\ ftp = NoFtp /\ ftp' = NewFtp(FALSE) /\ AnswerFail
           /\ UNCHANGED <<disk, task, calls, marks, toApp>>
  <2>1. StartLeft
    BY <1>6, NewFtpFields DEF StartLeft
  <2> QED BY <1>1, <1>2, <1>6, <2>1
<1>7. ASSUME ftp # NoFtp, NEW h \in Sessions, h.file = "none", h.counter = 0, ~h.mark,
             Close(h, disk), AnswerFail, UNCHANGED <<calls, toApp>>
      PROVE  StartGone
  <2>1. disk \in Files
    BY LineParts, Parts
  <2>2. FillMark(h, disk) = disk
    BY <1>7, <2>1, FillMarkEffect
  <2>3. Closed(h, disk)
    BY <1>7, CloseEffect
  <2>4. ftp' = NoFtp /\ marks' = marks /\ disk' = disk
    BY <1>7, <2>2, <2>3 DEF Closed, MarksLeft
  <2> QED BY <1>1, <1>7, <2>4 DEF StartGone
<1>8. CASE ftp # NoFtp /\ Close(f, disk) /\ AnswerFail /\ UNCHANGED <<calls, toApp>>
  BY <1>1, <1>2, <1>3, <1>7, <1>8
<1>9. CASE /\ ftp # NoFtp /\ Close([f EXCEPT !.file = "none"], disk) /\ AnswerFail
           /\ UNCHANGED <<calls, toApp>>
  <2> DEFINE h == [f EXCEPT !.file = "none"]
  <2>1. h \in Sessions /\ h.file = "none" /\ h.counter = 0 /\ ~h.mark
    BY <1>3, <1>9 DEF Sessions
  <2>2. Close(h, disk)
    BY <1>9
  <2> HIDE DEF h
  <2> QED BY <1>1, <1>2, <1>7, <1>9, <2>1, <2>2
<1>10. CASE /\ ftp # NoFtp /\ ~g.last /\ g.off = Size[c] /\ Keep(CheckRecord(g), d)
            /\ calls' = calls + 1 /\ UNCHANGED <<toApp, app>>
  <2> DEFINE h == CheckRecord(g)
  <2>1. /\ h \in Sessions /\ h.crc = g.crc /\ h.file = g.file /\ h.mark = g.mark
        /\ h.last = g.last /\ h.off = SizeOf(g.crc) /\ h.read = << >> /\ h.pos = 0
    BY <1>4, <1>10, CheckRecordEffect
  <2>2. SizeOf(c) = Size[c]
    BY <1>1, SizeOfType
  <2>3. ftp' = h /\ disk' = d /\ marks' = marks
    BY <1>10 DEF Keep
  <2> HIDE DEF h
  <2>4. StartChecks
    BY <1>4, <1>10, <2>1, <2>2, <2>3 DEF StartChecks
  <2> QED BY <1>1, <1>10, <2>4
<1>11. CASE /\ ftp # NoFtp /\ GetData([g EXCEPT !.mark = TRUE])
            /\ disk' = e /\ marks' = marks + 1 /\ UNCHANGED <<task, calls, app>>
  <2> DEFINE h == [g EXCEPT !.mark = TRUE]
  <2>1. g \in Sessions
    BY <1>4, <1>11
  <2>2. /\ h \in Sessions /\ h.mark /\ h.crc = g.crc /\ h.file = g.file /\ h.counter = g.counter
        /\ h.last = g.last /\ h.off = g.off /\ h.pos = g.pos
    BY <2>1 DEF Sessions
  <2>3. GetData(h)
    BY <1>11
  <2> HIDE DEF h
  <2>4. Same(h, ftp') /\ ftp'.pos = h.pos /\ Asks(h)
    BY <2>2, <2>3, GetDataEffect
  <2>5. Asks(ftp')
    BY <2>4 DEF Same, Asks, Request
  <2>6. StartPulls
    BY <1>4, <1>5, <1>11, <2>2, <2>4, <2>5 DEF StartPulls, Same
  <2> QED BY <1>1, <1>11, <2>6
<1>12. CASE /\ ftp # NoFtp /\ ftp' = NoFtp /\ UNCHANGED <<calls, toApp, app>>
            /\ IF g.counter > 0
               THEN disk' = e /\ UNCHANGED <<task, marks>>
               ELSE /\ disk' = IF g.last THEN e ELSE FillMark(g, e)
                    /\ task' = IF g.hosted /\ task = "action" THEN "other" ELSE task
                    /\ marks' = MarksLeft(g)
  <2>1. disk' = (IF g.last THEN e ELSE FillMark(g, e)) /\ marks' = 0
    BY <1>1, <1>4, <1>12 DEF MarksLeft
  <2>2. StartGone
    BY <1>1, <1>4, <1>5, <1>12, <2>1 DEF StartGone
  <2> QED BY <1>1, <1>12, <2>2
<1> QED
  BY <1>6, <1>8, <1>9, <1>10, <1>11, <1>12 DEF RcvStart, f, g, e, Opening

LEMMA RcvStartLine ==
  ASSUME LineInv, IInv', RcvStart
  PROVE  LineInv'
<1>1. /\ Calm /\ toApp = << >> /\ calls = 0 /\ marks = 0
      /\ net # << >> /\ Head(net).op = "start" /\ net' = Tail(net)
      /\ Ops(net') \subseteq Closers /\ app.st \notin {"prep", "ready"}
      /\ Head(net).c \in Contents
  BY StartFresh
<1>2. /\ StartLeft \/ StartGone \/ StartChecks \/ StartPulls
      /\ \/ app' = app
         \/ app' = [app EXCEPT !.st = "idle"] /\ (StartLeft \/ StartGone)
  BY RcvStartEffect
<1>3. app'.st \notin {"prep", "ready"}
  <2>1. app \in [st : {"idle", "prep", "ready", "xfer"}, c : Contents, fed : BOOLEAN]
    BY LineParts, Parts
  <2> QED BY <1>1, <1>2, <2>1
<1>4. ~Starting' /\ \A i \in 1..Len(net') : net'[i].op # "start"
  BY <1>1, <1>3 DEF Starting, Closers, Ops
<1>5. StartInv'
  BY <1>3, <1>4 DEF StartInv, Line, Announced
<1>6. app.st = "xfer" \/ Ops(net') \cap Ending # {}
  <2>1. 1 \in 1..Len(net) /\ net[1].op = "start"
    BY <1>1, LineParts
  <2>2. app.st = "xfer" \/ \E j \in 1..Len(net) : net[j].op \in Closers
    BY <2>1 DEF LineInv, StartInv, Announced
  <2>3. ASSUME NEW j \in 1..Len(net), net[j].op \in Closers
        PROVE  Ops(net') \cap Ending # {}
    <3>1. net[j].op \in Ops(net) /\ net[j].op # "start" /\ net[j].op \in Ending
      BY <2>3 DEF Ops, Closers, Ending
    <3>2. Ops(net) = Ops(net') \cup {"start"}
      BY <1>1, NetTail
    <3> QED BY <3>1, <3>2
  <2> QED BY <2>2, <2>3
<1>7. CASE StartLeft \/ StartGone
  <2>1. Calm' /\ FreshInv' /\ MarkTimerOwned'
    BY <1>1, <1>7 DEF StartLeft, StartGone, Calm, FreshInv, MarkTimerOwned
  <2> QED BY <1>5, <2>1 DEF LineInv, LiveInv
<1>8. CASE app' = app /\ (StartChecks \/ StartPulls)
  <2>1. /\ ftp'.crc \in Contents /\ ftp' # NoFtp /\ ftp'.crc # NoFile
        /\ marks' = (IF ftp'.mark THEN 1 ELSE 0) /\ (ftp'.counter > 0 => calls' > 0)
    BY <1>1, <1>8, ConstantsAssumption, AbsenceAssumption DEF StartChecks, StartPulls
  <2>2. FreshInv' /\ MarkTimerOwned'
    BY <2>1 DEF FreshInv, MarkTimerOwned
  <2>3. LiveInv'
    BY <1>6, <1>8 DEF LiveInv
  <2> QED BY <1>5, <2>2, <2>3 DEF LineInv
<1> QED BY <1>2, <1>7, <1>8
-----------------------------------------------------------------------------
(* The answer to a rename, and the queued check.                            *)

\* A command is sent for the session f, or f is closed.
Sent(f, d, m) ==
  \/ toApp' = Append(toApp, m) /\ ftp' = f /\ disk' = d /\ marks' = marks
  \/ toApp' = toApp /\ Closed(f, d)

\* The running session with another FILE.
Refiled(h, k) ==
  /\ h \in Sessions /\ h.file = k /\ h.crc = ftp.crc /\ h.mark = ftp.mark
  /\ h.counter = ftp.counter /\ h.off = ftp.off /\ h.last = ftp.last
  /\ h.read = ftp.read /\ h.id = ftp.id /\ h.get = ftp.get

\* The file gets its final name.
Renames == ftp # NoFtp /\ ftp.file # "none" /\ disk # Absent
             /\ published' = Append(published, RenamedFile)

RenameAnswered(h) ==
  LET ok == Head(net).ok
  IN \/ ok /\ Renames /\ Refiled(h, "final") /\ Sent(h, Absent, End("none"))
     \/ /\ ok /\ Refiled(h, "tmpR") /\ h.pos = 0 /\ ftp.file # "none" /\ disk # Absent
        /\ Sent(h, disk, Rename) /\ UNCHANGED published
     \/ ok /\ Refiled(h, "none") /\ Sent(h, disk, Rename) /\ UNCHANGED published
     \/ /\ ~ok /\ Refiled(h, "none") /\ Closed(h, Deleted(ftp, disk))
        /\ published' = Withdrawn(ftp) /\ UNCHANGED toApp

LEMMA RcvRenameEffect ==
  ASSUME IInv, RcvRenameRsp
  PROVE  /\ net # << >> /\ Head(net).op = "renameRsp" /\ UNCHANGED <<starts, losses>>
         /\ \/ Head(net).ok /\ Renames /\ disk' = Absent /\ Reset
            \/ /\ net' = Tail(net) /\ UNCHANGED <<calls, app, up>>
               /\ \/ ftp = NoFtp /\ UNCHANGED <<ftp, disk, published, marks, toApp>>
                  \/ ftp # NoFtp /\ \E h : RenameAnswered(h)
<1> DEFINE ok == Head(net).ok
           moved == [ftp EXCEPT !.file = "final", !.pos = 0]
           kept == [ftp EXCEPT !.file = "tmpR", !.pos = 0]
           shut == [ftp EXCEPT !.file = "none"]
<1>1. /\ net # << >> /\ Head(net).op = "renameRsp" /\ UNCHANGED <<starts, losses>>
  BY DEF RcvRenameRsp
<1>2. ftp # NoFtp => ftp \in Sessions
  BY Parts
<1>3. ASSUME ftp # NoFtp
      PROVE  Refiled(moved, "final")
  BY <1>2, <1>3 DEF Refiled, Sessions
<1>4. ASSUME ftp # NoFtp
      PROVE  Refiled(kept, "tmpR") /\ kept.pos = 0
  BY <1>2, <1>4 DEF Refiled, Sessions
<1>5. ASSUME ftp # NoFtp
      PROVE  Refiled(shut, "none")
  BY <1>2, <1>5 DEF Refiled, Sessions
<1> HIDE DEF moved, kept, shut
<1>6. ASSUME NEW f \in Sessions, NEW d, NEW m, SendOrClose(f, d, m)
      PROVE  Sent(f, d, m)
  BY <1>6, SendEffect DEF Sent
<1>7. CASE /\ ok /\ ftp # NoFtp /\ ftp.file # "none" /\ disk # Absent
           /\ published' = Append(published, RenamedFile) /\ disk' = Absent /\ Reset
  BY <1>1, <1>7 DEF Renames
<1>8. CASE /\ net' = Tail(net) /\ UNCHANGED <<calls, app, up>> /\ ftp = NoFtp
           /\ UNCHANGED <<ftp, disk, published, task, marks, toApp>>
  BY <1>1, <1>8
<1>9. CASE /\ net' = Tail(net) /\ UNCHANGED <<calls, app, up>>
           /\ ok /\ ftp # NoFtp /\ ftp.file # "none" /\ disk # Absent
           /\ published' = Append(published, RenamedFile)
           /\ SendOrClose(moved, Absent, End("none"))
  <2>1. Sent(moved, Absent, End("none"))
    BY <1>3, <1>6, <1>9 DEF Refiled
  <2>2. RenameAnswered(moved)
    BY <1>3, <1>9, <2>1 DEF RenameAnswered, Renames
  <2> QED BY <1>1, <1>9, <2>2
<1>10. CASE /\ net' = Tail(net) /\ UNCHANGED <<calls, app, up>>
            /\ ok /\ ftp # NoFtp /\ ftp.file # "none" /\ disk # Absent
            /\ SendOrClose(kept, disk, Rename) /\ UNCHANGED published
  <2>1. Sent(kept, disk, Rename)
    BY <1>4, <1>6, <1>10 DEF Refiled
  <2>2. RenameAnswered(kept)
    BY <1>4, <1>10, <2>1 DEF RenameAnswered
  <2> QED BY <1>1, <1>10, <2>2
<1>11. CASE /\ net' = Tail(net) /\ UNCHANGED <<calls, app, up>> /\ ok /\ ftp # NoFtp
            /\ SendOrClose(shut, disk, Rename) /\ UNCHANGED published
  <2>1. Sent(shut, disk, Rename)
    BY <1>5, <1>6, <1>11 DEF Refiled
  <2>2. RenameAnswered(shut)
    BY <1>5, <1>11, <2>1 DEF RenameAnswered
  <2> QED BY <1>1, <1>11, <2>2
<1>12. CASE /\ net' = Tail(net) /\ UNCHANGED <<calls, app, up>> /\ ~ok /\ ftp # NoFtp
            /\ Close(shut, Deleted(ftp, disk)) /\ published' = Withdrawn(ftp)
            /\ UNCHANGED toApp
  <2>1. Closed(shut, Deleted(ftp, disk))
    BY <1>5, <1>12, CloseEffect DEF Refiled
  <2>2. RenameAnswered(shut)
    BY <1>5, <1>12, <2>1 DEF RenameAnswered
  <2> QED BY <1>1, <1>12, <2>2
<1> QED
  BY <1>7, <1>8, <1>9, <1>10, <1>11, <1>12 DEF RcvRenameRsp, moved, kept, shut

\* A session after n more blocks of the check.
Counted(h, n) ==
  /\ h \in Sessions /\ h.crc = ftp.crc /\ h.mark = ftp.mark /\ h.off = ftp.off
  /\ h.last = ftp.last /\ h.id = ftp.id /\ h.get = ftp.get
  /\ h.read = ftp.read \o Read(ftp, n) /\ h.counter <= ftp.counter

Checked(h, n) ==
  \/ /\ Counted(h, n) /\ h.file = ftp.file /\ h.pos = ftp.pos + n /\ h.counter > 0
     /\ ftp' = h /\ UNCHANGED <<disk, published, marks, calls, toApp>>
  \/ /\ Counted(h, n) /\ h.file = ftp.file /\ h.pos = SizeOf(h.crc) /\ h.counter = 0
     /\ h.read = Original(h.crc) /\ Sent(h, disk, Rename)
     /\ calls' = calls - 1 /\ UNCHANGED published
  \/ /\ Counted(h, n) /\ h.file = "none" /\ h.counter = 0
     /\ Sent(h, Deleted(ftp, disk), End("crc"))
     /\ calls' = calls - 1 /\ published' = Withdrawn(ftp)

LEMMA CalculateEffect ==
  ASSUME IInv, Calculate
  PROVE  /\ calls > 0 /\ calls - 1 \in Nat /\ UNCHANGED <<net, app, up, starts, losses>>
         /\ \/ ftp = NoFtp /\ calls' = calls - 1 /\ UNCHANGED <<ftp, disk, published, marks, toApp>>
            \/ ftp # NoFtp /\ \E n \in Nat : \E h : Checked(h, n)
<1> DEFINE cnt == IF ftp.counter >= CheckMax THEN CheckMax ELSE ftp.counter
           n == IF cnt = ftp.counter THEN cnt + ftp.remain ELSE cnt
           f == [ftp EXCEPT !.read = @ \o Read(ftp, n), !.pos = @ + n,
                            !.counter = @ - cnt]
<1>1. calls > 0 /\ calls - 1 \in Nat /\ UNCHANGED <<net, app, up, starts, losses>>
  BY Parts DEF Calculate
<1>2. CASE ftp = NoFtp /\ calls' = calls - 1 /\ UNCHANGED <<ftp, disk, published, task, marks, toApp>>
  BY <1>1, <1>2
<1>3. ASSUME ftp # NoFtp
      PROVE  ftp \in Sessions /\ Sound(ftp) /\ Refers(ftp) /\ cnt \in Nat /\ n \in Nat /\ cnt <= ftp.counter
  <2>1. ftp \in Sessions /\ Sound(ftp) /\ Refers(ftp)
    BY <1>3, Parts
  <2>2. ftp.counter \in Nat /\ ftp.remain \in {0, 1} /\ CheckMax \in Nat
    BY <2>1, ConstantsAssumption DEF Sessions
  <2> QED BY <2>1, <2>2
<1> HIDE DEF cnt, n
<1>4. ASSUME ftp # NoFtp
      PROVE  f \in Sessions
  BY <1>3, <1>4, Parts, StepSound DEF Sound
<1>5. ASSUME ftp # NoFtp
      PROVE  /\ f.crc = ftp.crc /\ f.mark = ftp.mark /\ f.off = ftp.off
             /\ f.last = ftp.last /\ f.id = ftp.id /\ f.get = ftp.get /\ f.file = ftp.file
             /\ f.read = ftp.read \o Read(ftp, n) /\ f.pos = ftp.pos + n
             /\ f.counter <= ftp.counter
  <2>1. /\ f.crc = ftp.crc /\ f.mark = ftp.mark /\ f.off = ftp.off
        /\ f.last = ftp.last /\ f.id = ftp.id /\ f.get = ftp.get /\ f.file = ftp.file
        /\ f.read = ftp.read \o Read(ftp, n) /\ f.pos = ftp.pos + n
    BY <1>3, <1>5 DEF Sessions
  <2>2. f.counter = ftp.counter - cnt
    BY <1>3, <1>5 DEF Sessions
  <2>3. ftp.counter \in Nat /\ cnt \in Nat
    BY <1>3, <1>5 DEF Sessions
  <2> QED BY <2>1, <2>2, <2>3
<1> HIDE DEF f
<1>6. ASSUME ftp # NoFtp
      PROVE  Counted(f, n)
  BY <1>4, <1>5, <1>6 DEF Counted
<1>7. ASSUME NEW h \in Sessions, NEW d, NEW m, SendOrClose(h, d, m)
      PROVE  Sent(h, d, m)
  BY <1>7, SendEffect DEF Sent
<1>8. CASE ftp # NoFtp /\ f.counter > 0 /\ Keep(f, disk) /\ UNCHANGED <<published, calls, toApp>>
  <2>1. Checked(f, n)
    BY <1>5, <1>6, <1>8 DEF Checked, Keep
  <2> QED BY <1>1, <1>3, <1>8, <2>1
<1>9. CASE /\ ftp # NoFtp /\ f.counter = 0 /\ Matches(f) /\ calls' = calls - 1
           /\ SendOrClose([f EXCEPT !.pos = SizeOf(f.crc)], disk, Rename)
           /\ UNCHANGED published
  <2> DEFINE h == [f EXCEPT !.pos = SizeOf(f.crc)]
  <2>1. f \in Sessions /\ SizeOf(f.crc) \in Nat
    BY <1>4, <1>9, SizeOfType DEF Sessions
  <2>2. /\ h \in Sessions /\ h.pos = SizeOf(h.crc) /\ h.crc = f.crc /\ h.mark = f.mark
        /\ h.off = f.off /\ h.last = f.last /\ h.id = f.id /\ h.get = f.get /\ h.file = f.file
        /\ h.read = f.read /\ h.counter = f.counter
    BY <2>1 DEF Sessions
  <2>3. SendOrClose(h, disk, Rename)
    BY <1>9
  <2> HIDE DEF h
  <2>4. Checked(h, n)
    BY <1>5, <1>6, <1>7, <1>9, <2>2, <2>3 DEF Checked, Counted, Matches
  <2> QED BY <1>1, <1>3, <1>9, <2>4
<1>10. CASE /\ ftp # NoFtp /\ f.counter = 0 /\ calls' = calls - 1
            /\ SendOrClose([f EXCEPT !.file = "none"], Deleted(f, disk), End("crc"))
            /\ published' = Withdrawn(f)
  <2> DEFINE h == [f EXCEPT !.file = "none"]
  <2>1. f \in Sessions
    BY <1>4, <1>10
  <2>2. /\ h \in Sessions /\ h.file = "none" /\ h.crc = f.crc /\ h.mark = f.mark
        /\ h.off = f.off /\ h.last = f.last /\ h.id = f.id /\ h.get = f.get
        /\ h.read = f.read /\ h.counter = f.counter
    BY <2>1 DEF Sessions
  <2>3. Deleted(f, disk) = Deleted(ftp, disk) /\ Withdrawn(f) = Withdrawn(ftp)
    BY <1>5, <1>10 DEF Deleted, Withdrawn
  <2>4. SendOrClose(h, Deleted(ftp, disk), End("crc"))
    BY <1>10, <2>3
  <2> HIDE DEF h
  <2>5. Checked(h, n)
    BY <1>5, <1>6, <1>7, <1>10, <2>2, <2>3, <2>4 DEF Checked, Counted
  <2> QED BY <1>1, <1>3, <1>10, <2>5
<1> QED BY <1>2, <1>8, <1>9, <1>10 DEF Calculate, f, n, cnt

\* A session that is refiled or counted goes on.
LEMMA RefiledOnward ==
  ASSUME LineInv, ftp # NoFtp, NEW k, NEW h, Refiled(h, k), ftp.file = "none" => k = "none"
  PROVE  Onward(h) /\ h.counter = ftp.counter
BY LineParts DEF Refiled, Onward

LEMMA SentKeeps ==
  ASSUME LineInv, IInv', ftp # NoFtp, NEW h, Onward(h), NEW d, NEW m, m.op \in Asking,
         Sent(h, d, m), ~Starting', h.counter > 0 => calls' > 0
  PROVE  LineInv'
<1>1. h \in Sessions /\ h.mark = ftp.mark /\ toApp \in Seq(ToApp)
  BY LineParts DEF Onward
<1>2. CASE toApp' = Append(toApp, m) /\ ftp' = h /\ marks' = marks
  <2>1. Ops(toApp') \cap Asking # {}
    BY <1>1, <1>2, OpsAppend
  <2> QED BY <1>2, <2>1, QuietKeeps DEF Waited
<1>3. CASE Closed(h, d)
  <2>1. \/ h.counter > 0 /\ ftp' = h /\ marks' = marks
        \/ h.counter = 0 /\ ftp' = NoFtp /\ marks' = 0
    BY <1>1, <1>3, LineParts, ClosedOwns
  <2> QED BY <2>1, QuietKeeps DEF Waited
<1> QED BY <1>2, <1>3 DEF Sent

LEMMA RcvRenameRspLine ==
  ASSUME LineInv, IInv', RcvRenameRsp
  PROVE  LineInv'
<1>1. IInv /\ net # << >> /\ Head(net).op = "renameRsp"
  BY LineParts, RcvRenameEffect
<1>2. CASE Reset
  BY <1>1, <1>2, ResetLine
<1>3. CASE /\ net' = Tail(net) /\ UNCHANGED <<calls, app, up>>
           /\ \/ ftp = NoFtp /\ UNCHANGED <<ftp, disk, published, marks, toApp>>
              \/ ftp # NoFtp /\ \E h : RenameAnswered(h)
  <2>1. ~Starting'
    BY <1>1, <1>3, HeadQuiet DEF Starting
  <2>2. CASE ftp = NoFtp /\ UNCHANGED <<ftp, marks>>
    BY <2>1, <2>2, LineParts, QuietKeeps
  <2>3. ASSUME ftp # NoFtp, NEW h, RenameAnswered(h)
        PROVE  LineInv'
    <3>1. ftp.counter > 0 => calls' > 0
      BY <1>3, <2>3, LineParts
    <3>2. Rename.op \in Asking /\ End("none").op \in Asking
      BY DEF Rename, End, Asking
    <3>3. CASE Renames /\ Refiled(h, "final") /\ Sent(h, Absent, End("none"))
      <4>1. Onward(h) /\ h.counter = ftp.counter
        BY <2>3, <3>3, RefiledOnward DEF Renames
      <4> QED BY <2>1, <2>3, <3>1, <3>2, <3>3, <4>1, SentKeeps
    <3>4. CASE Refiled(h, "tmpR") /\ ftp.file # "none" /\ Sent(h, disk, Rename)
      <4>1. Onward(h) /\ h.counter = ftp.counter
        BY <2>3, <3>4, RefiledOnward
      <4> QED BY <2>1, <2>3, <3>1, <3>2, <3>4, <4>1, SentKeeps
    <3>5. CASE Refiled(h, "none") /\ Sent(h, disk, Rename)
      <4>1. Onward(h) /\ h.counter = ftp.counter
        BY <2>3, <3>5, RefiledOnward
      <4> QED BY <2>1, <2>3, <3>1, <3>2, <3>5, <4>1, SentKeeps
    <3>6. CASE Refiled(h, "none") /\ Closed(h, Deleted(ftp, disk))
      <4>1. Onward(h) /\ h.counter = ftp.counter
        BY <2>3, <3>6, RefiledOnward
      <4>2. \/ h.counter > 0 /\ ftp' = h /\ marks' = marks
            \/ h.counter = 0 /\ ftp' = NoFtp /\ marks' = 0
        BY <2>3, <3>6, <4>1, LineParts, ClosedOwns DEF Onward
      <4> QED BY <2>1, <2>3, <3>1, <4>1, <4>2, QuietKeeps DEF Waited
    <3> QED BY <2>3, <3>3, <3>4, <3>5, <3>6 DEF RenameAnswered
  <2> QED BY <1>3, <2>2, <2>3
<1> QED BY <1>1, <1>2, <1>3, RcvRenameEffect

LEMMA CalculateLine ==
  ASSUME LineInv, IInv', Calculate
  PROVE  LineInv'
<1>1. IInv /\ calls > 0 /\ calls - 1 \in Nat /\ UNCHANGED <<net, app, up, starts, losses>>
  BY LineParts, CalculateEffect
<1>2. ~Starting'
  BY <1>1, LineParts DEF Starting
<1>3. CASE ftp = NoFtp /\ UNCHANGED <<ftp, marks>>
  BY <1>2, <1>3, LineParts, QuietKeeps
<1>4. ASSUME ftp # NoFtp, NEW n \in Nat, NEW h, Checked(h, n)
      PROVE  LineInv'
  <2>1. ftp.counter \in Nat /\ ftp.crc = NoFile => ftp.file = "none" /\ ftp.counter = 0
    BY <1>4, LineParts
  <2>2. h.counter \in Nat /\ h.counter <= ftp.counter /\ ftp.counter \in Nat /\ h.crc = ftp.crc
    BY <1>4, LineParts DEF Checked, Counted, Sessions
  <2>3. Onward(h)
    BY <1>4, <2>1, <2>2 DEF Checked, Counted, Onward
  <2>4. Rename.op \in Asking /\ End("crc").op \in Asking
    BY DEF Rename, End, Asking
  <2>5. CASE ftp' = h /\ UNCHANGED <<marks, calls>>
    BY <1>1, <1>2, <1>4, <2>3, <2>5, QuietKeeps DEF Waited
  <2>6. CASE h.counter = 0 /\ Sent(h, disk, Rename)
    BY <1>2, <1>4, <2>3, <2>4, <2>6, SentKeeps
  <2>7. CASE h.counter = 0 /\ Sent(h, Deleted(ftp, disk), End("crc"))
    BY <1>2, <1>4, <2>3, <2>4, <2>7, SentKeeps
  <2> QED BY <1>4, <2>5, <2>6, <2>7 DEF Checked
<1> QED BY <1>1, <1>3, <1>4, CalculateEffect

LEMMA RcvDataLine ==
  ASSUME LineInv, IInv', RcvData
  PROVE  LineInv'
<1>1. /\ IInv /\ net # << >> /\ Head(net).op = "data" /\ net' = Tail(net)
      /\ UNCHANGED <<published, app, up, starts, losses>>
  BY LineParts, RcvDataEffect
<1>2. ~Starting' /\ Ops(net) = Ops(net') \cup {"data"}
  BY <1>1, HeadQuiet, NetTail DEF Starting
<1>3. ASSUME ~Calm, calls' = calls, Ops(toApp) \subseteq Ops(toApp')
      PROVE  Waited'
  BY <1>1, <1>2, <1>3 DEF LineInv, LiveInv, Waited, Ending
<1>4. CASE UNCHANGED <<ftp, disk, calls, marks, toApp>>
  BY <1>2, <1>3, <1>4, LineParts, QuietKeeps
<1>5. ASSUME ftp # NoFtp, ftp.file # "none", NEW h, DataRefused(h)
      PROVE  LineInv'
  <2>1. Onward(h) /\ h.counter = ftp.counter
    BY <1>5, LineParts DEF DataRefused, Same, Onward
  <2>2. PICK why \in {"write", "limit"} : SendOrClose(h, disk, End(why))
    BY <1>5 DEF DataRefused
  <2>3. Sent(h, disk, End(why))
    BY <2>1, <2>2, SendEffect DEF Onward, Sent
  <2>4. End(why).op \in Asking
    BY DEF End, Asking
  <2>5. h.counter > 0 => calls' > 0
    BY <1>5, <2>1, LineParts DEF DataRefused
  <2> QED BY <1>2, <1>5, <2>1, <2>3, <2>4, <2>5, SentKeeps
<1>6. CASE ftp # NoFtp /\ ftp.file # "none" /\ DataZeroth
  <2>1. ftp.crc # NoFile
    BY <1>6, LineParts
  <2>2. Onward(ftp') /\ marks' = marks /\ calls' = calls + 1 /\ calls \in Nat
    BY <1>6, <2>1, LineParts DEF DataZeroth, Onward
  <2> QED BY <1>2, <1>6, <2>2, QuietKeeps DEF Waited
<1>7. CASE ftp # NoFtp /\ ftp.file # "none" /\ DataAppended
  <2>1. ftp.crc # NoFile /\ (ftp.counter > 0 => calls > 0)
    BY <1>7, LineParts
  <2>2. Ops(toApp) \subseteq Ops(toApp') /\ calls' = calls
    BY <1>1, <1>7, OpsAsked DEF DataAppended
  <2>3. Waited'
    BY <1>3, <1>7, <2>1, <2>2, LineParts DEF Calm
  <2>4. CASE ~ftp'.last /\ ftp'.mark = ftp.mark /\ marks' = marks
    <3>1. Onward(ftp')
      BY <1>7, <2>1, <2>4 DEF DataAppended, Onward
    <3> QED BY <1>2, <1>7, <2>1, <2>2, <2>3, <2>4, <3>1, QuietKeeps DEF DataAppended
  <2>5. CASE ftp'.last /\ ~ftp'.mark /\ marks' = MarksLeft(ftp)
    <3>1. /\ ftp' \in Sessions /\ ftp' # NoFtp /\ ftp'.crc = ftp.crc /\ ftp'.counter = ftp.counter
      BY <1>7, AbsenceAssumption DEF DataAppended
    <3>2. marks' = 0
      BY <1>7, <2>5, LineParts DEF MarksLeft
    <3>3. FreshInv' /\ MarkTimerOwned'
      BY <2>1, <2>2, <2>5, <3>1, <3>2 DEF FreshInv, MarkTimerOwned
    <3>4. LiveInv'
      BY <2>3 DEF LiveInv, Waited
    <3>5. \A i \in 1..Len(net') : net'[i].op # "start"
      BY <1>2 DEF Starting, Ops
    <3>6. StartInv'
      BY <1>2, <3>5 DEF StartInv, Starting, Line, Announced
    <3> QED BY <3>3, <3>4, <3>6 DEF LineInv
  <2> QED BY <1>7, <2>4, <2>5 DEF DataAppended
<1> QED BY <1>1, <1>4, <1>5, <1>6, <1>7, RcvDataEffect
-----------------------------------------------------------------------------
(* The line invariant and what follows from it.                             *)

\* The initial state has it.
LEMMA InitLine == Init => LineInv
<1> SUFFICES ASSUME Init PROVE LineInv
  OBVIOUS
<1>1. /\ ftp = NoFtp /\ calls = 0 /\ marks = 0 /\ net = << >> /\ toApp = << >>
      /\ app.st = "idle"
  BY DEF Init
<1>2. ~Starting /\ Calm
  BY <1>1, OpsNone DEF Starting, Calm
<1>3. StartInv
  BY <1>1, <1>2 DEF StartInv, Line, Announced
<1> QED BY <1>1, <1>2, <1>3, InitInv DEF LineInv, FreshInv, LiveInv, MarkTimerOwned

\* Every step keeps it.
LEMMA StepLine ==
  ASSUME "restart" \notin Faults
  PROVE  LineInv /\ [Next]_vars => LineInv'
<1> SUFFICES ASSUME LineInv, [Next]_vars PROVE LineInv'
  OBVIOUS
<1>1. IInv /\ IInv'
  BY LineParts, StepInv
<1>2. CASE UNCHANGED vars
  BY <1>1, <1>2, SameKeeps DEF vars
<1>3. CASE Receive
  BY <1>1, <1>3, RcvPrepareLine, RcvStartLine, RcvDataLine, RcvStopLine,
     RcvRenameRspLine DEF Receive
<1>4. CASE TaskStart
  BY <1>1, <1>4, TaskStartLine
<1>5. CASE Timers
  BY <1>1, <1>5, StartTimeoutLine, GetTimeoutLine, MarkScanLine DEF Timers
<1>6. CASE Calculate
  BY <1>1, <1>6, CalculateLine
<1>7. CASE App
  BY <1>1, <1>7, AppPrepareLine, AppStartLine, AppCancelLine, AppServeLine DEF App
<1>8. CASE Environment
  BY <1>1, <1>8, EnvironmentLine
<1> QED BY <1>2, <1>3, <1>4, <1>5, <1>6, <1>7, <1>8 DEF Next

\* When the app lets one transfer come to rest before the next, a START only
\* meets a session that has received nothing (file_transfer_download_start).
THEOREM LineSafe ==
  ASSUME "restart" \notin Faults
  PROVE  Spec => []LineInv
BY InitLine, StepLine, PTL DEF Spec

\* The mark timer belongs to the running session: START arms one, and every way
\* a session ends takes it along (file_transfer_close, ..._doing).
THEOREM MarkTimerSafe ==
  ASSUME "restart" \notin Faults
  PROVE  Spec => []MarkTimerOwned
<1>1. LineInv => MarkTimerOwned
  BY DEF LineInv
<1> QED BY <1>1, LineSafe, PTL
=============================================================================

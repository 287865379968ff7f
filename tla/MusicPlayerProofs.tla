-------------------------- MODULE MusicPlayerProofs --------------------------
(***************************************************************************)
(* Proofs about MusicPlayer, and the device manager it composes, for any      *)
(* devices, addresses, files and modes.                                     *)
(***************************************************************************)
EXTENDS MusicPlayer, SequenceTheorems, FiniteSetTheorems, TLAPS

\* q holds each member of S once.
Lists(q, S) ==
  /\ q \in Seq(Addr)
  /\ \A i, j \in 1..Len(q) : q[i] = q[j] => i = j
  /\ \A i \in 1..Len(q) : q[i] \in S
  /\ \A a \in S : \E i \in 1..Len(q) : q[i] = a

Entries(n) == {a \in Addr : n[a].st # "free"}
OneEach(n) ==
  /\ \A a \in Addr : n[a].st = "free" <=> n[a].logo = Null
  /\ \A a, b \in Entries(n) : n[a].logo = n[b].logo => a = b

DevInv == node \in Nodes /\ OneEach(node) /\ Lists(list, Entries(node)) /\ Lists(recent, Entries(node))
-----------------------------------------------------------------------------
(* The device manager.                                                      *)

LEMMA AppendLists ==
  ASSUME NEW S \in SUBSET Addr, NEW q, Lists(q, S), NEW a \in Addr, a \notin S
  PROVE  Lists(Append(q, a), S \cup {a})
<1> DEFINE p == Append(q, a)
<1>1. q \in Seq(Addr) /\ Len(q) \in Nat
  BY LenProperties DEF Lists
<1>2. /\ p \in Seq(Addr) /\ Len(p) = Len(q) + 1
      /\ \A i \in 1..Len(q) : p[i] = q[i]
      /\ p[Len(q) + 1] = a
  BY <1>1, AppendProperties
<1> HIDE DEF p
<1>3. \A i \in 1..Len(p) : i \in 1..Len(q) \/ i = Len(q) + 1
  BY <1>1, <1>2
<1>4. \A i \in 1..Len(q) : p[i] \in S /\ p[i] # a /\ i \in 1..Len(p)
  BY <1>1, <1>2 DEF Lists
<1>5. \A i, j \in 1..Len(p) : p[i] = p[j] => i = j
  <2> SUFFICES ASSUME NEW i \in 1..Len(p), NEW j \in 1..Len(p), p[i] = p[j] PROVE i = j
    OBVIOUS
  <2>1. CASE i \in 1..Len(q) /\ j \in 1..Len(q)
    BY <2>1, <1>2 DEF Lists
  <2> QED BY <2>1, <1>2, <1>3, <1>4
<1>6. \A i \in 1..Len(p) : p[i] \in S \cup {a}
  BY <1>2, <1>3, <1>4
<1>7. \A b \in S \cup {a} : \E i \in 1..Len(p) : p[i] = b
  <2> SUFFICES ASSUME NEW b \in S \cup {a} PROVE \E i \in 1..Len(p) : p[i] = b
    OBVIOUS
  <2>1. CASE b \in S
    <3>1. PICK i \in 1..Len(q) : q[i] = b
      BY <2>1 DEF Lists
    <3> QED BY <3>1, <1>2, <1>4
  <2>2. Len(q) + 1 \in 1..Len(p)
    BY <1>1, <1>2
  <2> QED BY <2>1, <2>2, <1>2
<1>8. Lists(p, S \cup {a})
  BY <1>2, <1>5, <1>6, <1>7 DEF Lists
<1> QED BY <1>8 DEF p

LEMMA WithoutLists ==
  ASSUME NEW S \in SUBSET Addr, NEW q, Lists(q, S), NEW a \in S
  PROVE  Lists(Without(q, a), S \ {a})
<1>1. q \in Seq(Addr) /\ Len(q) \in Nat /\ DOMAIN q = 1..Len(q)
  BY LenProperties DEF Lists
<1> DEFINE at == CHOOSE i \in DOMAIN q : q[i] = a
           p == [i \in 1..(Len(q) - 1) |-> IF i < at THEN q[i] ELSE q[i + 1]]
<1>2. \E i \in DOMAIN q : q[i] = a
  BY <1>1 DEF Lists
<1>3. at \in 1..Len(q) /\ q[at] = a
  BY <1>1, <1>2
<1>4. Without(q, a) = p
  BY <1>2 DEF Without
<1> HIDE DEF at
<1> DEFINE m == Len(q) - 1
<1>5. m \in Nat
  BY <1>1, <1>3
<1>6. \A i \in 1..m : q[i] \in Addr /\ q[i + 1] \in Addr /\ i \in 1..Len(q) /\ i + 1 \in 1..Len(q)
  BY <1>1, ElementOfSeq
<1>7. p \in [1..m -> Addr]
  BY <1>6
<1>8. p \in Seq(Addr)
  BY <1>5, <1>7, SeqDef
<1>9. Len(p) = m
  BY <1>5, <1>7, <1>8, LenProperties
<1>10. \A i \in 1..m : p[i] = IF i < at THEN q[i] ELSE q[i + 1]
  OBVIOUS
<1> HIDE DEF p
<1>11. \A i, j \in 1..m : p[i] = p[j] => i = j
  <2> SUFFICES ASSUME NEW i \in 1..m, NEW j \in 1..m, p[i] = p[j] PROVE i = j
    OBVIOUS
  <2>1. \A k, l \in 1..Len(q) : q[k] = q[l] => k = l
    BY DEF Lists
  <2> QED BY <2>1, <1>1, <1>3, <1>6, <1>10
<1>12. \A i \in 1..m : p[i] \in S \ {a}
  <2> SUFFICES ASSUME NEW i \in 1..m PROVE p[i] \in S \ {a}
    OBVIOUS
  <2>1. \A k, l \in 1..Len(q) : q[k] = q[l] => k = l
    BY DEF Lists
  <2>2. \A k \in 1..Len(q) : q[k] \in S
    BY DEF Lists
  <2> QED BY <2>1, <2>2, <1>1, <1>3, <1>6, <1>10
<1>13. \A b \in S \ {a} : \E i \in 1..m : p[i] = b
  <2> SUFFICES ASSUME NEW b \in S \ {a} PROVE \E i \in 1..m : p[i] = b
    OBVIOUS
  <2>1. PICK k \in 1..Len(q) : q[k] = b
    BY DEF Lists
  <2>2. k # at
    BY <2>1, <1>3
  <2>3. CASE k < at
    <3>1. k \in 1..m
      BY <2>3, <1>1, <1>3
    <3> QED BY <3>1, <2>1, <2>3, <1>10
  <2>4. CASE k > at
    <3>1. k - 1 \in 1..m /\ ~(k - 1 < at) /\ (k - 1) + 1 = k
      BY <2>4, <1>1, <1>3
    <3> QED BY <3>1, <2>1, <1>10
  <2> QED BY <2>2, <2>3, <2>4, <1>1, <1>3
<1>14. Lists(p, S \ {a})
  BY <1>8, <1>9, <1>11, <1>12, <1>13 DEF Lists
<1> QED BY <1>4, <1>14

\* A list of S is as long as S is large.
LEMMA ListsLength ==
  ASSUME NEW S \in SUBSET Addr, NEW q, Lists(q, S)
  PROVE  /\ {q[i] : i \in DOMAIN q} = S
         /\ Len(q) = Cardinality({q[i] : i \in DOMAIN q})
<1>1. q \in [1..Len(q) -> Addr] /\ Len(q) \in Nat /\ DOMAIN q = 1..Len(q)
  BY LenProperties DEF Lists
<1>2. {q[i] : i \in DOMAIN q} = S
  BY <1>1 DEF Lists
<1>3. q \in [1..Len(q) -> S]
  BY <1>1 DEF Lists
<1>4. q \in Bijection(1..Len(q), S)
  BY <1>3, <1>1 DEF Lists, Bijection, Injection, Surjection, IsInjective
<1>5. ExistsBijection(1..Len(q), S)
  BY <1>4 DEF ExistsBijection
<1> QED BY <1>1, <1>2, <1>5, FS_CountingElements
-----------------------------------------------------------------------------
LEMMA DevStarts == DevInit => DevInv
<1> SUFFICES ASSUME DevInit PROVE DevInv
  OBVIOUS
<1>1. node \in Nodes /\ OneEach(node) /\ Entries(node) = {}
  BY DEF DevInit, Free, Nodes, Statuses, OneEach, Entries
<1>2. Lists(<<>>, {})
  BY EmptySeq DEF Lists
<1> QED BY <1>1, <1>2 DEF DevInit, DevInv

\* A device is added only if no entry has its name.
LEMMA AddKeeps ==
  ASSUME DevInv, NEW a \in Addr, node[a] = Free, NEW l \in Logos, ~Listed(node, l),
         NEW mounts \in BOOLEAN, AddAt(a, l, mounts)
  PROVE  /\ DevInv'
         /\ \A b \in Addr : b # a => node'[b] = node[b]
         /\ node'[a].logo = l /\ node'[a].st = IF mounts THEN "valid" ELSE "failed"
<1>1. node \in Nodes /\ node[a].st = "free"
  BY DEF DevInv, Free
<1>2. /\ \A b \in Addr : b # a => node'[b] = node[b]
      /\ node'[a].logo = l /\ node'[a].st = IF mounts THEN "valid" ELSE "failed"
  BY <1>1 DEF AddAt, Nodes
<1>3. node' \in Nodes
  BY <1>1 DEF AddAt, Nodes, Statuses
<1>4. Entries(node') = Entries(node) \cup {a} /\ a \notin Entries(node)
  BY <1>1, <1>2 DEF Entries
<1>5. \A b \in Entries(node) : node[b].logo # l
  BY DEF Listed, Entries
<1>6. OneEach(node')
  BY <1>2, <1>4, <1>5, DevAssumption DEF DevInv, OneEach, Entries
<1>7. Entries(node) \in SUBSET Addr
  BY DEF Entries
<1>8. Lists(list', Entries(node')) /\ Lists(recent', Entries(node'))
  <2>1. Lists(list, Entries(node)) /\ Lists(recent, Entries(node))
    BY DEF DevInv
  <2>2. Lists(Append(list, a), Entries(node) \cup {a})
    BY <2>1, <1>4, <1>7, AppendLists
  <2>3. Lists(Append(recent, a), Entries(node) \cup {a})
    BY <2>1, <1>4, <1>7, AppendLists
  <2> QED BY <2>2, <2>3, <1>4 DEF AddAt
<1> QED BY <1>2, <1>3, <1>6, <1>8 DEF DevInv

\* The entry of a name goes, and no other; without one nothing changes.
LEMMA DelKeeps ==
  ASSUME DevInv, NEW l \in Logos, Del(l)
  PROVE  /\ DevInv'
         /\ \A b \in Addr : node[b].logo # l => node'[b] = node[b]
         /\ \A b \in Addr : node[b].logo = l => node'[b] = Free
<1>1. CASE ~Listed(node, l)
  <2>1. UNCHANGED mgr
    BY <1>1 DEF Del
  <2>2. \A b \in Addr : node[b].logo # l
    BY <1>1, DevAssumption DEF Listed, DevInv, OneEach
  <2> QED BY <2>1, <2>2 DEF mgr, DevInv
<1>2. CASE Listed(node, l)
  <2>1. PICK a \in Addr : node[a].st # "free" /\ node[a].logo = l /\ DelAt(a)
    BY <1>2 DEF Del
  <2>2. node \in Nodes /\ a \in Entries(node) /\ Entries(node) \in SUBSET Addr
    BY <2>1 DEF DevInv, Entries
  <2>3. node' = [node EXCEPT ![a] = Free]
    BY <2>1 DEF DelAt
  <2>4. node' \in Nodes /\ node'[a] = Free /\ \A b \in Addr : b # a => node'[b] = node[b]
    BY <2>2, <2>3 DEF Nodes, Statuses, Free
  <2>5. \A b \in Addr : node[b].logo = l => b = a
    BY <2>1, DevAssumption DEF DevInv, OneEach, Entries
  <2>6. Entries(node') = Entries(node) \ {a}
    BY <2>4 DEF Entries, Free
  <2>7. OneEach(node')
    BY <2>4, <2>6 DEF DevInv, OneEach, Entries, Free
  <2>8. Lists(list', Entries(node')) /\ Lists(recent', Entries(node'))
    <3>1. Lists(list, Entries(node)) /\ Lists(recent, Entries(node))
      BY DEF DevInv
    <3>2. Lists(Without(list, a), Entries(node) \ {a})
      BY <2>2, <3>1, WithoutLists
    <3>3. Lists(Without(recent, a), Entries(node) \ {a})
      BY <2>2, <3>1, WithoutLists
    <3> QED BY <2>1, <2>6, <3>2, <3>3 DEF DelAt
  <2> QED BY <2>1, <2>4, <2>5, <2>7, <2>8 DEF DevInv
<1> QED BY <1>1, <1>2

\* An entry that is marked stays an entry, with its name.
LEMMA MarkKeeps ==
  ASSUME DevInv, NEW d, NEW s \in {"failed", "invalid"}, node' = Marked(node, d, s),
         UNCHANGED <<list, recent>>
  PROVE  /\ DevInv'
         /\ \A b \in Addr : node'[b].logo = node[b].logo
         /\ \A b \in Addr : b # d => node'[b] = node[b]
         /\ d \in Mounted(node) => node'[d].st = s
<1>1. CASE d \notin Mounted(node)
  BY <1>1 DEF Marked, DevInv
<1>2. CASE d \in Mounted(node)
  <2>1. node \in Nodes /\ d \in Addr /\ node[d].st # "free"
    BY <1>2 DEF DevInv, Mounted
  <2>2. node' = [node EXCEPT ![d].st = s]
    BY <1>2 DEF Marked
  <2>3. /\ node' \in Nodes /\ node'[d].st = s /\ node'[d].logo = node[d].logo
        /\ \A b \in Addr : b # d => node'[b] = node[b]
    BY <2>1, <2>2 DEF Nodes, Statuses
  <2>4. Entries(node') = Entries(node)
    BY <2>1, <2>3 DEF Entries
  <2>5. OneEach(node')
    BY <2>1, <2>3, <2>4 DEF DevInv, OneEach, Entries
  <2> QED BY <2>3, <2>4, <2>5 DEF DevInv
<1> QED BY <1>1, <1>2

\* The device that is made the active one was in the order before.
LEMMA ActivateKeeps ==
  ASSUME DevInv, NEW d, SetActive(d), UNCHANGED <<node, list>>
  PROVE  DevInv'
<1>1. CASE d \notin Mounted(node)
  BY <1>1 DEF SetActive, DevInv
<1>2. CASE d \in Mounted(node)
  <2> DEFINE S == Entries(node)
  <2>1. d \in S /\ S \in SUBSET Addr /\ d \in Addr
    BY <1>2 DEF Mounted, Entries
  <2>2. Lists(Without(recent, d), S \ {d})
    BY <2>1, WithoutLists DEF DevInv
  <2>3. Lists(Append(Without(recent, d), d), (S \ {d}) \cup {d})
    BY <2>1, <2>2, AppendLists
  <2>4. (S \ {d}) \cup {d} = S
    BY <2>1
  <2>5. Lists(recent', S)
    BY <1>2, <2>3, <2>4 DEF SetActive
  <2> QED BY <2>5 DEF DevInv
<1> QED BY <1>1, <1>2

LEMMA DevStays == ASSUME DevInv, UNCHANGED mgr PROVE DevInv'
BY DEF DevInv, mgr
-----------------------------------------------------------------------------
(* The player.                                                              *)

\* What is scanned (f, unmounted since if s) and played (if on) fits the device d;
\* a file is only selected on a device that was scanned.
Fits(n, d, f, s, on, selects) ==
  /\ d \in Addr \cup {Null} /\ f \in Logos \cup {Null}
  /\ f # Null /\ d \in Mounted(n) => f = n[d].logo /\ ~s
  /\ on => d \in Mounted(n) /\ f = n[d].logo /\ ~s
  /\ selects => d \in Mounted(n) /\ f # Null

PlayInv == Fits(node, dev, fsn, stale, Playing, pc = "select")
Core == DevInv /\ PlayInv /\ BreakDealt

\* How handlers leave the player: as it was, stopped, or for another device.
Stays == /\ UNCHANGED <<dev, fsn>> /\ (stale' => stale)
         /\ (Playing' => Playing) /\ pc' # "select"
Stops == /\ UNCHANGED <<dev, fsn, stale>> /\ dec' = "stop"
         /\ pc' = "select" => dev \in Mounted(node) /\ fsn # Null
Turns == fsn' = Null /\ dec' = "stop" /\ dev' \in Addr \cup {Null} /\ pc' # "select"
Moves == Stays \/ Stops \/ Turns
-----------------------------------------------------------------------------
LEMMA Constants ==
  /\ Null \notin Logos /\ Null \notin Addr
  /\ Music \in Tasks /\ NoTask \notin Tasks
BY DevAssumption, TaskAssumption

LEMMA MoveKeeps ==
  ASSUME PlayInv, UNCHANGED node, Moves
  PROVE  PlayInv'
<1>1. CASE Stays
  BY <1>1 DEF PlayInv, Fits, Stays, Mounted
<1>2. CASE Stops
  BY <1>2 DEF PlayInv, Fits, Stops, Mounted, Playing
<1>3. CASE Turns
  BY <1>3 DEF PlayInv, Fits, Turns, Mounted, Playing
<1> QED BY <1>1, <1>2, <1>3 DEF Moves

-----------------------------------------------------------------------------
LEMMA QuietMoves == Quiet => Moves /\ pc' = "loop"
BY DEF Quiet, Return, Moves, Stays, player, Playing

LEMMA PlayHereMoves == ASSUME NEW sel, PlayHere(sel) PROVE Moves
<1>1. UNCHANGED <<dev, fsn, stale>> /\ dec' = "stop"
  BY DEF PlayHere, StopDecoder, Keep
<1>2. pc' = "select" => dev \in Valid(node) /\ fsn # Null
  BY DEF PlayHere, Fail, Start
<1>3. dev \in Valid(node) => dev \in Mounted(node)
  BY DEF Valid, Mounted
<1> QED BY <1>1, <1>2, <1>3 DEF Moves, Stops

LEMMA PlayOnMoves == ASSUME NEW l, NEW sel, PlayOn(l, sel) PROVE Moves
<1>1. FindSpec(node, l) \in Addr \cup {Null}
  BY DEF FindSpec, Valid
<1>2. fsn' = Null /\ dec' = "stop" /\ dev' = FindSpec(node, l)
  BY DEF PlayOn, StopDecoder, Release
<1>3. pc' # "select"
  BY DEF PlayOn, Fail, Start
<1> QED BY <1>1, <1>2, <1>3 DEF Moves, Turns

LEMMA PlayMoves == ASSUME NEW l, NEW sel, Play(l, sel) PROVE Moves
BY PlayHereMoves, PlayOnMoves DEF Play

LEMMA ResumeMoves == ASSUME NEW l, Resume(l) PROVE Moves
<1>1. PICK sel \in {"first", "bp", "stale"} : Play(l, sel)
  BY DEF Resume
<1> QED BY <1>1, PlayMoves

LEMMA FailMoves == ASSUME NEW e, UNCHANGED player, Fail(e) PROVE Moves
BY DEF Fail, player, Moves, Stays, Playing

\* Whatever key or end of a file is handled.
LEMMA KeyMoves == ASSUME NEW m \in Messages, OnKey(m) PROVE Moves
<1>1. CASE OnStart
  BY <1>1, QuietMoves, ResumeMoves DEF OnStart
<1>2. CASE OnEnd(m)
  <2>1. CASE OnEndNormal
    BY <2>1, PlayOnMoves, PlayHereMoves DEF OnEndNormal
  <2> QED BY <1>2, <2>1, QuietMoves, FailMoves DEF OnEnd
<1>3. CASE OnNext
  BY <1>3, PlayMoves, PlayHereMoves DEF OnNext
<1>4. CASE OnPrev
  BY <1>4, PlayMoves, PlayHereMoves DEF OnPrev
<1>5. CASE OnNextDev
  BY <1>5, QuietMoves, ResumeMoves DEF OnNextDev
<1>6. CASE PlayNumber(LogoOf(node, FindActive(node, recent)))
  BY <1>6, PlayHereMoves, PlayOnMoves DEF PlayNumber
<1>7. CASE OnPP
  BY <1>7 DEF OnPP, Return, Moves, Stays, Playing
<1> QED BY <1>1, <1>2, <1>3, <1>4, <1>5, <1>6, <1>7, PlayHereMoves, FailMoves DEF OnKey
-----------------------------------------------------------------------------
LEMMA InitHolds == Init => Core
<1> SUFFICES ASSUME Init PROVE Core
  OBVIOUS
<1>1. DevInv
  BY DevStarts DEF Init
<1>2. PlayInv
  BY DEF Init, PlayInv, Fits, Playing
<1>3. BreakDealt
  BY DEF Init, BreakDealt
<1> QED BY <1>1, <1>2, <1>3 DEF Core

LEMMA TakeKeyHolds == Core /\ TakeKey => Core'
<1> SUFFICES ASSUME Core, TakeKey PROVE Core'
  OBVIOUS
<1>1. PICK m \in Messages : Taken(m) /\ OnKey(m)
  BY DEF TakeKey
<1>2. UNCHANGED mgr /\ UNCHANGED brk
  BY DEF TakeKey
<1>3. DevInv'
  BY <1>2, DevStays DEF Core
<1>4. PlayInv'
  BY <1>1, <1>2, KeyMoves, MoveKeeps DEF Core, mgr
<1>5. ~brk'
  BY <1>1, <1>2 DEF Core, BreakDealt, Taken
<1> QED BY <1>3, <1>4, <1>5 DEF Core, BreakDealt

LEMMA TakeSwitchHolds == Core /\ TakeSwitch => Core'
<1> SUFFICES ASSUME Core, TakeSwitch PROVE Core'
  OBVIOUS
<1>1. pc = "loop" /\ UNCHANGED mgr /\ UNCHANGED player /\ UNCHANGED brk
  BY DEF TakeSwitch, Taken, counters
<1>2. pc' # "select"
  BY DEF TakeSwitch, Leave, Return
<1>3. Stays
  BY <1>1, <1>2 DEF Stays, player, Playing
<1>4. PlayInv'
  BY <1>1, <1>3, MoveKeeps DEF Core, Moves, mgr
<1>5. ~brk'
  BY <1>1 DEF Core, BreakDealt
<1> QED BY <1>1, <1>4, <1>5, DevStays DEF Core, BreakDealt

LEMMA TakeCallHolds == Core /\ TakeCall => Core'
<1> SUFFICES ASSUME Core, TakeCall PROVE Core'
  OBVIOUS
<1>1. pc = "loop" /\ pc' = "exit" /\ UNCHANGED mgr /\ UNCHANGED player /\ UNCHANGED brk
  BY DEF TakeCall, Taken, Leave, counters
<1>2. Stays
  BY <1>1 DEF Stays, player, Playing
<1>3. PlayInv'
  BY <1>1, <1>2, MoveKeeps DEF Core, Moves, mgr
<1>4. ~brk'
  BY <1>1 DEF Core, BreakDealt
<1> QED BY <1>1, <1>3, <1>4, DevStays DEF Core, BreakDealt

LEMMA TakeInHolds == Core /\ TakeIn => Core'
<1> SUFFICES ASSUME Core, TakeIn PROVE Core'
  OBVIOUS
<1>1. pc = "loop" /\ UNCHANGED brk
  BY DEF TakeIn, Taken, counters
<1>2. ~brk'
  BY <1>1 DEF Core, BreakDealt
<1>3. PICK l \in Logos : StaysOut(l) \/ ComesInvalid(l) \/ ComesIn(l)
  BY DEF TakeIn
<1>4. CASE StaysOut(l)
  <2>1. Quiet /\ UNCHANGED mgr
    BY <1>4 DEF StaysOut
  <2>2. PlayInv'
    BY <2>1, QuietMoves, MoveKeeps DEF Core, mgr
  <2> QED BY <1>2, <2>1, <2>2, DevStays DEF Core, BreakDealt
<1>5. CASE ComesInvalid(l) \/ ComesIn(l)
  <2>1. PICK a \in Addr, mounts \in BOOLEAN :
          /\ ~Listed(node, l) /\ node[a] = Free /\ AddAt(a, l, mounts)
          /\ mounts => StopDecoder /\ Release /\ UNCHANGED dev /\ pc' # "select"
          /\ ~mounts => Quiet
    <3>1. CASE ComesInvalid(l)
      BY <3>1 DEF ComesInvalid
    <3>2. CASE ComesIn(l)
      BY <3>2 DEF ComesIn, Leave, Return
    <3> QED BY <1>5, <3>1, <3>2
  <2>2. /\ DevInv'
        /\ \A b \in Addr : b # a => node'[b] = node[b]
        /\ node'[a].st = IF mounts THEN "valid" ELSE "failed"
    BY <2>1, AddKeeps DEF Core
  <2>3. ASSUME mounts PROVE PlayInv'
    BY <2>1, <2>3 DEF PlayInv, Fits, Core, StopDecoder, Release, Playing
  <2>4. ASSUME ~mounts PROVE PlayInv'
    <3>1. Stays
      BY <2>1, <2>4 DEF Quiet, Return, player, Stays, Playing
    <3>2. \A b \in Addr : b \in Mounted(node)' <=> b \in Mounted(node)
      BY <2>1, <2>2, <2>4 DEF Mounted, Free
    <3>3. \A b \in Mounted(node) : b \in Addr /\ node'[b] = node[b]
      BY <2>1, <2>2 DEF Mounted, Free
    <3>4. dev \in Mounted(node)' => dev \in Mounted(node)
      BY <3>2 DEF Mounted
    <3>5. dev \in Mounted(node) => dev \in Mounted(node)' /\ node'[dev] = node[dev]
      BY <3>2, <3>3
    <3> QED BY <3>1, <3>4, <3>5 DEF PlayInv, Fits, Core, Stays, Mounted
  <2> QED BY <1>2, <2>2, <2>3, <2>4 DEF Core, BreakDealt
<1> QED BY <1>3, <1>4, <1>5

LEMMA TakeOutHolds == Core /\ TakeOut => Core'
<1> SUFFICES ASSUME Core, TakeOut PROVE Core'
  OBVIOUS
<1>1. pc = "loop" /\ pc' = "loop" /\ UNCHANGED brk /\ UNCHANGED dev
  BY DEF TakeOut, Taken, Return, counters
<1>2. ~brk'
  BY <1>1 DEF Core, BreakDealt
<1>3. PICK l \in Logos :
        /\ Del(l)
        /\ LogoOf(node, dev) = l => StopDecoder /\ Release
        /\ LogoOf(node, dev) # l =>
             /\ stale' = (stale \/ (Listed(node, l) /\ \E a \in Addr : node[a].logo = l /\ Lost(a)))
             /\ UNCHANGED <<fsn, cur, dec, ended>>
  BY DEF TakeOut
<1>4. /\ DevInv'
      /\ \A b \in Addr : node[b].logo # l => node'[b] = node[b]
      /\ \A b \in Addr : node[b].logo = l => node'[b] = Free
  BY <1>3, DelKeeps DEF Core
<1>5. ASSUME LogoOf(node, dev) = l PROVE PlayInv'
  BY <1>1, <1>3, <1>5 DEF PlayInv, Fits, Core, StopDecoder, Release, Playing
<1>6. ASSUME LogoOf(node, dev) # l PROVE PlayInv'
  <2>1. dev \in Mounted(node)' => dev \in Mounted(node)
    BY <1>1, <1>4 DEF Mounted, Free
  <2>2. dev \in Mounted(node) => dev \in Addr /\ node[dev].logo # l
    BY <1>6 DEF LogoOf, Mounted
  <2>3. dev \in Mounted(node) => node'[dev] = node[dev]
    BY <1>4, <2>2
  <2>4. dev \in Mounted(node) => ~\E a \in Addr : node[a].logo = l /\ Lost(a)
    BY <2>2 DEF Lost
  <2>5. dev \in Mounted(node) /\ ~stale => ~stale'
    BY <1>3, <1>6, <2>4
  <2>6. fsn' = fsn /\ dec' = dec
    BY <1>3, <1>6
  <2> QED BY <1>1, <2>1, <2>2, <2>3, <2>5, <2>6 DEF PlayInv, Fits, Core, Playing, Mounted
<1> QED BY <1>2, <1>4, <1>5, <1>6 DEF Core, BreakDealt

LEMMA PollHolds == Core /\ Poll => Core'
<1> SUFFICES ASSUME Core, Poll PROVE Core'
  OBVIOUS
<1>1. UNCHANGED <<dev, fsn, stale>> /\ (Playing' <=> Playing)
  BY DEF Poll, player, Playing
<1>2. PICK m \in Messages :
        /\ pc \in {"scan", "select"}
        /\ IF Breaks(m)
           THEN /\ brk' = TRUE /\ Fail(IF pc = "scan" THEN "FSCAN" ELSE "FILE_NOFOUND")
                /\ UNCHANGED mgr
           ELSE /\ IF m.k = "OUT" THEN Del(m.l) ELSE UNCHANGED mgr
                /\ UNCHANGED <<pc, job, err, brk>>
  BY DEF Poll
<1>3. CASE Breaks(m)
  <2>1. Stays
    BY <1>1, <1>2, <1>3 DEF Stays, Fail
  <2>2. BreakDealt'
    BY <1>2, <1>3 DEF BreakDealt, Fail
  <2> QED BY <1>2, <1>3, <2>1, <2>2, DevStays, MoveKeeps DEF Core, Moves, mgr
<1>4. CASE ~Breaks(m) /\ m.k = "OUT"
  <2>1. m.l \in Logos
    BY <1>4 DEF Messages, Key, In, Out, End, Keys
  <2>2. /\ DevInv'
        /\ \A b \in Addr : node[b].logo # m.l => node'[b] = node[b]
        /\ \A b \in Addr : node[b].logo = m.l => node'[b] = Free
    BY <1>2, <1>4, <2>1, DelKeeps DEF Core
  <2>3. LogoOf(node, dev) # m.l
    BY <1>4 DEF Breaks
  <2>4. dev \in Mounted(node)' => dev \in Mounted(node)
    BY <1>1, <2>2 DEF Mounted, Free
  <2>5. dev \in Mounted(node) => dev \in Addr /\ node'[dev] = node[dev] /\ dev \in Mounted(node)'
    BY <1>1, <2>2, <2>3 DEF LogoOf, Mounted
  <2>6. PlayInv'
    BY <1>1, <1>2, <1>4, <2>4, <2>5 DEF PlayInv, Fits, Core, Mounted
  <2> QED BY <1>2, <1>4, <2>2, <2>6 DEF Core, BreakDealt
<1>5. CASE ~Breaks(m) /\ m.k # "OUT"
  <2>1. UNCHANGED mgr /\ UNCHANGED <<pc, err, brk>>
    BY <1>2, <1>5
  <2>2. PlayInv'
    BY <1>1, <2>1 DEF PlayInv, Fits, Core, Mounted, mgr
  <2> QED BY <2>1, <2>2, DevStays DEF Core, BreakDealt
<1> QED BY <1>3, <1>4, <1>5

\* The device that is scanned is present, so it has a name.
LEMMA ScanDoneHolds == Core /\ port \in SUBSET Logos /\ ScanDone => Core'
<1> SUFFICES ASSUME Core, port \in SUBSET Logos, ScanDone PROVE Core'
  OBVIOUS
<1>1. pc = "scan" /\ UNCHANGED mgr /\ UNCHANGED <<dev, dec, brk>>
  BY DEF ScanDone, counters
<1> DEFINE l == LogoOf(node, dev)
<1>2. BreakDealt'
  BY <1>1 DEF Core, BreakDealt
<1>3. ASSUME ~(l \in port /\ Files[l] > 0) PROVE PlayInv'
  <2>1. UNCHANGED <<fsn, stale>> /\ pc' # "select"
    BY <1>3 DEF ScanDone, Keep, Fail
  <2> QED BY <1>1, <2>1, MoveKeeps DEF Core, Moves, Stays, mgr, Playing
<1>4. ASSUME l \in port PROVE dev \in Mounted(node) /\ l \in Logos /\ l # Null /\ l = node[dev].logo
  BY <1>4, Constants DEF LogoOf
<1>5. ASSUME l \in port /\ Files[l] > 0 PROVE PlayInv'
  <2>1. fsn' = l /\ stale' = FALSE
    BY <1>5 DEF ScanDone
  <2>2. dev \in Mounted(node)' /\ l = node'[dev].logo /\ l \in Logos /\ l # Null
    BY <1>1, <1>4, <1>5 DEF mgr, Mounted
  <2> QED BY <1>1, <2>1, <2>2 DEF Core, PlayInv, Fits, Playing
<1> QED BY <1>1, <1>2, <1>3, <1>5, DevStays DEF Core

\* A file is played on the device that was scanned.
LEMMA SelectDoneHolds == Core /\ SelectDone => Core'
<1> SUFFICES ASSUME Core, SelectDone PROVE Core'
  OBVIOUS
<1>1. pc = "select" /\ UNCHANGED <<node, list, dev, fsn, stale, brk>>
  BY DEF SelectDone
<1>2. SetActive(dev) \/ UNCHANGED recent
  BY DEF SelectDone
<1>3. DevInv'
  BY <1>1, <1>2, ActivateKeeps, DevStays DEF Core, mgr
<1>4. pc' # "select"
  BY DEF SelectDone, Return, Fail
<1>5. PlayInv'
  BY <1>1, <1>4 DEF Core, PlayInv, Fits, Mounted
<1>6. ~brk'
  BY <1>1 DEF Core, BreakDealt
<1> QED BY <1>3, <1>5, <1>6 DEF Core, BreakDealt

\* A flag that was set is met by the branch for broken scans.
LEMMA ErrDealHolds == Core /\ ErrDeal => Core'
<1> SUFFICES ASSUME Core, ErrDeal PROVE Core'
  OBVIOUS
<1>1. pc' = "loop" /\ UNCHANGED <<list, recent>>
  BY DEF ErrDeal, Return
<1>2. CASE DealDecode
  <2>1. UNCHANGED <<dev, fsn, stale, dec, brk>> /\ ~brk
    BY <1>2 DEF DealDecode, player, Core, BreakDealt
  <2>2. (node' = Marked(node, dev, "invalid")) \/ (node' = node)
    BY <1>2 DEF DealDecode
  <2>3. DevInv'
    BY <1>1, <2>2, MarkKeeps, DevStays DEF Core, mgr
  <2>4. ASSUME NEW b \in Addr
        PROVE node'[b].logo = node[b].logo /\ (b \in Mounted(node)' <=> b \in Mounted(node))
    <3>1. CASE node' = node
      BY <3>1 DEF Mounted
    <3>2. CASE node' = Marked(node, dev, "invalid")
      <4>1. /\ node'[b].logo = node[b].logo /\ (b # dev => node'[b] = node[b])
            /\ dev \in Mounted(node) => node'[dev].st = "invalid"
        BY <1>1, <3>2, MarkKeeps DEF Core
      <4>2. CASE dev \notin Mounted(node)
        BY <3>2, <4>1, <4>2 DEF Marked, Mounted
      <4> QED BY <4>1, <4>2 DEF Mounted
    <3> QED BY <2>2, <3>1, <3>2
  <2>5. dev \in Mounted(node)' <=> dev \in Mounted(node)
    BY <2>1, <2>4 DEF Mounted
  <2>6. dev \in Mounted(node) => node'[dev].logo = node[dev].logo
    BY <2>4 DEF Mounted
  <2>7. PlayInv'
    BY <1>1, <2>1, <2>5, <2>6 DEF Core, PlayInv, Fits, Playing
  <2> QED BY <2>1, <2>3, <2>7 DEF Core, BreakDealt
<1>3. CASE DealBreak
  <2>1. UNCHANGED mgr /\ Stays /\ ~brk'
    BY <1>1, <1>3 DEF DealBreak, player, Stays, mgr, Playing
  <2> QED BY <2>1, MoveKeeps, DevStays DEF Core, BreakDealt, Moves, mgr
<1>4. CASE DealDevice
  <2>1. ~brk' /\ UNCHANGED <<dev, fsn>>
    BY <1>4 DEF DealDevice, Core, BreakDealt
  <2>2. ASSUME dev \notin Valid(node) PROVE Core'
    <3>1. UNCHANGED mgr /\ dec' = dec /\ (stale' => stale)
      BY <1>1, <1>4, <2>2 DEF DealDevice, mgr
    <3>2. PlayInv'
      BY <1>1, <2>1, <3>1, MoveKeeps DEF Core, Moves, Stays, mgr, Playing
    <3> QED BY <2>1, <3>1, <3>2, DevStays DEF Core, BreakDealt
  <2>3. ASSUME dev \in Valid(node) PROVE Core'
    <3> DEFINE s == IF err = "FSCAN" THEN "invalid" ELSE "failed"
    <3>1. /\ node' = Marked(node, dev, s) /\ dec' = "stop"
          /\ stale' = (stale \/ (err # "FSCAN" /\ fsn # Null))
      BY <1>4, <2>3 DEF DealDevice, StopDecoder
    <3>2. s \in {"failed", "invalid"} /\ dev \in Mounted(node) /\ dev \in Addr
      BY <2>3 DEF Valid, Mounted
    <3>3. DevInv' /\ node'[dev].logo = node[dev].logo /\ node'[dev].st = s
      BY <1>1, <3>1, <3>2, MarkKeeps DEF Core
    <3>4. dev \in Mounted(node)' => err = "FSCAN"
      BY <2>1, <3>3 DEF Mounted
    <3>5. PlayInv'
      BY <1>1, <2>1, <3>1, <3>2, <3>3, <3>4 DEF Core, PlayInv, Fits, Playing
    <3> QED BY <2>1, <3>3, <3>5 DEF Core, BreakDealt
  <2> QED BY <2>2, <2>3
<1>5. CASE DealOther
  <2>1. UNCHANGED mgr /\ Stays /\ brk' = brk
    BY <1>1, <1>5 DEF DealOther, player, Stays, mgr, Playing
  <2>2. ~brk'
    BY <1>5, <2>1 DEF DealOther, Core, BreakDealt
  <2> QED BY <2>1, <2>2, MoveKeeps, DevStays DEF Core, BreakDealt, Moves, mgr
<1> QED BY <1>2, <1>3, <1>4, <1>5 DEF ErrDeal

LEMMA ExitHolds == Core /\ Exit => Core'
<1> SUFFICES ASSUME Core, Exit PROVE Core'
  OBVIOUS
<1>1. UNCHANGED mgr /\ Turns /\ ~brk'
  BY DEF Exit, Turns, Release, StopDecoder, Return
<1> QED BY <1>1, MoveKeeps, DevStays DEF Core, BreakDealt, Moves, mgr

\* The tone, the decoder, the devices and the user only post messages.
LEMMA PostsHold ==
  Core /\ (ToneEnd \/ PassOver \/ FileEnds \/ Plug \/ Detect \/ Press) => Core'
<1> SUFFICES ASSUME Core, ToneEnd \/ PassOver \/ FileEnds \/ Plug \/ Detect \/ Press PROVE Core'
  OBVIOUS
<1>1. UNCHANGED mgr /\ UNCHANGED <<dev, fsn, stale, dec, pc, err, brk>>
  BY DEF ToneEnd, PassOver, FileEnds, Plug, Detect, Press, player, counters
<1>2. PlayInv'
  BY <1>1 DEF Core, PlayInv, Fits, Playing, Mounted, mgr
<1> QED BY <1>1, <1>2, DevStays DEF Core, BreakDealt
-----------------------------------------------------------------------------
(* The order of activity.                                                   *)

\* No valid entry was active after d.
Top(q, n, d) == \A i, j \in 1..Len(q) : q[i] = d /\ q[j] \in Valid(n) => j <= i
ActiveInv == Playing /\ dev \in Valid(node) => Top(recent, node, dev)

\* An entry that goes leaves the others in their order.
LEMMA WithoutTop ==
  ASSUME NEW S \in SUBSET Addr, NEW q, Lists(q, S), NEW a \in S, NEW d, NEW n, NEW m,
         Valid(m) \subseteq Valid(n), Top(q, n, d)
  PROVE  Top(Without(q, a), m, d)
<1>1. q \in Seq(Addr) /\ Len(q) \in Nat /\ DOMAIN q = 1..Len(q)
  BY LenProperties DEF Lists
<1> DEFINE at == CHOOSE i \in DOMAIN q : q[i] = a
           p == [i \in 1..(Len(q) - 1) |-> IF i < at THEN q[i] ELSE q[i + 1]]
<1>2. \E i \in DOMAIN q : q[i] = a
  BY <1>1 DEF Lists
<1>3. at \in 1..Len(q)
  BY <1>1, <1>2
<1>4. Without(q, a) = p
  BY <1>2 DEF Without
<1> HIDE DEF at
<1> DEFINE l == Len(q) - 1
<1>5. l \in Nat
  BY <1>1, <1>3
<1>6. \A i \in 1..l : q[i] \in Addr /\ q[i + 1] \in Addr
  BY <1>1, ElementOfSeq
<1>7. p \in Seq(Addr)
  <2>1. p \in [1..l -> Addr]
    BY <1>6
  <2> QED BY <1>5, <2>1, SeqDef
<1>8. DOMAIN p = 1..Len(p) /\ DOMAIN p = 1..l
  BY <1>7, LenProperties
<1>9. \A i \in 1..l : p[i] = IF i < at THEN q[i] ELSE q[i + 1]
  OBVIOUS
<1> HIDE DEF p
<1>10. ASSUME NEW i \in 1..Len(p), NEW j \in 1..Len(p), p[i] = d, p[j] \in Valid(m)
       PROVE  j <= i
  <2> DEFINE k == IF i < at THEN i ELSE i + 1
             h == IF j < at THEN j ELSE j + 1
  <2>1. i \in 1..l /\ j \in 1..l
    BY <1>8
  <2>2. k \in 1..Len(q) /\ h \in 1..Len(q)
    BY <2>1, <1>1, <1>3
  <2>3. q[k] = d /\ q[h] \in Valid(n)
    BY <2>1, <1>9, <1>10
  <2>4. h <= k
    BY <2>2, <2>3 DEF Top
  <2> QED BY <2>1, <2>4, <1>3, <1>1
<1> QED BY <1>4, <1>10 DEF Top

\* An entry that does not mount may be the latest.
LEMMA AppendTop ==
  ASSUME NEW q \in Seq(Addr), NEW a \in Addr, NEW d, a # d, NEW n, NEW m, a \notin Valid(m),
         Valid(m) \subseteq Valid(n), Top(q, n, d)
  PROVE  Top(Append(q, a), m, d)
<1> DEFINE p == Append(q, a)
<1>1. /\ Len(q) \in Nat /\ Len(p) = Len(q) + 1
      /\ \A i \in 1..Len(q) : p[i] = q[i]
      /\ p[Len(q) + 1] = a
  BY AppendProperties, LenProperties
<1> HIDE DEF p
<1>2. ASSUME NEW i \in 1..Len(p), NEW j \in 1..Len(p), p[i] = d, p[j] \in Valid(m)
      PROVE  j <= i
  <2>1. i \in 1..Len(q) /\ j \in 1..Len(q)
    BY <1>1, <1>2
  <2>2. q[i] = d /\ q[j] \in Valid(n)
    BY <2>1, <1>1, <1>2
  <2> QED BY <2>1, <2>2 DEF Top
<1> QED BY <1>2 DEF Top, p

\* dev_manager_set_active
LEMMA ActivatedTop ==
  ASSUME NEW S \in SUBSET Addr, NEW q, Lists(q, S), NEW d \in S, NEW n
  PROVE  Top(Append(Without(q, d), d), n, d)
<1> DEFINE r == Without(q, d)
           p == Append(r, d)
<1>1. Lists(r, S \ {d})
  BY WithoutLists
<1>2. r \in Seq(Addr) /\ d \in Addr
  BY <1>1 DEF Lists
<1>3. Lists(p, (S \ {d}) \cup {d})
  BY <1>1, <1>2, AppendLists
<1>4. Len(r) \in Nat /\ Len(p) = Len(r) + 1 /\ p[Len(r) + 1] = d
  BY <1>2, AppendProperties, LenProperties
<1> HIDE DEF p
<1>5. ASSUME NEW i \in 1..Len(p), NEW j \in 1..Len(p), p[i] = d PROVE j <= i
  <2>1. Len(r) + 1 \in 1..Len(p)
    BY <1>4
  <2>2. i = Len(r) + 1
    BY <2>1, <1>3, <1>4, <1>5 DEF Lists
  <2> QED BY <2>2, <1>4
<1> QED BY <1>5 DEF Top, p

\* dev_manager_find_active finds it.
LEMMA TopIsActive ==
  ASSUME NEW S \in SUBSET Addr, NEW q, Lists(q, S), NEW n, NEW d \in S, d \in Valid(n), Top(q, n, d)
  PROVE  FindActive(n, q) = d
<1> DEFINE L == Len(q)
           t == Turn(q)
<1>1. q \in Seq(Addr) /\ L \in Nat /\ DOMAIN q = 1..L
  BY LenProperties DEF Lists
<1>2. DOMAIN t = 1..L /\ \A i \in 1..L : t[i] = q[L + 1 - i]
  BY <1>1 DEF Turn
<1> HIDE DEF t
<1>3. PICK k \in 1..L : q[k] = d
  BY DEF Lists
<1>4. L + 1 - k \in 1..L /\ t[L + 1 - k] = d
  <2>1. L + 1 - k \in 1..L /\ L + 1 - (L + 1 - k) = k
    BY <1>1
  <2> QED BY <2>1, <1>2, <1>3
<1>5. IsFirst(n, t, L + 1 - k)
  <2>1. ASSUME NEW j \in 1..L, j < L + 1 - k PROVE t[j] \notin Valid(n)
    <3>1. L + 1 - j \in 1..L /\ ~(L + 1 - j <= k)
      BY <1>1, <2>1
    <3>2. q[L + 1 - j] \notin Valid(n)
      BY <3>1, <1>3 DEF Top
    <3> QED BY <3>2, <1>2
  <2> QED BY <2>1, <1>2, <1>4 DEF IsFirst
<1>6. ASSUME NEW i \in DOMAIN t, IsFirst(n, t, i) PROVE t[i] = d
  <2>1. ~(i < L + 1 - k)
    BY <1>5, <1>6 DEF IsFirst
  <2>2. ~(L + 1 - k < i)
    BY <1>2, <1>4, <1>6 DEF IsFirst
  <2>3. i = L + 1 - k
    BY <2>1, <2>2, <1>1, <1>2
  <2> QED BY <2>3, <1>4
<1>7. \E i \in DOMAIN t : IsFirst(n, t, i)
  BY <1>2, <1>4, <1>5
<1>8. FirstValid(n, t) = d
  BY <1>6, <1>7 DEF FirstValid
<1> QED BY <1>8 DEF FindActive, t

LEMMA MoveActive == ASSUME ActiveInv, UNCHANGED mgr, Moves PROVE ActiveInv'
<1>1. CASE Stays
  BY <1>1 DEF ActiveInv, Stays, mgr, Top, Valid
<1>2. CASE Stops \/ Turns
  BY <1>2 DEF ActiveInv, Stops, Turns, Playing
<1> QED BY <1>1, <1>2 DEF Moves

LEMMA DelActive ==
  ASSUME DevInv, NEW l \in Logos, Del(l), NEW d, Top(recent, node, d)
  PROVE  Valid(node') \subseteq Valid(node) /\ Top(recent', node', d)
<1>1. Valid(node') \subseteq Valid(node)
  <2>1. /\ \A b \in Addr : node[b].logo # l => node'[b] = node[b]
        /\ \A b \in Addr : node[b].logo = l => node'[b] = Free
    BY DelKeeps
  <2> QED BY <2>1 DEF Valid, Free
<1>2. CASE ~Listed(node, l)
  BY <1>2 DEF Del, mgr
<1>3. CASE Listed(node, l)
  <2>1. PICK a \in Entries(node) : recent' = Without(recent, a)
    BY <1>3 DEF Del, DelAt, Entries
  <2>2. Lists(recent, Entries(node)) /\ Entries(node) \in SUBSET Addr
    BY DEF DevInv, Entries
  <2>3. Top(Without(recent, a), node', d)
    BY <2>1, <2>2, <1>1, WithoutTop
  <2> QED BY <2>1, <2>3, <1>1
<1> QED BY <1>1, <1>2, <1>3

LEMMA TakeInActive == Core /\ ActiveInv /\ TakeIn => ActiveInv'
<1> SUFFICES ASSUME Core, ActiveInv, TakeIn PROVE ActiveInv'
  OBVIOUS
<1>1. PICK l \in Logos : StaysOut(l) \/ ComesInvalid(l) \/ ComesIn(l)
  BY DEF TakeIn
<1>2. CASE StaysOut(l)
  BY <1>2, QuietMoves, MoveActive DEF StaysOut
<1>3. CASE ComesInvalid(l) \/ ComesIn(l)
  <2>1. PICK a \in Addr, mounts \in BOOLEAN :
          /\ ~Listed(node, l) /\ node[a] = Free /\ AddAt(a, l, mounts)
          /\ mounts => StopDecoder
          /\ ~mounts => Quiet
    <3>1. CASE ComesInvalid(l)
      BY <3>1 DEF ComesInvalid
    <3>2. CASE ComesIn(l)
      BY <3>2 DEF ComesIn
    <3> QED BY <1>3, <3>1, <3>2
  <2>2. CASE mounts
    BY <2>1, <2>2 DEF ActiveInv, StopDecoder, Playing
  <2>3. CASE ~mounts
    <3>1. (\A b \in Addr : b # a => node'[b] = node[b]) /\ node'[a].st = "failed"
      BY <2>1, <2>3, AddKeeps DEF Core
    <3>2. a \notin Valid(node') /\ Valid(node') \subseteq Valid(node)
      BY <3>1 DEF Valid
    <3>3. recent' = Append(recent, a) /\ recent \in Seq(Addr)
      BY <2>1 DEF AddAt, Core, DevInv, Lists
    <3>4. dev' = dev /\ dec' = dec
      BY <2>1, <2>3 DEF Quiet, player
    <3>5. ASSUME Playing', dev \in Valid(node') PROVE Top(recent', node', dev)
      <4>1. dev \in Valid(node) /\ dev # a /\ Playing
        BY <3>2, <3>4, <3>5 DEF Playing
      <4>2. Top(recent, node, dev)
        BY <4>1 DEF ActiveInv
      <4> QED BY <3>2, <3>3, <4>1, <4>2, AppendTop
    <3> QED BY <3>4, <3>5 DEF ActiveInv, Top, Valid
  <2> QED BY <2>2, <2>3
<1> QED BY <1>1, <1>2, <1>3

LEMMA DelOnlyActive ==
  ASSUME DevInv, ActiveInv, NEW l \in Logos, Del(l), UNCHANGED <<dev, dec>>
  PROVE  ActiveInv'
<1>1. ASSUME Playing, dev \in Valid(node') PROVE Top(recent', node', dev)
  <2>1. Valid(node') \subseteq Valid(node)
    <3>1. /\ \A b \in Addr : node[b].logo # l => node'[b] = node[b]
          /\ \A b \in Addr : node[b].logo = l => node'[b] = Free
      BY DelKeeps
    <3> QED BY <3>1 DEF Valid, Free
  <2>2. Top(recent, node, dev)
    BY <1>1, <2>1 DEF ActiveInv
  <2> QED BY <2>2, DelActive
<1> QED BY <1>1 DEF ActiveInv, Top, Valid, Playing

LEMMA TakeOutActive == Core /\ ActiveInv /\ TakeOut => ActiveInv'
<1> SUFFICES ASSUME Core, ActiveInv, TakeOut PROVE ActiveInv'
  OBVIOUS
<1>1. PICK l \in Logos : Del(l) /\ dev' = dev /\ (StopDecoder \/ dec' = dec)
  BY DEF TakeOut
<1>2. CASE StopDecoder
  BY <1>2 DEF ActiveInv, StopDecoder, Playing
<1>3. CASE dec' = dec
  BY <1>1, <1>3, DelOnlyActive DEF Core
<1> QED BY <1>1, <1>2, <1>3

LEMMA PollActive == Core /\ ActiveInv /\ Poll => ActiveInv'
<1> SUFFICES ASSUME Core, ActiveInv, Poll PROVE ActiveInv'
  OBVIOUS
<1>1. UNCHANGED <<dev, dec>>
  BY DEF Poll, player
<1>2. PICK m \in Messages : UNCHANGED mgr \/ (m.k = "OUT" /\ Del(m.l))
  BY DEF Poll
<1>3. CASE UNCHANGED mgr
  BY <1>1, <1>3 DEF ActiveInv, mgr, Top, Valid, Playing
<1>4. CASE m.k = "OUT" /\ Del(m.l)
  <2>1. m.l \in Logos
    BY <1>4 DEF Messages, Key, In, Out, End, Keys
  <2> QED BY <1>1, <1>4, <2>1, DelOnlyActive DEF Core
<1> QED BY <1>2, <1>3, <1>4

\* The device whose file starts becomes the latest; one whose file does not start stops.
LEMMA SelectDoneActive == Core /\ ActiveInv /\ SelectDone => ActiveInv'
<1> SUFFICES ASSUME Core, ActiveInv, SelectDone PROVE ActiveInv'
  OBVIOUS
<1>1. dev \in Mounted(node) /\ UNCHANGED <<node, dev>>
  BY DEF SelectDone, Core, PlayInv, Fits
<1>2. dec' = "stop" \/ SetActive(dev) \/ UNCHANGED <<recent, dec>>
  BY DEF SelectDone
<1>3. CASE dec' = "stop"
  BY <1>3 DEF ActiveInv, Playing
<1>4. CASE SetActive(dev)
  <2>1. dev \in Entries(node) /\ Entries(node) \in SUBSET Addr /\ Lists(recent, Entries(node))
    BY <1>1 DEF Entries, Mounted, Core, DevInv
  <2>2. recent' = Append(Without(recent, dev), dev)
    BY <1>1, <1>4 DEF SetActive
  <2>3. Top(recent', node, dev)
    BY <2>1, <2>2, ActivatedTop
  <2> QED BY <1>1, <2>3 DEF ActiveInv, Top, Valid
<1>5. CASE UNCHANGED <<recent, dec>>
  BY <1>1, <1>5 DEF ActiveInv, Top, Valid, Playing
<1> QED BY <1>2, <1>3, <1>4, <1>5

\* Marking an entry makes no entry valid.
LEMMA ErrDealActive == Core /\ ActiveInv /\ ErrDeal => ActiveInv'
<1> SUFFICES ASSUME Core, ActiveInv, ErrDeal PROVE ActiveInv'
  OBVIOUS
<1>1. UNCHANGED <<list, recent, dev>> /\ (dec' = dec \/ dec' = "stop")
  BY DEF ErrDeal, DealDecode, DealBreak, DealDevice, DealOther, player, StopDecoder
<1>2. PICK s \in {"failed", "invalid"} : node' = node \/ node' = Marked(node, dev, s)
  BY DEF ErrDeal, DealDecode, DealBreak, DealDevice, DealOther
<1>3. Valid(node') \subseteq Valid(node)
  <2>1. CASE node' = node
    BY <2>1
  <2>2. CASE node' = Marked(node, dev, s) /\ dev \notin Mounted(node)
    BY <2>2 DEF Marked
  <2>3. CASE node' = Marked(node, dev, s) /\ dev \in Mounted(node)
    <3>1. (\A b \in Addr : b # dev => node'[b] = node[b]) /\ node'[dev].st = s
      BY <1>1, <2>3, MarkKeeps DEF Core
    <3> QED BY <3>1 DEF Valid
  <2> QED BY <1>2, <2>1, <2>2, <2>3
<1>4. CASE dec' = dec
  BY <1>1, <1>3, <1>4 DEF ActiveInv, Top, Valid, Playing
<1>5. CASE dec' = "stop"
  BY <1>5 DEF ActiveInv, Playing
<1> QED BY <1>1, <1>4, <1>5

LEMMA ActiveHolds == Core /\ ActiveInv /\ [Next]_vars => ActiveInv'
<1> SUFFICES ASSUME Core, ActiveInv, [Next]_vars PROVE ActiveInv'
  OBVIOUS
<1>1. CASE TakeKey
  <2>1. PICK m \in Messages : OnKey(m) /\ UNCHANGED mgr
    BY <1>1 DEF TakeKey
  <2> QED BY <2>1, KeyMoves, MoveActive
<1>2. CASE TakeSwitch \/ TakeCall \/ Exit \/ ScanDone \/ ToneEnd \/ PassOver \/ FileEnds \/ Plug
           \/ Detect \/ Press \/ UNCHANGED vars
  <2>1. UNCHANGED mgr /\ ((dev' = dev /\ dec' = dec) \/ dec' = "stop")
    BY <1>2 DEF TakeSwitch, TakeCall, Exit, ScanDone, ToneEnd, PassOver, FileEnds, Plug, Detect,
                Press, vars, player, StopDecoder
  <2> QED BY <2>1 DEF ActiveInv, mgr, Top, Valid, Playing
<1> QED BY <1>1, <1>2, TakeInActive, TakeOutActive, PollActive, SelectDoneActive, ErrDealActive
     DEF Next, AppCore
-----------------------------------------------------------------------------
(* Types: the queue, and what handlers assign.                              *)

LEMMA Least ==
  ASSUME NEW T \in SUBSET Nat, T # {}
  PROVE  \E x \in T : \A y \in T : x <= y
<1> DEFINE R == StrictSubsetOrdering(Nat)   F == {0..x : x \in T}
<1>1. IsWellFoundedOn(R, FiniteSubsetsOf(Nat))
  BY FS_StrictSubsetOrderingWellFounded
<1>2. F \subseteq FiniteSubsetsOf(Nat)
  <2> SUFFICES ASSUME NEW x \in T PROVE 0..x \in FiniteSubsetsOf(Nat)
    OBVIOUS
  <2>1. IsFiniteSet(0..x)
    BY FS_Interval
  <2> QED BY <2>1 DEF FiniteSubsetsOf
<1>3. F # {}
  OBVIOUS
<1>4. \E X \in F : \A Y \in F : ~(<<Y, X>> \in R)
  BY <1>1, <1>2, <1>3, WFMin
<1>5. PICK x \in T : \A Y \in F : ~(<<Y, 0..x>> \in R)
  BY <1>4
<1>6. ASSUME NEW y \in T PROVE x <= y
  <2>1. ~(<<0..y, 0..x>> \in R)
    BY <1>5
  <2>2. ~(0..y \subseteq 0..x /\ 0..y # 0..x)
    BY <2>1 DEF StrictSubsetOrdering
  <2>3. ASSUME y < x PROVE FALSE
    <3>1. 0..y \subseteq 0..x /\ x \in 0..x /\ x \notin 0..y
      BY <2>3
    <3> QED BY <3>1, <2>2
  <2> QED BY <2>3
<1> QED BY <1>6

\* The nth member of a set of numbers has n - 1 below it.
LEMMA Ranked ==
  ASSUME NEW m \in Nat, NEW K \in SUBSET (1..m), NEW n \in 1..Cardinality(K)
  PROVE  \E i \in K : Cardinality({j \in K : j < i}) = n - 1
<1> DEFINE Below(x) == {j \in K : j < x}
           T == {x \in 1..(m + 1) : Cardinality(Below(x)) >= n}
<1>0. \A j \in K : j \in Nat /\ 1 <= j /\ j <= m
  OBVIOUS
<1>1. IsFiniteSet(K) /\ Cardinality(K) \in Nat
  <2>1. IsFiniteSet(1..m)
    BY FS_Interval
  <2> QED BY <2>1, FS_Subset, FS_CardinalityType
<1>2. ASSUME NEW x PROVE IsFiniteSet(Below(x)) /\ Cardinality(Below(x)) \in Nat
  <2>1. Below(x) \in SUBSET K
    OBVIOUS
  <2> QED BY <1>1, <2>1, FS_Subset, FS_CardinalityType
<1>3. m + 1 \in T
  <2>1. \A j \in K : j < m + 1
    BY <1>0
  <2>2. Below(m + 1) = K
    BY <2>1, Zenon
  <2>3. m + 1 \in 1..(m + 1) /\ Cardinality(K) >= n
    BY <1>1
  <2> QED BY <2>2, <2>3
<1>4. PICK x \in T : \A y \in T : x <= y
  <2>1. T \in SUBSET Nat /\ T # {}
    BY <1>3
  <2> HIDE DEF T
  <2> QED BY <2>1, Least
<1>5. x # 1
  <2>0. \A j \in K : ~(j < 1)
    BY <1>0
  <2>1. Below(1) = {}
    BY <2>0, Zenon
  <2>2. Cardinality(Below(1)) = 0
    BY <2>1, FS_EmptySet
  <2> QED BY <2>2
<1> DEFINE w == x - 1
<1>6. w \in 1..m /\ w + 1 = x /\ Cardinality(Below(x)) >= n
  BY <1>5
<1>7. Cardinality(Below(w)) < n
  <2>1. w \notin T
    BY <1>4, <1>6
  <2>2. w \in 1..(m + 1)
    BY <1>6
  <2>3. Cardinality(Below(w)) \in Nat
    BY <1>2
  <2> QED BY <2>1, <2>2, <2>3
<1>8. w \in K
  <2> SUFFICES ASSUME w \notin K PROVE FALSE
    OBVIOUS
  <2>0. \A j \in K : j < x <=> j < w
    BY <1>0, <1>6
  <2>1. Below(x) = Below(w)
    BY <2>0, Zenon
  <2>2. Cardinality(Below(w)) \in Nat
    BY <1>2
  <2> HIDE DEF Below
  <2> QED BY <2>1, <2>2, <1>6, <1>7
<1>9. Below(x) = Below(w) \cup {w} /\ w \notin Below(w)
  <2>1. \A j \in K : (j < x <=> j < w \/ j = w)
    BY <1>0, <1>6
  <2>2. ~(w < w)
    BY <1>6
  <2> HIDE DEF w
  <2> QED BY <2>1, <2>2, <1>8, Zenon
<1>10. IsFiniteSet(Below(w)) /\ Cardinality(Below(w)) \in Nat
  BY <1>2
<1>11. Cardinality(Below(x)) = Cardinality(Below(w)) + 1
  <2> HIDE DEF Below
  <2> QED BY <1>9, <1>10, FS_AddElement
<1>12. Cardinality(Below(w)) = n - 1
  <2> HIDE DEF Below, w
  <2> QED BY <1>6, <1>7, <1>10, <1>11
<1> QED BY <1>8, <1>12

LEMMA Kept == ASSUME NEW q \in Seq(Messages) PROVE NoKeys(q) \in Seq(Messages)
<1> DEFINE kept == {i \in DOMAIN q : ~IsKey(q[i])}
           At(n) == CHOOSE i \in kept : Cardinality({j \in kept : j < i}) = n - 1
           c == Cardinality(kept)
           p == [n \in 1..c |-> q[At(n)]]
<1>1. Len(q) \in Nat /\ DOMAIN q = 1..Len(q) /\ kept \in SUBSET (1..Len(q))
  BY LenProperties
<1>2. c \in Nat
  <2>1. IsFiniteSet(1..Len(q))
    BY <1>1, FS_Interval
  <2> QED BY <2>1, <1>1, FS_Subset, FS_CardinalityType
<1>3. ASSUME NEW n \in 1..c PROVE q[At(n)] \in Messages
  <2>1. \E i \in kept : Cardinality({j \in kept : j < i}) = n - 1
    <3> HIDE DEF kept
    <3> QED BY <1>1, Ranked
  <2>2. At(n) \in kept
    BY <2>1
  <2> QED BY <2>2, <1>1, ElementOfSeq
<1>4. p \in [1..c -> Messages]
  BY <1>3
<1>5. p \in Seq(Messages)
  <2> HIDE DEF p, c
  <2> QED BY <1>2, <1>4, SeqDef
<1>6. NoKeys(q) = p
  BY DEF NoKeys
<1> QED BY <1>5, <1>6

LEMMA MessageKinds ==
  /\ \A k \in Keys : Key(k) \in Messages
  /\ \A l \in Logos : In(l) \in Messages /\ Out(l) \in Messages
  /\ \A r \in 0..2, x \in BOOLEAN : End(r, x) \in Messages
BY DEF Messages

LEMMA Older == ASSUME NEW q \in Seq(Messages) PROVE Aged(q) \in Seq(Messages)
<1>1. Len(q) \in Nat /\ DOMAIN q = 1..Len(q)
  BY LenProperties
<1>2. ASSUME NEW i \in 1..Len(q) PROVE (IF q[i].k = "END" THEN End(q[i].read, FALSE) ELSE q[i]) \in Messages
  <2>1. q[i] \in Messages
    BY <1>1, ElementOfSeq
  <2>2. CASE q[i].k = "END"
    <3>1. q[i].read \in 0..2
      BY <2>1, <2>2 DEF Messages, Key, In, Out, End, Keys
    <3>2. End(q[i].read, FALSE) \in Messages
      BY <3>1, MessageKinds
    <3> QED BY <2>2, <3>2
  <2> QED BY <2>1, <2>2
<1>3. Aged(q) \in [1..Len(q) -> Messages]
  BY <1>1, <1>2 DEF Aged
<1> QED BY <1>1, <1>3, SeqDef

\* Keys, plugs and ends of files may be posted.
LEMMA Posted ==
  ASSUME NEW q \in Seq(Messages), NEW m \in Messages
  PROVE  Append(q, m) \in Seq(Messages)
BY AppendProperties

Stages == {"loop", "scan", "select", "err", "exit"}
States == {"stop", "play", "pause"}

\* TypeOK, less the parts that Core has.  A scan found files, and a mode that is left
\* has one that follows.
Kinds ==
  /\ curr \in Tasks /\ next \in Tasks \cup {NoTask}
  /\ queue \in Seq(Messages)
  /\ pc \in Stages /\ job \in Selects /\ err \in Errors
  /\ stale \in BOOLEAN /\ cur \in Nat /\ dec \in States /\ ended \in BOOLEAN
  /\ errs \in Nat /\ back \in BOOLEAN /\ brk \in BOOLEAN /\ tone \in BOOLEAN
  /\ port \in SUBSET Logos /\ told \in SUBSET Logos
  /\ inputs \in 0..MaxInputs
  /\ pc = "exit" => next \in Tasks
  /\ fsn # Null => fsn \in Logos /\ Files[fsn] \in Nat \ {0}

\* What every handler leaves in the variables it assigns.
Handles ==
  /\ pc' \in Stages \ {"exit"} /\ job' \in Selects /\ err' \in Errors
  /\ stale' \in BOOLEAN /\ cur' \in Nat /\ dec' \in States /\ ended' \in BOOLEAN
  /\ fsn' \in {fsn, Null}

LEMMA QuietHandles == Kinds /\ Quiet => Handles
BY DEF Kinds, Quiet, Return, Handles, player, Errors, Selects, Stages

LEMMA FailHandles == ASSUME Kinds, NEW e \in Errors, UNCHANGED player, Fail(e) PROVE Handles
BY DEF Kinds, Fail, Handles, player, Selects, Stages

LEMMA PlayHereHandles == ASSUME Kinds, NEW sel \in Selects, PlayHere(sel) PROVE Handles
<1>1. UNCHANGED <<fsn, stale, cur>> /\ dec' = "stop" /\ ended' = FALSE
  BY DEF PlayHere, StopDecoder, Keep
<1>2. pc' \in {"err", "select"} /\ job' \in Selects /\ err' \in Errors
  BY DEF PlayHere, Fail, Start, Errors, Selects
<1> QED BY <1>1, <1>2 DEF Kinds, Handles, Stages, States

LEMMA PlayOnHandles == ASSUME Kinds, NEW l, NEW sel \in Selects, PlayOn(l, sel) PROVE Handles
<1>1. fsn' = Null /\ stale' = FALSE /\ cur' = 0 /\ dec' = "stop" /\ ended' = FALSE
  BY DEF PlayOn, StopDecoder, Release
<1>2. pc' \in {"err", "scan"} /\ job' \in Selects /\ err' \in Errors
  BY DEF PlayOn, Fail, Start, Errors, Selects
<1> QED BY <1>1, <1>2 DEF Kinds, Handles, Stages, States

LEMMA PlayHandles == ASSUME Kinds, NEW l, NEW sel \in Selects, Play(l, sel) PROVE Handles
BY PlayHereHandles, PlayOnHandles DEF Play

LEMMA ResumeHandles == ASSUME Kinds, NEW l, Resume(l) PROVE Handles
<1>1. PICK sel \in Selects : Play(l, sel)
  BY DEF Resume, Selects
<1> QED BY <1>1, PlayHandles

LEMMA KeyHandles == ASSUME Kinds, NEW m \in Messages, OnKey(m) PROVE Handles
<1> USE DEF Selects, Errors
<1>1. CASE OnStart
  BY <1>1, QuietHandles, ResumeHandles DEF OnStart
<1>2. CASE OnEnd(m)
  <2>1. CASE OnEndNormal
    BY <2>1, PlayOnHandles, PlayHereHandles DEF OnEndNormal
  <2> QED BY <1>2, <2>1, QuietHandles, FailHandles DEF OnEnd
<1>3. CASE OnNext
  BY <1>3, PlayHandles, PlayHereHandles DEF OnNext
<1>4. CASE OnPrev
  BY <1>4, PlayHandles, PlayHereHandles DEF OnPrev
<1>5. CASE OnNextDev
  BY <1>5, QuietHandles, ResumeHandles DEF OnNextDev
<1>6. CASE PlayNumber(LogoOf(node, FindActive(node, recent)))
  BY <1>6, PlayHereHandles, PlayOnHandles DEF PlayNumber
<1>7. CASE OnPP
  <2>1. UNCHANGED <<fsn, stale, cur, ended>> /\ dec' \in States
    BY <1>7 DEF OnPP, Kinds, States
  <2>2. pc' = "loop" /\ job' \in Selects /\ err' \in Errors
    BY <1>7 DEF OnPP, Return
  <2> QED BY <2>1, <2>2 DEF Handles, Kinds, Stages
<1>8. CASE m.k = "FIRST" /\ PlayHere("first")
  BY <1>8, PlayHereHandles
<1>9. CASE m.k = "FOLDER" /\ PlayHere("any")
  BY <1>9, PlayHereHandles
<1>10. CASE m.k = "DEC_ERR" /\ UNCHANGED player /\ Fail("DECODE_FAIL")
  BY <1>10, FailHandles
<1> QED BY <1>1, <1>2, <1>3, <1>4, <1>5, <1>6, <1>7, <1>8, <1>9, <1>10 DEF OnKey
-----------------------------------------------------------------------------
LEMMA HandlesKinds ==
  ASSUME Kinds, Handles, UNCHANGED <<task, env>>, queue' \in Seq(Messages),
         errs' \in Nat, back' \in BOOLEAN, brk' \in BOOLEAN, tone' \in BOOLEAN
  PROVE  Kinds'
<1>1. UNCHANGED <<curr, next, port, told, inputs>>
  BY DEF task, env
<1>2. fsn' # Null => fsn' \in Logos /\ Files[fsn'] \in Nat \ {0}
  BY DEF Kinds, Handles
<1> QED BY <1>1, <1>2 DEF Kinds, Handles

\* The message that is taken comes off the queue.
LEMMA TakenKinds ==
  ASSUME Kinds, queue # <<>>
  PROVE  Head(queue) \in Messages /\ Tail(queue) \in Seq(Messages)
BY HeadTailProperties DEF Kinds

LEMMA InitKinds == Init => Kinds
<1> SUFFICES ASSUME Init PROVE Kinds
  OBVIOUS
<1>1. port \in SUBSET Logos /\ told = {} /\ inputs = Cardinality(port) /\ Cardinality(port) <= MaxInputs
  BY DEF Init
<1>2. Cardinality(port) \in Nat
  BY <1>1, DevAssumption, FS_Subset, FS_CardinalityType
<1>3. inputs \in 0..MaxInputs
  BY <1>1, <1>2, MusicAssumption
<1>4. queue \in Seq(Messages)
  BY EmptySeq DEF Init
<1>5. curr \in Tasks /\ next = NoTask
  BY DEF Init, TaskInit
<1> QED BY <1>1, <1>3, <1>4, <1>5 DEF Init, Kinds, Stages, Selects, Errors, States

LEMMA TakeKeyKinds == Kinds /\ TakeKey => Kinds'
<1> SUFFICES ASSUME Kinds, TakeKey PROVE Kinds'
  OBVIOUS
<1>1. PICK m \in Messages : Taken(m) /\ OnKey(m)
  BY DEF TakeKey
<1>2. /\ queue' = Tail(queue) /\ back' \in {back, TRUE, FALSE}
      /\ UNCHANGED <<task, errs, brk, tone, env>>
  BY DEF TakeKey
<1>3. queue' \in Seq(Messages)
  BY <1>1, <1>2, TakenKinds DEF Taken
<1>4. Handles
  BY <1>1, KeyHandles
<1>5. errs' \in Nat /\ back' \in BOOLEAN /\ brk' \in BOOLEAN /\ tone' \in BOOLEAN
  BY <1>2 DEF Kinds
<1> QED BY <1>2, <1>3, <1>4, <1>5, HandlesKinds

LEMMA TakeSwitchKinds == Kinds /\ TakeSwitch => Kinds'
<1> SUFFICES ASSUME Kinds, TakeSwitch PROVE Kinds'
  OBVIOUS
<1>1. queue # <<>> /\ queue' = Tail(queue) /\ UNCHANGED <<player, counters, tone, env>>
  BY DEF TakeSwitch, Taken
<1>2. queue' \in Seq(Messages)
  BY <1>1, TakenKinds
<1>3. (Leave /\ \E t \in Tasks : SwitchTo(t)) \/ (Return /\ UNCHANGED task)
  BY DEF TakeSwitch
<1>4. /\ pc' \in Stages /\ job' \in Selects /\ err' \in Errors
      /\ curr' = curr /\ next' \in Tasks \cup {NoTask}
      /\ pc' = "exit" => next' \in Tasks
  BY <1>3 DEF Kinds, Leave, Return, SwitchTo, task, Stages, Selects, Errors
<1> QED BY <1>1, <1>2, <1>4 DEF Kinds, player, counters, env

LEMMA TakeCallKinds == Kinds /\ TakeCall => Kinds'
<1> SUFFICES ASSUME Kinds, TakeCall PROVE Kinds'
  OBVIOUS
<1>1. queue # <<>> /\ UNCHANGED <<player, counters, tone, env>>
  BY DEF TakeCall, Taken
<1>2. queue' \in Seq(Messages)
  <2>1. Tail(queue) \in Seq(Messages) /\ Key("CALL") \in Messages
    BY <1>1, TakenKinds, MessageKinds DEF Keys
  <2> QED BY <2>1, Posted DEF TakeCall
<1>3. /\ pc' \in Stages /\ job' \in Selects /\ err' \in Errors
      /\ curr' = curr /\ next' \in Tasks
  BY TaskAssumption DEF TakeCall, Kinds, Leave, SwitchTo, Stages, Selects, Errors
<1> QED BY <1>1, <1>2, <1>3 DEF Kinds, player, counters, env

LEMMA TakeInKinds == Kinds /\ TakeIn => Kinds'
<1> SUFFICES ASSUME Kinds, TakeIn PROVE Kinds'
  OBVIOUS
<1>1. queue # <<>> /\ UNCHANGED <<counters, tone, env>>
  BY DEF TakeIn, Taken
<1>2. \/ Quiet /\ UNCHANGED task /\ queue' = Tail(queue)
      \/ /\ StopDecoder /\ Release
         /\ queue' = Append(Tail(queue), Key("START"))
         /\ (Leave /\ SwitchTo(Music)) \/ (Return /\ UNCHANGED task)
  BY DEF TakeIn, StaysOut, ComesInvalid, ComesIn
<1>3. Tail(queue) \in Seq(Messages)
  BY <1>1, TakenKinds
<1>4. errs' \in Nat /\ back' \in BOOLEAN /\ brk' \in BOOLEAN /\ tone' \in BOOLEAN
  BY <1>1 DEF Kinds, counters
<1>5. CASE Quiet /\ UNCHANGED task /\ queue' = Tail(queue)
  BY <1>1, <1>3, <1>4, <1>5, QuietHandles, HandlesKinds
<1>6. CASE /\ StopDecoder /\ Release
           /\ queue' = Append(Tail(queue), Key("START"))
           /\ (Leave /\ SwitchTo(Music)) \/ (Return /\ UNCHANGED task)
  <2>1. Key("START") \in Messages
    BY MessageKinds DEF Keys
  <2>2. queue' \in Seq(Messages)
    BY <1>3, <1>6, <2>1, Posted
  <2>3. fsn' = Null /\ stale' = FALSE /\ cur' = 0 /\ dec' = "stop" /\ ended' = FALSE
    BY <1>6 DEF StopDecoder, Release
  <2>4. /\ pc' \in Stages /\ job' \in Selects /\ err' \in Errors
        /\ curr' = curr /\ next' \in Tasks \cup {NoTask}
        /\ pc' = "exit" => next' \in Tasks
    BY <1>6, Constants DEF Kinds, Leave, Return, SwitchTo, task, Stages, Selects, Errors
  <2>5. UNCHANGED <<port, told, inputs>>
    BY <1>1 DEF env
  <2> QED BY <1>4, <2>2, <2>3, <2>4, <2>5 DEF Kinds, States
<1> QED BY <1>2, <1>5, <1>6

LEMMA TakeOutKinds == Kinds /\ TakeOut => Kinds'
<1> SUFFICES ASSUME Kinds, TakeOut PROVE Kinds'
  OBVIOUS
<1>1. queue # <<>> /\ UNCHANGED <<task, counters, tone, env>> /\ Return
  BY DEF TakeOut, Taken
<1>2. Tail(queue) \in Seq(Messages) /\ Key("START") \in Messages
  BY <1>1, TakenKinds, MessageKinds DEF Keys
<1>3. queue' \in {Tail(queue), Append(Tail(queue), Key("START"))}
  BY DEF TakeOut
<1>4. queue' \in Seq(Messages)
  BY <1>2, <1>3, Posted
<1>5. \/ StopDecoder /\ Release
      \/ stale' \in BOOLEAN /\ UNCHANGED <<fsn, cur, dec, ended>>
  <2>1. PICK l \in Logos :
          \/ StopDecoder /\ Release
          \/ /\ stale' = (stale \/ (Listed(node, l) /\ \E a \in Addr : node[a].logo = l /\ Lost(a)))
             /\ UNCHANGED <<fsn, cur, dec, ended>>
    BY DEF TakeOut
  <2> QED BY <2>1
<1>6. Handles
  <2>1. pc' = "loop" /\ err' = "NULL" /\ job' = "first"
    BY <1>1 DEF Return
  <2>2. CASE StopDecoder /\ Release
    BY <2>1, <2>2 DEF Handles, StopDecoder, Release, Stages, Selects, Errors, States
  <2>3. CASE stale' \in BOOLEAN /\ UNCHANGED <<fsn, cur, dec, ended>>
    BY <2>1, <2>3 DEF Handles, Kinds, Stages, Selects, Errors
  <2> QED BY <1>5, <2>2, <2>3
<1>7. errs' \in Nat /\ back' \in BOOLEAN /\ brk' \in BOOLEAN /\ tone' \in BOOLEAN
  BY <1>1 DEF Kinds, counters
<1> QED BY <1>1, <1>4, <1>6, <1>7, HandlesKinds

LEMMA PollKinds == Kinds /\ Poll => Kinds'
<1> SUFFICES ASSUME Kinds, Poll PROVE Kinds'
  OBVIOUS
<1>1. queue # <<>> /\ pc \in {"scan", "select"} /\ UNCHANGED <<task, player, errs, back, tone, env>>
  BY DEF Poll
<1>2. PICK m \in Messages :
        IF Breaks(m)
        THEN /\ queue' = Append(Tail(queue), m) /\ brk' = TRUE
             /\ Fail(IF pc = "scan" THEN "FSCAN" ELSE "FILE_NOFOUND")
        ELSE queue' = Tail(queue) /\ UNCHANGED <<pc, job, err, brk>>
  BY DEF Poll
<1>3. Tail(queue) \in Seq(Messages)
  BY <1>1, TakenKinds
<1>4. queue' \in Seq(Messages)
  BY <1>2, <1>3, Posted
<1>5. Handles /\ brk' \in BOOLEAN
  <2>1. CASE Breaks(m)
    <3>1. pc' = "err" /\ err' \in {"FSCAN", "FILE_NOFOUND"} /\ job' = "first" /\ brk' = TRUE
      BY <1>2, <2>1 DEF Fail
    <3> QED BY <1>1, <3>1 DEF Handles, Kinds, player, Stages, Selects, Errors
  <2>2. CASE ~Breaks(m)
    <3>1. UNCHANGED <<pc, job, err, brk>>
      BY <1>2, <2>2
    <3> QED BY <1>1, <3>1 DEF Handles, Kinds, player, Stages
  <2> QED BY <2>1, <2>2
<1>6. errs' \in Nat /\ back' \in BOOLEAN /\ tone' \in BOOLEAN
  BY <1>1 DEF Kinds
<1> QED BY <1>1, <1>4, <1>5, <1>6, HandlesKinds

LEMMA ScanDoneKinds == Kinds /\ ScanDone => Kinds'
<1> SUFFICES ASSUME Kinds, ScanDone PROVE Kinds'
  OBVIOUS
<1>1. UNCHANGED <<task, queue, dec, ended, counters, tone, env>>
  BY DEF ScanDone
<1>2. /\ pc' \in {"err", "select"} /\ job' \in Selects /\ err' \in Errors
      /\ stale' \in BOOLEAN /\ cur' \in Nat
  <2>1. (stale' = FALSE /\ cur' = 0) \/ Keep
    BY DEF ScanDone
  <2>2. Fail("PARM") \/ Fail("FSCAN") \/ Start("select", job)
    BY DEF ScanDone
  <2>3. pc' \in {"err", "select"} /\ job' \in Selects /\ err' \in Errors
    BY <2>2 DEF Fail, Start, Kinds, Selects, Errors
  <2>4. stale' \in BOOLEAN
    BY <2>1, Zenon DEF Keep, Kinds
  <2>5. cur' \in Nat
    BY <2>1 DEF Keep, Kinds
  <2> QED BY <2>3, <2>4, <2>5
<1>3. fsn' = fsn \/ (fsn' \in port /\ Files[fsn'] > 0)
  BY DEF ScanDone, Keep
<1>4. fsn' # Null => fsn' \in Logos /\ Files[fsn'] \in Nat \ {0}
  <2>1. CASE fsn' = fsn
    BY <2>1 DEF Kinds
  <2>2. CASE fsn' \in port /\ Files[fsn'] > 0
    <3>1. fsn' \in Logos
      BY <2>2 DEF Kinds
    <3>2. Files[fsn'] \in Nat
      BY <3>1, MusicAssumption
    <3> QED BY <2>2, <3>1, <3>2
  <2> QED BY <1>3, <2>1, <2>2
<1> QED BY <1>1, <1>2, <1>4 DEF Kinds, task, counters, env, Stages

LEMMA SelectDoneKinds == Core /\ Kinds /\ SelectDone => Kinds'
<1> SUFFICES ASSUME Core, Kinds, SelectDone PROVE Kinds'
  OBVIOUS
<1>1. fsn # Null /\ FileTotal \in Nat \ {0} /\ cur \in Nat
  BY DEF SelectDone, Core, PlayInv, Fits, FileTotal, Kinds
<1>2. Selected(job) \subseteq Nat
  <2>1. (cur % FileTotal) + 1 \in Nat
    BY <1>1
  <2>2. (IF cur <= 1 THEN FileTotal ELSE cur - 1) \in Nat
    BY <1>1
  <2> QED BY <1>1, <2>1, <2>2 DEF Selected
<1>3. Aged(queue) \in Seq(Messages) /\ Append(Aged(queue), Key("DEC_ERR")) \in Seq(Messages)
  BY Older, Posted, MessageKinds DEF Kinds, Keys
<1>4. /\ cur' \in Nat /\ dec' \in States /\ errs' \in Nat
      /\ queue' \in {queue, Aged(queue), Append(Aged(queue), Key("DEC_ERR"))}
      /\ Return \/ Fail("DECODE_FAIL") \/ Fail("FILE_NOFOUND") \/ Fail("NO_RAM")
  BY <1>2 DEF SelectDone, Kinds, States
<1>5. UNCHANGED <<task, fsn, stale, ended, back, brk, tone, env>>
  BY DEF SelectDone
<1>6. Handles
  BY <1>4, <1>5 DEF Handles, Kinds, Return, Fail, Stages, Selects, Errors
<1>7. queue' \in Seq(Messages) /\ back' \in BOOLEAN /\ brk' \in BOOLEAN /\ tone' \in BOOLEAN
  BY <1>3, <1>4, <1>5 DEF Kinds
<1> QED BY <1>4, <1>5, <1>6, <1>7, HandlesKinds

LEMMA PostKinds == ASSUME Kinds, NEW k \in Keys, Post(k) PROVE queue' \in Seq(Messages)
BY Posted, MessageKinds DEF Kinds, Post

LEMMA PostAnyKinds ==
  ASSUME Kinds, NEW n, NEW k \in Keys, PostIfAny(n, k) PROVE queue' \in Seq(Messages)
BY PostKinds DEF PostIfAny, Keys

LEMMA ErrDealKinds == Kinds /\ ErrDeal => Kinds'
<1> SUFFICES ASSUME Kinds, ErrDeal PROVE Kinds'
  OBVIOUS
<1>1. Return /\ UNCHANGED <<task, back, tone, env>>
  BY DEF ErrDeal
<1>2. errs' \in Nat /\ brk' \in BOOLEAN
  <2>1. errs' \in {0, errs + 1}
    BY DEF ErrDeal, DealDecode, DealBreak, DealDevice, DealOther
  <2>2. brk' \in BOOLEAN
    BY Zenon DEF ErrDeal, DealDecode, DealBreak, DealDevice, DealOther, Kinds
  <2>3. errs' \in Nat
    BY <2>1 DEF Kinds
  <2> QED BY <2>2, <2>3
<1>3. /\ UNCHANGED <<fsn, cur>> /\ stale' \in BOOLEAN /\ dec' \in States /\ ended' \in BOOLEAN
  BY DEF ErrDeal, DealDecode, DealBreak, DealDevice, DealOther, Kinds, player, StopDecoder, States
<1>4. queue' \in Seq(Messages)
  <2> USE DEF Keys
  <2>1. CASE DealDecode
    BY <2>1, PostKinds, PostAnyKinds DEF DealDecode
  <2>2. CASE DealBreak
    BY <2>2 DEF DealBreak, Kinds
  <2>3. CASE DealDevice
    BY <2>3, PostKinds, PostAnyKinds DEF DealDevice
  <2>4. CASE DealOther
    BY <2>4, PostKinds, PostAnyKinds DEF DealOther
  <2> QED BY <2>1, <2>2, <2>3, <2>4 DEF ErrDeal
<1>5. Handles
  BY <1>1, <1>3 DEF Handles, Return, Kinds, Stages, Selects, Errors
<1>6. back' \in BOOLEAN /\ tone' \in BOOLEAN
  BY <1>1 DEF Kinds
<1> QED BY <1>1, <1>2, <1>4, <1>5, <1>6, HandlesKinds

LEMMA ExitKinds == Kinds /\ Exit => Kinds'
<1> SUFFICES ASSUME Kinds, Exit PROVE Kinds'
  OBVIOUS
<1>1. curr' = next /\ next \in Tasks /\ next' = NoTask /\ UNCHANGED env
  BY DEF Exit, Kinds
<1>2. queue' \in Seq(Messages)
  BY Kept DEF Exit, Kinds
<1>3. /\ fsn' = Null /\ stale' = FALSE /\ cur' = 0 /\ dec' = "stop" /\ ended' = FALSE
      /\ errs' = 0 /\ back' = FALSE /\ brk' = FALSE /\ tone' \in BOOLEAN
      /\ pc' = "loop" /\ err' = "NULL" /\ job' = "first"
  BY DEF Exit, StopDecoder, Release, Return
<1> QED BY <1>1, <1>2, <1>3 DEF Kinds, env, Stages, Selects, Errors, States

\* What only posts messages, and counts inputs.
LEMMA EnvKinds ==
  Kinds /\ (ToneEnd \/ PassOver \/ FileEnds \/ Plug \/ Detect \/ Press) => Kinds'
<1> SUFFICES ASSUME Kinds, ToneEnd \/ PassOver \/ FileEnds \/ Plug \/ Detect \/ Press PROVE Kinds'
  OBVIOUS
<1>1. UNCHANGED <<task, pc, job, err, dev, fsn, stale, cur, dec, counters>>
  BY DEF ToneEnd, PassOver, FileEnds, Plug, Detect, Press, player
<1>2. tone' \in BOOLEAN /\ ended' \in BOOLEAN
  BY DEF ToneEnd, PassOver, FileEnds, Plug, Detect, Press, player, Kinds
<1>3. inputs' \in 0..MaxInputs
  <2>1. inputs' = inputs \/ (inputs < MaxInputs /\ inputs' = inputs + 1)
    BY DEF ToneEnd, PassOver, FileEnds, Plug, Detect, Press, env, Input
  <2> QED BY <2>1, MusicAssumption DEF Kinds
<1>4. port' \in SUBSET Logos /\ told' \in SUBSET Logos
  BY DEF ToneEnd, PassOver, FileEnds, Plug, Detect, Press, env, Kinds
<1>5. queue' \in Seq(Messages)
  <2>1. CASE PassOver
    BY <2>1, TakenKinds DEF PassOver
  <2>2. CASE Plug
    BY <2>2 DEF Plug, Kinds
  <2>3. \E m \in Messages : queue' = Append(queue, m) \/ PassOver \/ Plug
    <3>1. CASE ToneEnd
      BY <3>1, MessageKinds DEF ToneEnd, Keys
    <3>2. CASE FileEnds
      <4>1. \E r \in 0..2 : queue' = Append(queue, End(r, TRUE))
        <5>1. 2 \in 0..2
          OBVIOUS
        <5> QED BY <3>2, <5>1, Zenon DEF FileEnds
      <4> QED BY <4>1, MessageKinds
    <3>3. CASE Detect
      BY <3>3, MessageKinds DEF Detect
    <3>4. CASE Press
      BY <3>4, MessageKinds, MusicAssumption DEF Press
    <3>5. Key("START") \in Messages
      BY MessageKinds DEF Keys
    <3> QED BY <3>1, <3>2, <3>3, <3>4, <3>5
  <2> QED BY <2>1, <2>2, <2>3, Posted DEF Kinds
<1> QED BY <1>1, <1>2, <1>3, <1>4, <1>5 DEF Kinds, task, counters

LEMMA KindsHold == Core /\ Kinds /\ [Next]_vars => Kinds'
<1> SUFFICES ASSUME Core, Kinds, [Next]_vars PROVE Kinds'
  OBVIOUS
<1>1. CASE UNCHANGED vars
  BY <1>1 DEF vars, task, player, counters, env, Kinds
<1>2. CASE AppCore
  BY <1>2, TakeKeyKinds, TakeSwitchKinds, TakeCallKinds, TakeInKinds, TakeOutKinds, PollKinds, ScanDoneKinds,
     SelectDoneKinds, ErrDealKinds, ExitKinds, EnvKinds DEF AppCore
<1> QED BY <1>1, <1>2, EnvKinds DEF Next

-----------------------------------------------------------------------------
(* Searches find what there is.                                             *)

\* Going round n places from p meets every other place.
LEMMA Round ==
  ASSUME NEW n \in Nat, NEW p \in 1..n, NEW b \in 1..n, p # b
  PROVE  \E k \in 1..(n - 1) : ((p + k - 1) % n) + 1 = b
<1>1. \A e \in 0..(n - 1) : e % n = e
  OBVIOUS
<1>2. CASE p < b
  <2> DEFINE k == b - p
  <2>1. k \in 1..(n - 1) /\ p + k - 1 = b - 1 /\ b - 1 \in 0..(n - 1)
    BY <1>2
  <2>2. (b - 1) % n = b - 1
    BY <2>1, <1>1
  <2>3. ((p + k - 1) % n) + 1 = b
    BY <2>1, <2>2
  <2> HIDE DEF k
  <2> QED BY <2>1, <2>3
<1>3. CASE b < p
  <2> DEFINE k == b - p + n
  <2>1. k \in 1..(n - 1) /\ p + k - 1 = n + (b - 1) /\ b - 1 \in 0..(n - 1)
    BY <1>3
  <2>2. (n + (b - 1)) % n = b - 1
    <3>1. \A e \in 0..(n - 1) : (n + e) % n = e
      OBVIOUS
    <3> QED BY <2>1, <3>1
  <2>3. ((p + k - 1) % n) + 1 = b
    BY <2>1, <2>2
  <2> HIDE DEF k
  <2> QED BY <2>1, <2>3
<1> QED BY <1>2, <1>3

\* The first valid address of a list is found if there is one.
LEMMA FirstFound ==
  ASSUME NEW q, NEW m \in Nat, DOMAIN q = 1..m, NEW n, NEW i \in 1..m, q[i] \in Valid(n)
  PROVE  FirstValid(n, q) \in Valid(n)
<1> DEFINE T == {k \in 1..m : q[k] \in Valid(n)}
<1>1. T \in SUBSET Nat /\ T # {}
  OBVIOUS
<1>2. PICK k \in T : \A j \in T : k <= j
  BY <1>1, Least
<1>3. IsFirst(n, q, k)
  BY <1>2 DEF IsFirst
<1>4. \E j \in DOMAIN q : IsFirst(n, q, j)
  BY <1>2, <1>3
<1>5. (CHOOSE j \in DOMAIN q : IsFirst(n, q, j)) \in DOMAIN q
      /\ IsFirst(n, q, CHOOSE j \in DOMAIN q : IsFirst(n, q, j))
  BY <1>4
<1> QED BY <1>4, <1>5 DEF FirstValid, IsFirst

LEMMA TurnedList ==
  ASSUME NEW q \in Seq(Addr)
  PROVE  /\ DOMAIN Turn(q) = 1..Len(q) /\ Len(q) \in Nat
         /\ \A i \in 1..Len(q) : Turn(q)[i] = q[Len(q) + 1 - i]
         /\ Turn(q) \in Seq(Addr) /\ Len(Turn(q)) = Len(q)
<1>1. Len(q) \in Nat /\ DOMAIN q = 1..Len(q)
  BY LenProperties
<1>2. DOMAIN Turn(q) = 1..Len(q) /\ \A i \in 1..Len(q) : Turn(q)[i] = q[Len(q) + 1 - i]
  BY <1>1 DEF Turn
<1>3. \A i \in 1..Len(q) : Len(q) + 1 - i \in 1..Len(q)
  BY <1>1
<1>4. \A i \in 1..Len(q) : q[Len(q) + 1 - i] \in Addr
  BY <1>3, ElementOfSeq
<1>5. Turn(q) \in [1..Len(q) -> Addr]
  BY <1>1, <1>4 DEF Turn
<1>6. Turn(q) \in Seq(Addr)
  BY <1>1, <1>5, SeqDef
<1>7. Len(Turn(q)) = Len(q)
  BY <1>1, <1>2, <1>6, LenProperties
<1> QED BY <1>1, <1>2, <1>6, <1>7

\* dev_manager_find_active finds a valid device if there is one.
LEMMA ActiveFound ==
  ASSUME DevInv, Valid(node) # {}
  PROVE  FindActive(node, recent) \in Valid(node)
<1>1. PICK a \in Addr : a \in Valid(node) /\ a \in Entries(node)
  BY DEF Valid, Entries
<1>2. recent \in Seq(Addr) /\ Lists(recent, Entries(node))
  BY DEF DevInv, Lists
<1>3. PICK i \in 1..Len(recent) : recent[i] = a
  BY <1>1, <1>2 DEF Lists
<1> DEFINE t == Turn(recent)   k == Len(recent) + 1 - i
<1>4. Len(recent) \in Nat /\ k \in 1..Len(recent) /\ Len(recent) + 1 - k = i
  BY <1>2, TurnedList
<1>5. DOMAIN t = 1..Len(recent) /\ t[k] = a
  BY <1>2, <1>3, <1>4, TurnedList
<1> HIDE DEF t, k
<1>6. FirstValid(node, t) \in Valid(node)
  BY <1>1, <1>4, <1>5, FirstFound
<1> QED BY <1>6 DEF FindActive, t

\* dev_manager_find_next finds another device for one that is not valid any more.
LEMMA NextFound ==
  ASSUME DevInv, Valid(node) # {}, dev # Null, dev \notin Valid(node)
  PROVE  NextDev \in Valid(node)
<1>1. CASE dev \notin Mounted(node)
  BY <1>1, ActiveFound DEF NextDev, FindNext, Find
<1>2. CASE dev \in Mounted(node)
  <2> DEFINE t == Turn(list)   n == Len(list)
             i == CHOOSE k \in DOMAIN t : t[k] = dev
             f == After(t, dev)
  <2>1. PICK a \in Addr : a \in Valid(node) /\ a \in Entries(node) /\ a # dev
    BY DEF Valid, Entries
  <2>2. list \in Seq(Addr) /\ Lists(list, Entries(node)) /\ dev \in Entries(node)
    BY <1>2 DEF DevInv, Lists, Mounted, Entries
  <2>3. n \in Nat /\ DOMAIN t = 1..n /\ Len(t) = n /\ \A k \in 1..n : t[k] = list[n + 1 - k]
    BY <2>2, TurnedList
  <2>4. ASSUME NEW x \in Entries(node) PROVE \E k \in 1..n : t[k] = x
    <3>1. PICK k \in 1..n : list[k] = x
      BY <2>2 DEF Lists
    <3>2. n + 1 - k \in 1..n /\ n + 1 - (n + 1 - k) = k
      BY <2>3
    <3> QED BY <3>1, <3>2, <2>3
  <2> HIDE DEF t, n
  <2>5. i \in 1..n /\ t[i] = dev
    <3>1. \E k \in DOMAIN t : t[k] = dev
      BY <2>2, <2>3, <2>4
    <3> QED BY <3>1, <2>3
  <2>6. PICK b \in 1..n : t[b] = a
    BY <2>1, <2>4
  <2>7. f = [k \in 1..(n - 1) |-> t[((i + k - 1) % n) + 1]]
    BY <2>3 DEF After
  <2> HIDE DEF i
  <2>8. i # b
    BY <2>1, <2>5, <2>6
  <2> HIDE DEF f
  <2>9. PICK k \in 1..(n - 1) : ((i + k - 1) % n) + 1 = b
    <3>1. n \in Nat /\ i \in 1..n /\ b \in 1..n /\ i # b
      BY <2>3, <2>5, <2>8
    <3> QED BY <3>1, Round, Zenon
  <2>10. DOMAIN f = 1..(n - 1) /\ f[k] = a
    BY <2>6, <2>7, <2>9
  <2>11. n - 1 \in Nat
    BY <2>3, <2>5
  <2>12. FirstValid(node, f) \in Valid(node)
    BY <2>1, <2>10, <2>11, FirstFound
  <2> QED BY <2>12, <1>2 DEF NextDev, FindNext, Find, f, t
<1> QED BY <1>1, <1>2

LEMMA Named == ASSUME DevInv, NEW d \in Valid(node) PROVE LogoOf(node, d) \in Logos /\ LogoOf(node, d) # Null
<1>1. d \in Addr /\ d \in Mounted(node) /\ node[d].st = "valid" /\ node \in Nodes
  BY DEF Valid, Mounted, DevInv
<1>2. node[d].logo # Null
  BY <1>1 DEF DevInv, OneEach
<1>3. node[d].logo \in Logos \cup {Null}
  BY <1>1 DEF Nodes
<1> QED BY <1>1, <1>2, <1>3 DEF LogoOf

\* Music mode can always be left: another mode follows.
LEMMA OtherMode ==
  ASSUME curr = Music, NEW online, NEW btFree
  PROVE  \E t \in Tasks : NextIs(t, online, btFree)
<1> DEFINE n == Len(TaskList)
<1>1. n \in Nat /\ DOMAIN TaskList = 1..n /\ \A i \in 1..n : TaskList[i] \in Tasks
  <2>1. TaskList \in Seq(Tasks)
    BY TaskAssumption
  <2> QED BY <2>1, LenProperties, ElementOfSeq
<1>2. Place \in 1..n /\ TaskList[Place] = Music
  <2>1. \E i \in DOMAIN TaskList : TaskList[i] = curr
    BY TaskAssumption DEF Tasks
  <2> QED BY <2>1, <1>1 DEF Place
<1>3. PICK b \in 1..n : TaskList[b] = Bt
  BY <1>1, TaskAssumption DEF Tasks
<1>4. b # Place
  BY <1>2, <1>3, TaskAssumption
<1>5. PICK h \in 1..(n - 1) : ((Place + h - 1) % n) + 1 = b
  BY <1>1, <1>2, <1>4, Round
<1>6. \A t : CanSwitch(t, online, btFree) <=> t # Music
  BY TaskAssumption DEF CanSwitch
<1> DEFINE T == {k \in 1..(n - 1) : CanSwitch(Behind(k), online, btFree)}
<1>7. h \in T
  <2>1. Behind(h) = Bt
    BY <1>3, <1>5 DEF Behind
  <2> QED BY <2>1, <1>6, TaskAssumption
<1>8. T \in SUBSET Nat /\ T # {}
  BY <1>1, <1>7
<1>9. PICK k \in T : \A j \in T : k <= j
  <2> HIDE DEF T
  <2> QED BY <1>8, Least
<1>10. \A j \in 1..(k - 1) : ~CanSwitch(Behind(j), online, btFree)
  BY <1>1, <1>9
<1>11. NextIs(Behind(k), online, btFree)
  BY <1>9, <1>10 DEF NextIs
<1>12. Behind(k) \in Tasks
  <2>1. ((Place + k - 1) % n) + 1 \in 1..n
    BY <1>1, <1>2, <1>9
  <2> QED BY <2>1, <1>1 DEF Behind
<1> QED BY <1>11, <1>12
-----------------------------------------------------------------------------
(* Plugs that wait in the queue.                                            *)

Has(q, m) == \E i \in 1..Len(q) : q[i] = m
Once(q, m) == \A i, j \in 1..Len(q) : q[i] = m /\ q[j] = m => i = j

\* A device that waits to be added is there; it was reported once; and if it has an
\* entry, so did it when it was plugged last, or was reported gone, and that waits too.
Plugged(l, n, q, p, t) ==
  /\ Has(q, In(l)) => l \in p /\ l \in t
  /\ Once(q, In(l))
  /\ (Has(q, In(l)) \/ l \notin t) /\ Listed(n, l) => Has(q, Out(l))

Plugs == \A l \in Logos : Plugged(l, node, queue, port, told)

\* p has the plugs of q.
Same(p, q) ==
  \A l \in Logos :
    /\ Has(q, In(l)) <=> Has(p, In(l))
    /\ Has(p, Out(l)) <=> Has(q, Out(l))
    /\ Once(p, In(l)) => Once(q, In(l))

LEMMA SameSelf == ASSUME NEW q PROVE Same(q, q)
BY DEF Same

LEMMA SameTwice == ASSUME NEW p, NEW q, NEW r, Same(p, q), Same(q, r) PROVE Same(p, r)
BY DEF Same

\* What is behind the head of a queue, and what is in front of a new message.
LEMMA TailPlaces ==
  ASSUME NEW q \in Seq(Messages), q # <<>>
  PROVE  /\ Len(q) \in Nat /\ Tail(q) \in Seq(Messages) /\ Head(q) = q[1] /\ 1 \in 1..Len(q)
         /\ Len(Tail(q)) \in Nat /\ Len(Tail(q)) = Len(q) - 1
         /\ \A i \in 1..Len(Tail(q)) : Tail(q)[i] = q[i + 1] /\ i + 1 \in 1..Len(q)
         /\ \A i \in 1..Len(q) : i = 1 \/ (i - 1 \in 1..Len(Tail(q)) /\ Tail(q)[i - 1] = q[i])
<1>1. /\ Len(q) \in Nat /\ Len(q) # 0 /\ Tail(q) \in Seq(Messages) /\ Head(q) = q[1]
      /\ Len(Tail(q)) = Len(q) - 1
      /\ \A i \in 1..(Len(q) - 1) : Tail(q)[i] = q[i + 1]
  BY HeadTailProperties, LenProperties, EmptySeq
<1>2. \A i \in 1..Len(q) : i # 1 => i - 1 \in 1..(Len(q) - 1) /\ (i - 1) + 1 = i
  BY <1>1
<1>3. \A i \in 1..(Len(q) - 1) : i + 1 \in 1..Len(q)
  BY <1>1
<1>4. 1 \in 1..Len(q) /\ Len(q) - 1 \in Nat
  BY <1>1
<1> QED BY <1>1, <1>2, <1>3, <1>4

LEMMA PostPlaces ==
  ASSUME NEW q \in Seq(Messages), NEW m \in Messages
  PROVE  /\ Len(q) \in Nat /\ Append(q, m) \in Seq(Messages)
         /\ Len(Append(q, m)) = Len(q) + 1 /\ Len(q) + 1 \in 1..Len(Append(q, m))
         /\ Append(q, m)[Len(q) + 1] = m
         /\ \A i \in 1..Len(q) : Append(q, m)[i] = q[i] /\ i \in 1..Len(Append(q, m))
         /\ \A i \in 1..Len(Append(q, m)) : i \in 1..Len(q) \/ i = Len(q) + 1
<1>1. /\ Len(q) \in Nat /\ Append(q, m) \in Seq(Messages) /\ Len(Append(q, m)) = Len(q) + 1
      /\ \A i \in 1..Len(q) : Append(q, m)[i] = q[i]
      /\ Append(q, m)[Len(q) + 1] = m
  BY AppendProperties, LenProperties
<1>2. /\ Len(q) + 1 \in 1..(Len(q) + 1)
      /\ \A i \in 1..Len(q) : i \in 1..(Len(q) + 1)
      /\ \A i \in 1..(Len(q) + 1) : i \in 1..Len(q) \/ i = Len(q) + 1
  BY <1>1
<1> QED BY <1>1, <1>2

LEMMA TailHas ==
  ASSUME NEW q \in Seq(Messages), q # <<>>, NEW m
  PROVE  /\ Has(Tail(q), m) => Has(q, m)
         /\ Has(q, m) => Has(Tail(q), m) \/ m = Head(q)
         /\ Once(q, m) => Once(Tail(q), m)
         /\ Once(q, m) /\ m = Head(q) => ~Has(Tail(q), m)
<1> DEFINE t == Tail(q)   n == Len(q)   k == Len(Tail(q))
<1>1. /\ n \in Nat /\ k \in Nat /\ Head(q) = q[1] /\ 1 \in 1..n
      /\ \A i \in 1..k : t[i] = q[i + 1] /\ i + 1 \in 1..n
      /\ \A i \in 1..n : i = 1 \/ (i - 1 \in 1..k /\ t[i - 1] = q[i])
  BY TailPlaces
<1> HIDE DEF t, n, k
<1>2. \A i, j \in 1..k : i + 1 # 1 /\ (i + 1 = j + 1 => i = j)
  BY <1>1
<1>3. (\E i \in 1..k : t[i] = m) => (\E i \in 1..n : q[i] = m)
  BY <1>1
<1>4. (\E i \in 1..n : q[i] = m) => (\E i \in 1..k : t[i] = m) \/ m = Head(q)
  BY <1>1
<1>5. ASSUME \A i, j \in 1..n : q[i] = m /\ q[j] = m => i = j
      PROVE  \A i, j \in 1..k : t[i] = m /\ t[j] = m => i = j
  <2> SUFFICES ASSUME NEW i \in 1..k, NEW j \in 1..k, t[i] = m, t[j] = m PROVE i = j
    OBVIOUS
  <2>1. q[i + 1] = m /\ q[j + 1] = m /\ i + 1 \in 1..n /\ j + 1 \in 1..n
    BY <1>1
  <2>2. i + 1 = j + 1
    BY <2>1, <1>5
  <2> QED BY <2>2, <1>2
<1>6. ASSUME \A i, j \in 1..n : q[i] = m /\ q[j] = m => i = j, m = Head(q), NEW i \in 1..k, t[i] = m
      PROVE  FALSE
  BY <1>1, <1>2, <1>6
<1> QED BY <1>3, <1>4, <1>5, <1>6 DEF Has, Once, t, n, k

LEMMA PostHas ==
  ASSUME NEW q \in Seq(Messages), NEW x \in Messages, NEW m
  PROVE  /\ Has(q, m) => Has(Append(q, x), m)
         /\ Has(Append(q, x), x)
         /\ Has(Append(q, x), m) => Has(q, m) \/ m = x
         /\ Once(q, m) /\ (m = x => ~Has(q, m)) => Once(Append(q, x), m)
<1> DEFINE p == Append(q, x)   n == Len(q)   k == Len(p)
<1>1. /\ n \in Nat /\ k = n + 1 /\ n + 1 \in 1..k /\ p[n + 1] = x
      /\ \A i \in 1..n : p[i] = q[i] /\ i \in 1..k
      /\ \A i \in 1..k : i \in 1..n \/ i = n + 1
  BY PostPlaces
<1> HIDE DEF p, n, k
<1>2. (\E i \in 1..n : q[i] = m) => (\E i \in 1..k : p[i] = m)
  BY <1>1
<1>3. \E i \in 1..k : p[i] = x
  BY <1>1
<1>4. (\E i \in 1..k : p[i] = m) => (\E i \in 1..n : q[i] = m) \/ m = x
  BY <1>1
<1>5. ASSUME \A i, j \in 1..n : q[i] = m /\ q[j] = m => i = j, m = x => ~\E i \in 1..n : q[i] = m
      PROVE  \A i, j \in 1..k : p[i] = m /\ p[j] = m => i = j
  BY <1>1, <1>5
<1> QED BY <1>2, <1>3, <1>4, <1>5 DEF Has, Once, p, n, k

\* A message taken or posted that is no plug.
LEMMA SameTail ==
  ASSUME NEW q \in Seq(Messages), q # <<>>, Head(q).k \notin {"IN", "OUT"}
  PROVE  Same(q, Tail(q))
<1>1. \A l \in Logos : In(l) # Head(q) /\ Out(l) # Head(q)
  BY DEF In, Out
<1> QED BY <1>1, TailHas DEF Same

LEMMA SamePost ==
  ASSUME NEW q \in Seq(Messages), NEW m \in Messages, m.k \notin {"IN", "OUT"}
  PROVE  Same(q, Append(q, m))
<1>1. \A l \in Logos : In(l) # m /\ Out(l) # m
  BY DEF In, Out
<1> QED BY <1>1, PostHas DEF Same

\* The head goes to the end.
LEMMA SameTurn ==
  ASSUME NEW q \in Seq(Messages), q # <<>>
  PROVE  Same(q, Append(Tail(q), Head(q)))
<1> DEFINE t == Tail(q)   h == Head(q)
<1>1. t \in Seq(Messages) /\ h \in Messages
  BY HeadTailProperties
<1>2. ASSUME NEW m
      PROVE  /\ Has(t, m) => Has(q, m)
             /\ Has(q, m) => Has(t, m) \/ m = h
             /\ Once(q, m) => Once(t, m)
             /\ Once(q, m) /\ m = h => ~Has(t, m)
  BY TailHas
<1>3. Has(q, h)
  <2>1. h = q[1] /\ 1 \in 1..Len(q)
    BY TailPlaces
  <2> QED BY <2>1 DEF Has
<1> HIDE DEF t, h
<1> DEFINE p == Append(t, h)
<1>4. ASSUME NEW m
      PROVE  /\ Has(t, m) => Has(p, m)
             /\ Has(p, h)
             /\ Has(p, m) => Has(t, m) \/ m = h
             /\ Once(t, m) /\ (m = h => ~Has(t, m)) => Once(p, m)
  BY <1>1, PostHas
<1> HIDE DEF p
<1>5. ASSUME NEW m PROVE (Has(p, m) <=> Has(q, m)) /\ (Once(q, m) => Once(p, m))
  BY <1>2, <1>3, <1>4
<1>6. Same(q, p)
  BY <1>5 DEF Same
<1> QED BY <1>6 DEF p, t, h

LEMMA SameAged == ASSUME NEW q \in Seq(Messages) PROVE Same(q, Aged(q))
<1> DEFINE p == Aged(q)   n == Len(q)
<1>1. n \in Nat /\ DOMAIN q = 1..n /\ p \in Seq(Messages) /\ DOMAIN p = 1..n
  BY LenProperties, Older DEF Aged
<1>2. Len(p) = n
  <2> HIDE DEF p, n
  <2> QED BY <1>1, LenProperties
<1>3. ASSUME NEW i \in 1..n, NEW l \in Logos
      PROVE  (p[i] = In(l) <=> q[i] = In(l)) /\ (p[i] = Out(l) <=> q[i] = Out(l))
  <2>1. p[i] = IF q[i].k = "END" THEN End(q[i].read, FALSE) ELSE q[i]
    BY <1>1 DEF Aged
  <2>2. q[i].k = "END" => p[i].k = "END"
    BY <2>1 DEF End
  <2>3. In(l).k = "IN" /\ Out(l).k = "OUT"
    BY DEF In, Out
  <2> HIDE DEF p
  <2> QED BY <2>1, <2>2, <2>3
<1> HIDE DEF p
<1>4. ASSUME NEW l \in Logos
      PROVE  /\ Has(p, In(l)) <=> Has(q, In(l))
             /\ Has(p, Out(l)) <=> Has(q, Out(l))
             /\ Once(q, In(l)) => Once(p, In(l))
  BY <1>2, <1>3 DEF Has, Once, n
<1>5. Same(q, p)
  BY <1>4 DEF Same
<1> QED BY <1>5 DEF p

\* A mode change drops messages, but no plugs.
LEMMA SameNoKeys == ASSUME NEW q \in Seq(Messages) PROVE Same(q, NoKeys(q))
<1> DEFINE kept == {i \in DOMAIN q : ~IsKey(q[i])}
           Below(i) == {j \in kept : j < i}
           At(n) == CHOOSE i \in kept : Cardinality(Below(i)) = n - 1
           c == Cardinality(kept)
           p == [n \in 1..c |-> q[At(n)]]
<1>1. Len(q) \in Nat /\ DOMAIN q = 1..Len(q) /\ kept \in SUBSET (1..Len(q))
  BY LenProperties
<1>2. IsFiniteSet(kept) /\ c \in Nat
  <2>1. IsFiniteSet(1..Len(q))
    BY <1>1, FS_Interval
  <2> QED BY <2>1, <1>1, FS_Subset, FS_CardinalityType
<1>3. ASSUME NEW n \in 1..c PROVE At(n) \in kept /\ Cardinality(Below(At(n))) = n - 1
  <2>1. \E i \in kept : Cardinality(Below(i)) = n - 1
    <3> HIDE DEF kept
    <3> QED BY <1>1, Ranked
  <2> QED BY <2>1
<1>4. ASSUME NEW i \in kept, NEW j \in kept, i < j PROVE Cardinality(Below(i)) # Cardinality(Below(j))
  <2>1. Below(i) \subseteq Below(j) /\ i \in Below(j) /\ i \notin Below(i)
    BY <1>1, <1>4
  <2>2. IsFiniteSet(Below(j))
    <3>1. Below(j) \subseteq kept
      OBVIOUS
    <3> QED BY <3>1, <1>2, FS_Subset
  <2> HIDE DEF Below
  <2>3. Below(i) # Below(j)
    BY <2>1
  <2>4. Cardinality(Below(i)) < Cardinality(Below(j)) /\ Cardinality(Below(j)) \in Nat /\ Cardinality(Below(i)) \in Nat
    BY <2>1, <2>2, <2>3, FS_Subset, FS_CardinalityType
  <2> QED BY <2>4
<1>5. ASSUME NEW i \in kept PROVE \E n \in 1..c : At(n) = i
  <2> DEFINE n == Cardinality(Below(i)) + 1
  <2>1. Below(i) \subseteq kept /\ i \notin Below(i)
    BY <1>1
  <2>2. Cardinality(Below(i)) < c /\ Cardinality(Below(i)) \in Nat
    <3>1. Below(i) # kept
      BY <2>1
    <3> HIDE DEF Below, kept
    <3> QED BY <3>1, <2>1, <1>2, FS_Subset, FS_CardinalityType
  <2>3. n \in 1..c /\ n - 1 = Cardinality(Below(i))
    <3> HIDE DEF Below, kept, c
    <3> QED BY <2>2, <1>2
  <2>4. At(n) \in kept /\ Cardinality(Below(At(n))) = Cardinality(Below(i))
    <3> HIDE DEF At, Below, kept, c, n
    <3> QED BY <2>3, <1>3
  <2>5. At(n) = i
    <3> HIDE DEF At, Below
    <3>1. At(n) \in Nat /\ i \in Nat
      BY <2>4, <1>1
    <3> HIDE DEF kept, n
    <3> QED BY <3>1, <2>4, <1>4
  <2> HIDE DEF n
  <2> QED BY <2>3, <2>5
<1>6. ASSUME NEW n \in 1..c, NEW k \in 1..c, At(n) = At(k) PROVE n = k
  <2> HIDE DEF At, Below, kept
  <2>1. n - 1 = k - 1
    BY <1>3, <1>6
  <2> HIDE DEF c
  <2> QED BY <2>1, <1>2
<1>7. p \in Seq(Messages) /\ NoKeys(q) = p
  <2>1. NoKeys(q) = p
    BY DEF NoKeys
  <2> QED BY <2>1, Kept
<1>8. Len(p) = c
  <2>1. DOMAIN p = 1..c
    OBVIOUS
  <2> HIDE DEF p, c
  <2> QED BY <2>1, <1>2, <1>7, LenProperties
<1>9. \A n \in 1..c : p[n] = q[At(n)]
  OBVIOUS
<1>10. \A i \in 1..Len(q) : ~IsKey(q[i]) => i \in kept
  BY <1>1
<1>11. \A n \in 1..c : At(n) \in 1..Len(q)
  <2> HIDE DEF At, c
  <2> QED BY <1>1, <1>3
<1> HIDE DEF p, At, c, kept
<1>12. ASSUME NEW m, ~IsKey(m)
       PROVE  (Has(p, m) <=> Has(q, m)) /\ (Once(q, m) => Once(p, m))
  <2>1. Has(p, m) => Has(q, m)
    BY <1>8, <1>9, <1>11 DEF Has
  <2>2. Has(q, m) => Has(p, m)
    <3> SUFFICES ASSUME NEW i \in 1..Len(q), q[i] = m PROVE Has(p, m)
      BY DEF Has
    <3>1. PICK n \in 1..c : At(n) = i
      BY <1>5, <1>10, <1>12
    <3> QED BY <3>1, <1>8, <1>9 DEF Has
  <2>3. Once(q, m) => Once(p, m)
    <3> SUFFICES ASSUME Once(q, m), NEW i \in 1..c, NEW j \in 1..c, p[i] = m, p[j] = m PROVE i = j
      BY <1>8 DEF Once
    <3>1. At(i) = At(j)
      BY <1>9, <1>11 DEF Once
    <3> QED BY <3>1, <1>6
  <2> QED BY <2>1, <2>2, <2>3
<1>13. \A l \in Logos : ~IsKey(In(l)) /\ ~IsKey(Out(l))
  BY DEF IsKey, In, Out
<1>14. Same(q, p)
  BY <1>12, <1>13 DEF Same
<1> QED BY <1>7, <1>14
-----------------------------------------------------------------------------
(* Messages that make something play, or leave music mode.                  *)

\* m does, when the devices are n, the player has d, and on if it plays.
Rouses(m, n, d, on) ==
  \/ m.k \in {"QUIT", "CHANGE_MODE", "CALL"}
  \/ m.k = "START" /\ ~on
  \/ d # Null /\ m.k \in {"NEXT", "PREV", "FIRST", "DEC_ERR"}
  \/ d # Null /\ m.k = "END" /\ (m.read = 0 \/ m.latest)
  \/ d # Null /\ d \notin Valid(n) /\ m.k = "AUTO_NEXT_DEV"
  \/ m.k = "OUT" /\ m.l = LogoOf(n, d)

\* A device that will have no entry when its turn comes.
Arrives(q, i, n) ==
  /\ q[i].k = "IN"
  /\ ~Listed(n, q[i].l) \/ \E j \in 1..(i - 1) : q[j] = Out(q[i].l)

Woken(q, n, d, on) == \E i \in 1..Len(q) : Rouses(q[i], n, d, on) \/ Arrives(q, i, n)

\* What comes of a music mode that does not play.
Calls == Valid(node) = {} \/ (tone /\ ~Playing) \/ Woken(queue, node, dev, Playing)

\* Music mode plays on, or owes a call: also on its way to an error that posts none.
Owes ==
  /\ curr = Music
  /\ \/ pc = "loop" /\ ~(Playing /\ ~ended)
     \/ pc = "err" /\ (brk \/ (dev = Null /\ err # "DEV_NOFOUND"))

Alive ==
  /\ pc \in {"scan", "select"} => dev # Null /\ dec = "stop" /\ ~ended
  /\ pc = "err" /\ err = "DEV_NOFOUND" => dec = "stop"
  /\ pc = "err" /\ err \in {"PARM", "FILE_NOFOUND"} => fsn # Null
  /\ Owes => Calls

\* A new message may wake, and takes nothing back.
LEMMA PostWakes ==
  ASSUME NEW q \in Seq(Messages), NEW m \in Messages, NEW n, NEW d, NEW on \in BOOLEAN
  PROVE  /\ Rouses(m, n, d, on) => Woken(Append(q, m), n, d, on)
         /\ Woken(q, n, d, on) => Woken(Append(q, m), n, d, on)
<1> DEFINE p == Append(q, m)   k == Len(q)   c == Len(p)
<1>1. /\ k \in Nat /\ k + 1 \in 1..c /\ p[k + 1] = m
      /\ \A i \in 1..k : p[i] = q[i] /\ i \in 1..c
  BY PostPlaces
<1> HIDE DEF p, k, c
<1>2. Rouses(m, n, d, on) => \E i \in 1..c : Rouses(p[i], n, d, on)
  BY <1>1
<1>3. ASSUME NEW i \in 1..k, Arrives(q, i, n) PROVE Arrives(p, i, n)
  <2>1. \A j \in 1..(i - 1) : j \in 1..k
    BY <1>1
  <2> QED BY <1>1, <1>3, <2>1 DEF Arrives
<1>4. ASSUME NEW i \in 1..k, Rouses(q[i], n, d, on) \/ Arrives(q, i, n)
      PROVE  \E j \in 1..c : Rouses(p[j], n, d, on) \/ Arrives(p, j, n)
  BY <1>1, <1>3, <1>4
<1> QED BY <1>2, <1>4 DEF Woken, p, k, c

\* What the change of a device and of the player leaves of the calls of others.
Calmer(n, d, on, n2, d2, on2) ==
  /\ \A m \in Messages : Rouses(m, n, d, on) => Rouses(m, n2, d2, on2)
  /\ \A l \in Logos : Listed(n2, l) => Listed(n, l)

LEMMA StillWakes ==
  ASSUME NEW q \in Seq(Messages), NEW n, NEW d, NEW on, NEW n2, NEW d2, NEW on2,
         Calmer(n, d, on, n2, d2, on2), Woken(q, n, d, on)
  PROVE  Woken(q, n2, d2, on2)
<1>1. \A i \in 1..Len(q) : q[i] \in Messages
  BY LenProperties, ElementOfSeq
<1>2. \A m \in Messages : m.k = "IN" => m.l \in Logos
  BY DEF Messages, Key, In, Out, End, Keys
<1>3. ASSUME NEW i \in 1..Len(q), Arrives(q, i, n) PROVE Arrives(q, i, n2)
  BY <1>1, <1>2, <1>3 DEF Arrives, Calmer
<1> QED BY <1>1, <1>3 DEF Woken, Calmer

\* Also when the head is taken, if it calls nobody; a device that it reports gone is
\* gone then.
LEMMA TailWakes ==
  ASSUME NEW q \in Seq(Messages), q # <<>>, NEW n, NEW d, NEW on, NEW n2, NEW d2, NEW on2,
         Calmer(n, d, on, n2, d2, on2), Woken(q, n, d, on),
         ~Rouses(Head(q), n, d, on),
         Head(q).k = "IN" => Listed(n, Head(q).l),
         \A l \in Logos : Head(q) = Out(l) => ~Listed(n2, l)
  PROVE  Woken(Tail(q), n2, d2, on2)
<1> DEFINE t == Tail(q)
<1>1. Woken(q, n2, d2, on2)
  BY StillWakes
<1>2. /\ Len(q) \in Nat /\ Head(q) = q[1]
      /\ \A i \in 1..Len(q) : i = 1 \/ (i - 1 \in 1..Len(t) /\ t[i - 1] = q[i])
  BY TailPlaces
<1>3. \A i \in 1..Len(q) : q[i] \in Messages
  BY LenProperties, ElementOfSeq
<1>4. \A m \in Messages : m.k = "IN" => m.l \in Logos
  BY DEF Messages, Key, In, Out, End, Keys
<1> HIDE DEF t
<1>5. PICK i \in 1..Len(q) : Rouses(q[i], n, d, on) \/ Arrives(q, i, n)
  BY DEF Woken
<1>6. i # 1
  <2>1. ~\E j \in 1..(1 - 1) : q[j] = Out(q[1].l)
    OBVIOUS
  <2> QED BY <1>2, <1>5, <2>1 DEF Arrives
<1>7. i - 1 \in 1..Len(t) /\ t[i - 1] = q[i] /\ q[i] \in Messages
  BY <1>2, <1>3, <1>6
<1>8. CASE Rouses(q[i], n, d, on)
  BY <1>7, <1>8 DEF Woken, Calmer, t
<1>9. CASE Arrives(q, i, n)
  <2> DEFINE l == q[i].l
  <2>1. q[i].k = "IN" /\ l \in Logos
    BY <1>4, <1>7, <1>9 DEF Arrives
  <2>2. CASE ~Listed(n2, l)
    <3>1. Arrives(t, i - 1, n2)
      BY <1>7, <2>1, <2>2 DEF Arrives
    <3> QED BY <1>7, <3>1 DEF Woken, t
  <2>3. CASE Listed(n2, l)
    <3>1. Listed(n, l)
      BY <2>1, <2>3 DEF Calmer
    <3>2. PICK j \in 1..(i - 1) : q[j] = Out(l)
      BY <1>9, <3>1 DEF Arrives
    <3>3. j # 1
      BY <1>2, <2>1, <2>3, <3>2
    <3>4. j \in 1..Len(q) /\ j - 1 \in 1..((i - 1) - 1)
      BY <1>2, <3>2, <3>3
    <3>5. t[j - 1] = Out(l)
      BY <1>2, <3>2, <3>3, <3>4
    <3>6. Arrives(t, i - 1, n2)
      BY <1>7, <2>1, <3>4, <3>5 DEF Arrives
    <3> QED BY <1>7, <3>6 DEF Woken, t
  <2> QED BY <2>2, <2>3
<1> QED BY <1>5, <1>8, <1>9

LEMMA CalmSelf == ASSUME NEW n, NEW d, NEW on PROVE Calmer(n, d, on, n, d, on)
BY DEF Calmer

\* Devices that go, or become invalid, but not the one of the player.
LEMMA CalmLess ==
  ASSUME NEW n, NEW d, NEW on, NEW n2,
         d \in Valid(n2) => d \in Valid(n),
         LogoOf(n2, d) = LogoOf(n, d) \/ LogoOf(n, d) \notin Logos,
         \A l \in Logos : Listed(n2, l) => Listed(n, l)
  PROVE  Calmer(n, d, on, n2, d, on)
<1>1. \A m \in Messages : m.k = "OUT" => m.l \in Logos
  BY DEF Messages, Key, In, Out, End, Keys
<1> QED BY <1>1 DEF Calmer, Rouses

\* An entry that is removed.
LEMMA DelListed ==
  ASSUME DevInv, NEW l \in Logos, Del(l)
  PROVE  /\ ~Listed(node', l)
         /\ \A x \in Logos : Listed(node', x) => Listed(node, x)
         /\ Valid(node') \subseteq Valid(node)
         /\ LogoOf(node, dev) # l => LogoOf(node', dev) = LogoOf(node, dev)
<1>1. CASE ~Listed(node, l)
  BY <1>1 DEF Del, mgr
<1>2. CASE Listed(node, l)
  <2>1. PICK a \in Addr : node[a].st # "free" /\ node[a].logo = l /\ DelAt(a)
    BY <1>2 DEF Del
  <2>2. node \in Nodes /\ node' = [node EXCEPT ![a] = Free]
    BY <2>1 DEF DelAt, DevInv
  <2>3. node'[a].st = "free" /\ \A b \in Addr : b # a => node'[b] = node[b]
    BY <2>2 DEF Nodes, Free
  <2>4. \A b \in Addr : node[b].st # "free" /\ node[b].logo = l => b = a
    BY <2>1 DEF DevInv, OneEach, Entries
  <2>5. ~Listed(node', l)
    BY <2>3, <2>4 DEF Listed
  <2>6. \A x \in Logos : Listed(node', x) => Listed(node, x)
    BY <2>3 DEF Listed
  <2>7. Valid(node') \subseteq Valid(node)
    BY <2>3 DEF Valid
  <2>8. LogoOf(node, dev) # l => LogoOf(node', dev) = LogoOf(node, dev)
    BY <2>1, <2>3 DEF LogoOf, Mounted
  <2> QED BY <2>5, <2>6, <2>7, <2>8
<1> QED BY <1>1, <1>2

\* An entry that is marked.
LEMMA MarkListed ==
  ASSUME DevInv, NEW d, NEW s \in {"invalid", "failed"}
  PROVE  /\ \A x \in Logos : Listed(Marked(node, d, s), x) <=> Listed(node, x)
         /\ d \notin Valid(Marked(node, d, s))
         /\ d \notin Mounted(node) => Marked(node, d, s) = node
<1>1. CASE d \notin Mounted(node)
  BY <1>1 DEF Marked, Mounted, Valid
<1>2. CASE d \in Mounted(node)
  <2> DEFINE n == Marked(node, d, s)
  <2>1. n = [node EXCEPT ![d].st = s] /\ node \in Nodes /\ d \in Addr /\ node[d].st # "free"
    BY <1>2 DEF Marked, Mounted, DevInv
  <2>2. n[d].st = s /\ n[d].logo = node[d].logo /\ \A b \in Addr : b # d => n[b] = node[b]
    BY <2>1 DEF Nodes
  <2>3. \A b \in Addr : n[b].logo = node[b].logo /\ (n[b].st # "free" <=> node[b].st # "free")
    BY <2>1, <2>2
  <2> HIDE DEF n
  <2>4. \A x \in Logos : Listed(n, x) <=> Listed(node, x)
    BY <2>3 DEF Listed
  <2>5. d \notin Valid(n)
    BY <2>2 DEF Valid
  <2> QED BY <1>2, <2>4, <2>5 DEF n
<1> QED BY <1>1, <1>2
-----------------------------------------------------------------------------
(* Music mode never rests silent: the keys.                                 *)

Late == {"DECODE_FAIL", "FSCAN", "DEV_READ", "DEV_OFFLINE", "FILE_READ"}

\* A handler goes on to a file, or to an error that posts a message; or it leaves
\* the calls there were.
Goes ==
  \/ pc' \in {"scan", "select"} /\ dev' # Null /\ dec' = "stop" /\ ended' = FALSE
  \/ pc' = "err" /\ err' = "DEV_NOFOUND" /\ dec' = "stop"
  \/ pc' = "err" /\ err' \in Late /\ dev' # Null

Rest(m) ==
  /\ UNCHANGED dev
  /\ \/ pc' = "loop" /\ UNCHANGED ended /\ (Playing' <=> Playing)
     \/ pc' = "err" /\ err' \in Late /\ dev = Null /\ dec' \in {dec, "stop"}
  /\ Valid(node) = {} \/ ~Rouses(m, node, dev, Playing)

LEMMA PlayOnGoes == ASSUME NEW l, NEW sel, PlayOn(l, sel) PROVE Goes
BY DEF PlayOn, Goes, StopDecoder, Fail, Start

\* On the current device, which there may not be.
LEMMA PlayHereGoes ==
  ASSUME NEW sel, PlayHere(sel), NEW m,
         Valid(node) = {} \/ (dev = Null => ~Rouses(m, node, dev, Playing))
  PROVE  Goes \/ Rest(m)
<1>1. UNCHANGED dev /\ dec' = "stop" /\ ended' = FALSE
  BY DEF PlayHere, StopDecoder
<1>2. CASE dev = Null
  <2>1. pc' = "err" /\ err' = "DEV_OFFLINE"
    BY <1>2, Constants DEF PlayHere, Valid, Fail
  <2> QED BY <1>1, <1>2, <2>1 DEF Rest, Late
<1>3. CASE dev # Null
  <2>1. \/ pc' = "err" /\ err' \in {"DEV_OFFLINE", "FSCAN"}
        \/ pc' = "select"
    BY DEF PlayHere, Fail, Start
  <2> QED BY <1>1, <1>3, <2>1 DEF Goes, Late
<1> QED BY <1>2, <1>3

LEMMA PlayGoes ==
  ASSUME NEW l, NEW sel, Play(l, sel), NEW m,
         l # Null \/ Valid(node) = {} \/ (dev = Null => ~Rouses(m, node, dev, Playing))
  PROVE  Goes \/ Rest(m)
BY PlayOnGoes, PlayHereGoes DEF Play

LEMMA ResumeGoes ==
  ASSUME NEW l, Resume(l), NEW m,
         l # Null \/ Valid(node) = {} \/ (dev = Null => ~Rouses(m, node, dev, Playing))
  PROVE  Goes \/ Rest(m)
<1>1. PICK sel \in {"first", "bp", "stale"} : Play(l, sel)
  BY DEF Resume
<1> QED BY <1>1, PlayGoes

LEMMA FailGoes ==
  ASSUME UNCHANGED player, NEW e \in Late, Fail(e), NEW m,
         dev = Null => ~Rouses(m, node, dev, Playing)
  PROVE  Goes \/ Rest(m)
<1>1. pc' = "err" /\ err' = e /\ UNCHANGED <<dev, dec>>
  BY DEF Fail, player
<1> QED BY <1>1 DEF Goes, Rest

LEMMA QuietGoes ==
  ASSUME Quiet, NEW m, Valid(node) = {} \/ ~Rouses(m, node, dev, Playing)
  PROVE  Rest(m)
<1>1. pc' = "loop" /\ UNCHANGED <<dev, dec, ended>>
  BY DEF Quiet, Return, player
<1> QED BY <1>1 DEF Rest, Playing

LEMMA KeyGoes ==
  ASSUME Core, NEW m \in Messages, OnKey(m)
  PROVE  (Goes \/ Rest(m)) /\ m.k \notin {"IN", "OUT", "QUIT", "CHANGE_MODE"}
<1> DEFINE Silent == dev = Null => ~Rouses(m, node, dev, Playing)
           act == LogoOf(node, FindActive(node, recent))
<1>1. act # Null \/ Valid(node) = {}
  BY ActiveFound, Named DEF Core
<1>2. m.k \in {"NEXT", "PREV", "FIRST", "DEC_ERR", "END", "AUTO_NEXT_DEV", "CHANGE_DEV", "FOLDER",
               "NUM", "PP"} => Silent
  BY DEF Rouses
<1>3. m.k \in {"CHANGE_DEV", "FOLDER", "NUM", "PP"} => ~Rouses(m, node, dev, Playing)
  BY DEF Rouses
<1> HIDE DEF act, Silent
<1>4. CASE m.k = "START" /\ OnStart
  <2>1. CASE dec = "play" /\ Quiet
    <3>1. ~Rouses(m, node, dev, Playing)
      BY <1>4, <2>1 DEF Rouses, Playing
    <3> QED BY <1>4, <2>1, <3>1, QuietGoes
  <2>2. CASE Resume(act)
    BY <1>1, <1>4, <2>2, ResumeGoes
  <2> QED BY <1>4, <2>1, <2>2 DEF OnStart, act
<1>5. CASE m.k = "END" /\ OnEnd(m)
  <2>1. CASE OnEndNormal
    BY <1>2, <1>5, <2>1, PlayOnGoes, PlayHereGoes DEF OnEndNormal, Silent
  <2>2. CASE m.read # 0 /\ ~m.latest /\ Quiet
    <3>1. ~Rouses(m, node, dev, Playing)
      BY <1>5, <2>2 DEF Rouses
    <3> QED BY <1>5, <2>2, <3>1, QuietGoes
  <2>3. CASE UNCHANGED player /\ (Fail("FILE_READ") \/ Fail("DEV_READ"))
    BY <1>2, <1>5, <2>3, FailGoes DEF Silent, Late
  <2> QED BY <1>5, <2>1, <2>2, <2>3 DEF OnEnd
<1>6. CASE m.k = "DEC_ERR" /\ UNCHANGED player /\ Fail("DECODE_FAIL")
  BY <1>2, <1>6, FailGoes DEF Silent, Late
<1>7. CASE m.k = "FIRST" /\ PlayHere("first")
  BY <1>2, <1>7, PlayHereGoes DEF Silent
<1>8. CASE m.k = "NEXT" /\ OnNext
  BY <1>2, <1>8, PlayGoes, PlayHereGoes DEF Silent, OnNext
<1>9. CASE m.k = "PREV" /\ OnPrev
  BY <1>2, <1>9, PlayGoes, PlayHereGoes DEF Silent, OnPrev
<1>10. CASE m.k \in {"AUTO_NEXT_DEV", "CHANGE_DEV"} /\ OnNextDev
  <2> DEFINE l == LogoOf(node, NextDev)
  <2>1. CASE l = Null /\ Quiet
    <3>1. ASSUME Rouses(m, node, dev, Playing) PROVE Valid(node) = {}
      <4>1. dev # Null /\ dev \notin Valid(node)
        BY <1>10, <3>1 DEF Rouses
      <4>2. Valid(node) # {} => NextDev \in Valid(node)
        BY <4>1, NextFound DEF Core
      <4> QED BY <2>1, <4>2, Named DEF Core
    <3> QED BY <1>10, <2>1, <3>1, QuietGoes
  <2>2. CASE l # Null /\ Resume(l)
    BY <1>10, <2>2, ResumeGoes
  <2> QED BY <1>10, <2>1, <2>2 DEF OnNextDev
<1>11. CASE m.k = "FOLDER" /\ PlayHere("any")
  BY <1>2, <1>11, PlayHereGoes DEF Silent
<1>12. CASE m.k = "NUM" /\ PlayNumber(act)
  BY <1>2, <1>12, PlayOnGoes, PlayHereGoes DEF Silent, PlayNumber
<1>13. CASE m.k = "PP" /\ OnPP
  <2>1. pc' = "loop" /\ UNCHANGED <<dev, ended>> /\ (Playing' <=> Playing)
    BY <1>13 DEF OnPP, Return, Playing
  <2> QED BY <1>3, <1>13, <2>1 DEF Rest
<1> QED BY <1>4, <1>5, <1>6, <1>7, <1>8, <1>9, <1>10, <1>11, <1>12, <1>13 DEF OnKey, act

\* What a device that is not valid, or none, leaves of Playing.
LEMMA PlaysWith == ASSUME PlayInv, Playing PROVE dev \in Addr /\ dev # Null
BY Constants DEF PlayInv, Fits, Mounted

LEMMA TakeKeyAlive == Core /\ Kinds /\ Alive /\ TakeKey => Alive'
<1> SUFFICES ASSUME Core, Kinds, Alive, TakeKey PROVE Alive'
  OBVIOUS
<1>1. PICK m \in Messages : Taken(m) /\ curr = Music /\ OnKey(m)
  BY DEF TakeKey
<1>2. /\ queue' = Tail(queue) /\ UNCHANGED <<node, curr, tone, brk>>
      /\ pc = "loop" /\ queue # <<>> /\ m = Head(queue)
  BY <1>1 DEF TakeKey, Taken, mgr, task
<1>3. ~brk' /\ queue \in Seq(Messages)
  BY <1>2 DEF Core, BreakDealt, Kinds
<1>4. CASE Goes
  BY <1>3, <1>4 DEF Goes, Late, Alive, Owes
<1>5. CASE Rest(m)
  <2>1. pc' \in {"loop", "err"} /\ (pc' = "err" => err' \in Late) /\ UNCHANGED dev
    BY <1>5 DEF Rest
  <2>2. Owes' => (Playing' <=> Playing) /\ (Valid(node) = {} \/ ~Rouses(m, node, dev, Playing))
    <3>1. dev = Null => ~Playing
      BY PlaysWith DEF Core
    <3> QED BY <1>5, <3>1 DEF Rest, Playing
  <2>3. Owes' => Owes
    <3>1. dev = Null => ~Playing
      BY PlaysWith DEF Core
    <3> QED BY <1>1, <1>2, <1>3, <1>5, <3>1 DEF Rest, Owes
  <2>4. ASSUME Owes' PROVE Calls'
    <3>1. Calls /\ (Playing' <=> Playing) /\ Playing \in BOOLEAN
      BY <2>2, <2>3, <2>4 DEF Alive, Playing
    <3>2. CASE Valid(node) = {}
      BY <1>2, <3>2 DEF Calls, Valid
    <3>3. CASE tone /\ ~Playing
      BY <1>2, <3>1, <3>3 DEF Calls
    <3>4. CASE Valid(node) # {} /\ Woken(queue, node, dev, Playing)
      <4>1. m.k \notin {"IN", "OUT"} /\ ~Rouses(m, node, dev, Playing)
        BY <1>1, <2>2, <2>4, <3>4, KeyGoes
      <4>2. \A l \in Logos : m # Out(l)
        BY <4>1 DEF Out
      <4>3. Woken(Tail(queue), node, dev, Playing)
        BY <1>2, <1>3, <3>4, <4>1, <4>2, CalmSelf, TailWakes
      <4>4. Playing' = Playing
        BY <3>1 DEF Playing
      <4> QED BY <1>2, <2>1, <4>3, <4>4 DEF Calls
    <3> QED BY <3>1, <3>2, <3>3, <3>4 DEF Calls
  <2> QED BY <2>1, <2>4 DEF Alive, Late
<1> QED BY <1>1, <1>4, <1>5, KeyGoes

LEMMA TakeSwitchAlive == ModeKeyDrops = FALSE /\ Kinds /\ TakeSwitch => Alive'
<1> SUFFICES ASSUME ModeKeyDrops = FALSE, Kinds, TakeSwitch PROVE Alive'
  OBVIOUS
<1>1. curr' = curr /\ pc' \in {"loop", "exit"}
  BY DEF TakeSwitch, Leave, Return, SwitchTo, task
<1>2. curr = Music => pc' = "exit"
  BY OtherMode DEF TakeSwitch, Leave
<1> QED BY <1>1, <1>2 DEF Alive, Owes

LEMMA TakeCallAlive == TakeCall => Alive'
BY DEF TakeCall, Leave, Alive, Owes
-----------------------------------------------------------------------------
(* Music mode never rests silent: devices, scans and errors.                *)

\* If no message is taken, and none of what calls depend on changes.
LEMMA CallsStay ==
  ASSUME Calls, UNCHANGED <<node, dev, dec, tone, queue>>
  PROVE  Calls'
BY DEF Calls, Playing, Valid

\* A new message.
LEMMA CallsPosted ==
  ASSUME Kinds, NEW m \in Messages, queue' = Append(queue, m),
         \/ Rouses(m, node', dev', Playing')
         \/ Calls /\ (~tone \/ Playing) /\ UNCHANGED <<node, dev, dec>>
         \/ Calls /\ UNCHANGED <<node, dev, dec, tone>>
  PROVE  Calls'
<1>1. queue \in Seq(Messages) /\ Playing \in BOOLEAN /\ Playing' \in BOOLEAN
  BY DEF Kinds, Playing
<1>2. CASE Rouses(m, node', dev', Playing')
  <2>1. Woken(queue', node', dev', Playing')
    BY <1>1, <1>2, PostWakes
  <2> QED BY <2>1 DEF Calls
<1>3. CASE Calls /\ UNCHANGED <<node, dev, dec>> /\ (~tone \/ Playing \/ UNCHANGED tone)
  <2>1. Playing' = Playing
    BY <1>3 DEF Playing
  <2>2. CASE Valid(node) = {}
    BY <1>3, <2>2 DEF Calls, Valid
  <2>3. CASE tone /\ ~Playing
    BY <1>3, <2>1, <2>3 DEF Calls
  <2>4. CASE Woken(queue, node, dev, Playing)
    <3>1. Woken(queue', node', dev', Playing')
      BY <1>1, <1>3, <2>1, <2>4, PostWakes
    <3> QED BY <3>1 DEF Calls
  <2> QED BY <1>3, <2>2, <2>3, <2>4 DEF Calls
<1> QED BY <1>2, <1>3

LEMMA TakeInAlive == MountFails = FALSE /\ Core /\ Kinds /\ Plugs /\ Alive /\ TakeIn => Alive'
<1> SUFFICES ASSUME MountFails = FALSE, Core, Kinds, Plugs, Alive, TakeIn PROVE Alive'
  OBVIOUS
<1>1. PICK l \in Logos : Taken(In(l)) /\ (StaysOut(l) \/ ComesInvalid(l) \/ ComesIn(l))
  BY DEF TakeIn
<1>2. /\ pc = "loop" /\ queue # <<>> /\ Head(queue) = In(l) /\ queue \in Seq(Messages)
      /\ UNCHANGED <<brk, tone>> /\ ~brk
  BY <1>1 DEF TakeIn, Taken, Kinds, counters, Core, BreakDealt
<1>3. CASE Listed(node, l)
  <2>1. UNCHANGED <<node, curr, dev, dec, ended>> /\ pc' = "loop" /\ queue' = Tail(queue)
    BY <1>1, <1>3 DEF StaysOut, ComesInvalid, ComesIn, Quiet, Return, player, mgr, task
  <2>2. ASSUME Owes' PROVE Calls'
    <3>1. Owes /\ Playing' = Playing
      BY <1>2, <2>1, <2>2 DEF Owes, Playing
    <3>2. Calls
      BY <3>1 DEF Alive
    <3>3. CASE Woken(queue, node, dev, Playing)
      <4>1. ~Rouses(In(l), node, dev, Playing)
        BY DEF Rouses, In
      <4>2. In(l).l = l /\ \A x \in Logos : In(l) # Out(x)
        BY DEF In, Out
      <4>3. Woken(Tail(queue), node, dev, Playing)
        BY <1>2, <1>3, <3>3, <4>1, <4>2, CalmSelf, TailWakes
      <4> QED BY <2>1, <3>1, <4>3 DEF Calls
    <3> QED BY <1>2, <2>1, <3>1, <3>2, <3>3 DEF Calls, Valid
  <2> QED BY <2>1, <2>2 DEF Alive
<1>4. CASE ~Listed(node, l)
  <2>1. Has(queue, In(l))
    <3>1. 1 \in 1..Len(queue) /\ queue[1] = In(l)
      BY <1>2, TailPlaces
    <3> QED BY <3>1 DEF Has
  <2>2. l \in port
    BY <2>1 DEF Plugs, Plugged
  <2>3. /\ StopDecoder /\ queue' = Append(Tail(queue), Key("START"))
        /\ pc' = "exit" \/ pc' = "loop"
    BY <1>1, <1>4, <2>2 DEF StaysOut, ComesInvalid, ComesIn, MayFail, CanMount, Leave, Return
  <2>4. Tail(queue) \in Seq(Messages) /\ Key("START") \in Messages
    BY <1>2, TakenKinds, MessageKinds DEF Keys
  <2>5. Playing' = FALSE
    BY <2>3 DEF StopDecoder, Playing
  <2>6. Rouses(Key("START"), node', dev', Playing')
    BY <2>5 DEF Rouses, Key
  <2>7. Woken(queue', node', dev', Playing')
    BY <2>3, <2>4, <2>5, <2>6, PostWakes
  <2> QED BY <2>3, <2>7 DEF Alive, Calls
<1> QED BY <1>3, <1>4

LEMMA TakeOutAlive == Core /\ Kinds /\ Alive /\ TakeOut => Alive'
<1> SUFFICES ASSUME Core, Kinds, Alive, TakeOut PROVE Alive'
  OBVIOUS
<1>1. PICK l \in Logos :
        /\ Taken(Out(l)) /\ Del(l)
        /\ IF LogoOf(node, dev) = l
           THEN StopDecoder /\ queue' = Append(Tail(queue), Key("START"))
           ELSE queue' = Tail(queue) /\ UNCHANGED <<dec, ended>>
  BY DEF TakeOut
<1>2. /\ pc = "loop" /\ queue # <<>> /\ Head(queue) = Out(l) /\ queue \in Seq(Messages)
      /\ UNCHANGED <<curr, dev, brk, tone>> /\ ~brk /\ pc' = "loop"
  BY <1>1 DEF TakeOut, Taken, Kinds, counters, task, Return, Core, BreakDealt
<1>3. CASE LogoOf(node, dev) = l
  <2>1. StopDecoder /\ queue' = Append(Tail(queue), Key("START"))
    BY <1>1, <1>3
  <2>2. Tail(queue) \in Seq(Messages) /\ Key("START") \in Messages
    BY <1>2, TakenKinds, MessageKinds DEF Keys
  <2>3. Playing' = FALSE
    BY <2>1 DEF StopDecoder, Playing
  <2>4. Rouses(Key("START"), node', dev', Playing')
    BY <2>3 DEF Rouses, Key
  <2>5. Woken(queue', node', dev', Playing')
    BY <2>1, <2>2, <2>3, <2>4, PostWakes
  <2> QED BY <1>2, <2>5 DEF Alive, Calls
<1>4. CASE LogoOf(node, dev) # l
  <2>1. queue' = Tail(queue) /\ UNCHANGED <<dec, ended>>
    BY <1>1, <1>4
  <2>2. ASSUME Owes' PROVE Calls'
    <3>1. Owes /\ Playing' = Playing
      BY <1>2, <2>1, <2>2 DEF Owes, Playing
    <3>2. Calls
      BY <3>1 DEF Alive
    <3>3. /\ ~Listed(node', l)
          /\ \A x \in Logos : Listed(node', x) => Listed(node, x)
          /\ Valid(node') \subseteq Valid(node)
          /\ LogoOf(node', dev) = LogoOf(node, dev)
      BY <1>1, <1>4, DelListed DEF Core
    <3>4. CASE Woken(queue, node, dev, Playing)
      <4>1. ~Rouses(Out(l), node, dev, Playing) /\ Out(l).k # "IN"
        BY <1>4 DEF Rouses, Out
      <4>2. Calmer(node, dev, Playing, node', dev, Playing)
        BY <3>3, CalmLess
      <4>3. \A x \in Logos : Out(l) = Out(x) => x = l
        <5>1. \A x \in Logos : Out(x).l = x
          BY DEF Out
        <5> QED BY <5>1
      <4>4. Woken(Tail(queue), node', dev, Playing)
        BY <1>2, <3>3, <3>4, <4>1, <4>2, <4>3, TailWakes
      <4> QED BY <1>2, <2>1, <3>1, <4>4 DEF Calls
    <3> QED BY <1>2, <3>1, <3>2, <3>3, <3>4 DEF Calls
  <2> QED BY <1>2, <2>2 DEF Alive
<1> QED BY <1>3, <1>4

\* A broken scan: what broke it waits, and calls.
LEMMA PollAlive == Core /\ Kinds /\ Plugs /\ Alive /\ Poll => Alive'
<1> SUFFICES ASSUME Core, Kinds, Plugs, Alive, Poll PROVE Alive'
  OBVIOUS
<1>1. PICK m \in Messages :
        /\ pc \in {"scan", "select"} /\ queue # <<>> /\ m = Head(queue)
        /\ IF Breaks(m)
           THEN /\ queue' = Append(Tail(queue), m)
                /\ Fail(IF pc = "scan" THEN "FSCAN" ELSE "FILE_NOFOUND")
                /\ UNCHANGED mgr
           ELSE UNCHANGED <<pc, err, brk>>
  BY DEF Poll
<1>2. UNCHANGED <<dev, fsn, dec, ended, tone>> /\ queue \in Seq(Messages)
  BY DEF Poll, player, Kinds
<1>3. CASE ~Breaks(m)
  BY <1>1, <1>2, <1>3 DEF Alive, Owes
<1>4. CASE Breaks(m)
  <2>1. /\ queue' = Append(Tail(queue), m) /\ UNCHANGED node /\ pc' = "err"
        /\ err' = (IF pc = "scan" THEN "FSCAN" ELSE "FILE_NOFOUND")
    BY <1>1, <1>4 DEF Fail, mgr
  <2>2. err' = "FILE_NOFOUND" => fsn' # Null
    BY <1>1, <1>2, <2>1 DEF Core, PlayInv, Fits
  <2>3. Tail(queue) \in Seq(Messages) /\ Playing \in BOOLEAN /\ Playing' = Playing
    BY <1>1, <1>2, TakenKinds DEF Playing
  <2>4. Woken(queue', node', dev', Playing')
    <3>1. CASE m.k \in {"OUT", "CHANGE_MODE", "CALL"}
      <4>1. Rouses(m, node, dev, Playing)
        BY <1>4, <3>1 DEF Breaks, Rouses
      <4> QED BY <1>2, <2>1, <2>3, <4>1, PostWakes
    <3>2. CASE m.k = "IN"
      <4> DEFINE l == m.l   t == Tail(queue)   p == Append(t, m)
      <4>1. l \in Logos /\ m = In(l)
        BY <3>2 DEF Messages, Key, In, Out, End, Keys
      <4>2. Len(t) \in Nat /\ Len(t) + 1 \in 1..Len(p) /\ p[Len(t) + 1] = m
            /\ \A i \in 1..Len(t) : p[i] = t[i]
        BY <2>3, PostPlaces
      <4>3. Listed(node, l) => \E j \in 1..Len(t) : t[j] = Out(l)
        <5> SUFFICES ASSUME Listed(node, l) PROVE Has(t, Out(l))
          BY DEF Has
        <5>1. Has(queue, In(l))
          <6>1. 1 \in 1..Len(queue) /\ queue[1] = In(l)
            BY <1>1, <1>2, <4>1, TailPlaces
          <6> QED BY <6>1 DEF Has
        <5>2. Has(queue, Out(l))
          BY <4>1, <5>1 DEF Plugs, Plugged
        <5>3. Out(l) # Head(queue)
          BY <1>1, <3>2 DEF Out
        <5> QED BY <1>1, <1>2, <5>2, <5>3, TailHas
      <4>4. 1..((Len(t) + 1) - 1) = 1..Len(t)
        BY <4>2
      <4> HIDE DEF t, p, l
      <4>5. p[Len(t) + 1].k = "IN" /\ p[Len(t) + 1].l = l
        BY <3>2, <4>2 DEF l
      <4>6. Listed(node, l) => \E j \in 1..((Len(t) + 1) - 1) : p[j] = Out(l)
        BY <4>2, <4>3, <4>4
      <4>7. Arrives(p, Len(t) + 1, node)
        BY <4>5, <4>6 DEF Arrives
      <4>8. Woken(p, node, dev, Playing)
        BY <4>2, <4>7 DEF Woken
      <4> QED BY <1>2, <2>1, <2>3, <4>8 DEF p, t
    <3> QED BY <1>4, <3>1, <3>2 DEF Breaks
  <2> QED BY <2>1, <2>2, <2>4 DEF Alive, Calls
<1> QED BY <1>3, <1>4

LEMMA ScanDoneAlive == Core /\ Kinds /\ Alive /\ ScanDone => Alive'
<1> SUFFICES ASSUME Core, Kinds, Alive, ScanDone PROVE Alive'
  OBVIOUS
<1>1. UNCHANGED <<dev, dec, ended, brk>> /\ dev # Null /\ dec = "stop" /\ ~ended /\ ~brk
  BY DEF ScanDone, Alive, counters, Core, BreakDealt
<1>2. \/ pc' = "err" /\ err' = "FSCAN"
      \/ (pc' = "select" \/ (pc' = "err" /\ err' = "PARM")) /\ fsn' \in port
  BY DEF ScanDone, Fail, Start
<1>3. fsn' \in port => fsn' # Null
  BY Constants DEF Kinds
<1> QED BY <1>1, <1>2, <1>3 DEF Alive, Owes

LEMMA SelectDoneAlive == Core /\ Kinds /\ Alive /\ SelectDone => Alive'
<1> SUFFICES ASSUME Core, Kinds, Alive, SelectDone PROVE Alive'
  OBVIOUS
<1>1. /\ UNCHANGED <<dev, fsn, ended, brk>> /\ dev # Null /\ dec = "stop" /\ ~ended /\ ~brk
      /\ fsn # Null
  BY DEF SelectDone, Alive, Core, BreakDealt, PlayInv, Fits
<1>2. \/ pc' = "err" /\ err' \in {"DECODE_FAIL", "FILE_NOFOUND", "NO_RAM"}
      \/ pc' = "loop" /\ dec' = "play"
      \/ pc' = "loop" /\ dec' = "stop" /\ queue' = Append(Aged(queue), Key("DEC_ERR"))
  BY DEF SelectDone, Fail, Return
<1>3. ASSUME dec' = "stop", queue' = Append(Aged(queue), Key("DEC_ERR")) PROVE Calls'
  <2>1. Aged(queue) \in Seq(Messages) /\ Key("DEC_ERR") \in Messages
    BY Older, MessageKinds DEF Kinds, Keys
  <2>2. Playing' = FALSE
    BY <1>3 DEF Playing
  <2>3. Rouses(Key("DEC_ERR"), node', dev', Playing')
    BY <1>1 DEF Rouses, Key
  <2>4. Woken(queue', node', dev', Playing')
    BY <1>3, <2>1, <2>2, <2>3, PostWakes
  <2> QED BY <2>4 DEF Calls
<1>4. dec' = "play" => Playing'
  BY DEF Playing
<1> QED BY <1>1, <1>2, <1>3, <1>4 DEF Alive, Owes

\* err_deal posts what plays on: the next file, another device, or the end of the mode.
LEMMA PostCalls ==
  ASSUME Kinds, NEW k \in Keys, Post(k),
         Rouses(Key(k), node', dev', Playing') \/ (Calls /\ UNCHANGED <<node, dev, dec, tone>>)
  PROVE  Calls'
<1>1. Key(k) \in Messages
  BY MessageKinds
<1> QED BY <1>1, CallsPosted DEF Post

LEMMA PostAnyCalls ==
  ASSUME Kinds, NEW n, NEW k \in Keys, PostIfAny(n, k),
         Rouses(Key(k), node', dev', Playing') \/ (Calls /\ UNCHANGED <<node, dev, dec, tone>>)
  PROVE  Calls'
<1>1. Rouses(Key("QUIT"), node', dev', Playing') /\ "QUIT" \in Keys
  BY DEF Rouses, Key, Keys
<1> QED BY <1>1, PostCalls DEF PostIfAny

LEMMA ErrDealAlive == Core /\ Kinds /\ Alive /\ ErrDeal => Alive'
<1> SUFFICES ASSUME Core, Kinds, Alive, ErrDeal PROVE Alive'
  OBVIOUS
<1>1. pc = "err" /\ pc' = "loop" /\ UNCHANGED <<curr, tone>>
  BY DEF ErrDeal, Return, task
<1>2. SUFFICES ASSUME curr = Music PROVE Calls'
  BY <1>1 DEF Alive, Owes
<1>3. brk \/ (dev = Null /\ err # "DEV_NOFOUND") => Calls
  BY <1>1, <1>2 DEF Alive, Owes
<1>4. \A k \in {"NEXT", "PREV", "FIRST"} : dev' # Null => Rouses(Key(k), node', dev', Playing')
  BY DEF Rouses, Key
<1>5. dev' # Null /\ dev' \notin Valid(node') => Rouses(Key("AUTO_NEXT_DEV"), node', dev', Playing')
  BY DEF Rouses, Key
<1> USE DEF Keys
<1>6. CASE DealDecode
  <2>1. err = "DECODE_FAIL" /\ UNCHANGED <<dev, dec>>
    BY <1>6 DEF DealDecode, player
  <2>2. CASE errs >= FileTotal
    <3>1. node' = Marked(node, dev, "invalid") /\ PostIfAny(node', "AUTO_NEXT_DEV")
      BY <1>6, <2>2 DEF DealDecode
    <3>2. dev \notin Valid(node')
      BY <3>1, MarkListed DEF Core
    <3>3. dev = Null => node' = node
      <4>1. dev = Null => dev \notin Mounted(node)
        BY Constants DEF Mounted
      <4> QED BY <3>1, <4>1, MarkListed DEF Core
    <3> QED BY <1>1, <1>3, <1>5, <2>1, <3>1, <3>2, <3>3, PostAnyCalls
  <2>3. CASE ~(errs >= FileTotal)
    <3>1. (Post("PREV") \/ Post("NEXT")) /\ UNCHANGED node
      BY <1>6, <2>3 DEF DealDecode
    <3> QED BY <1>1, <1>3, <1>4, <2>1, <3>1, PostCalls
  <2> QED BY <2>2, <2>3
<1>7. CASE DealBreak
  BY <1>1, <1>3, <1>7, CallsStay DEF DealBreak, player
<1>8. CASE DealDevice
  <2>1. PostIfAny(node', "AUTO_NEXT_DEV") /\ UNCHANGED dev /\ err # "DEV_NOFOUND"
    BY <1>8 DEF DealDevice
  <2>2. CASE dev \in Valid(node)
    <3>1. node' = Marked(node, dev, IF err = "FSCAN" THEN "invalid" ELSE "failed")
      BY <1>8, <2>2 DEF DealDevice
    <3>2. dev \notin Valid(node') /\ dev # Null
      BY <2>2, <3>1, MarkListed, Constants DEF Core, Valid
    <3> QED BY <1>5, <2>1, <3>2, PostAnyCalls
  <2>3. CASE dev \notin Valid(node)
    <3>1. UNCHANGED <<node, dec>>
      BY <1>8, <2>3 DEF DealDevice
    <3> QED BY <1>1, <1>3, <1>5, <2>1, <2>3, <3>1, PostAnyCalls
  <2> QED BY <2>2, <2>3
<1>9. CASE DealOther
  <2>1. UNCHANGED <<node, dev, dec>>
    BY <1>9 DEF DealOther, player
  <2>2. CASE err = "DEV_NOFOUND" /\ PostIfAny(node, "START")
    <3>1. ~Playing'
      BY <1>1, <2>1, <2>2 DEF Alive, Playing
    <3>2. Rouses(Key("START"), node', dev', Playing')
      BY <3>1 DEF Rouses, Key
    <3> QED BY <2>2, <3>2, PostAnyCalls
  <2>3. CASE /\ err \in {"PARM", "FILE_NOFOUND"}
             /\ IF dev \in Valid(node) /\ FileTotal > 0 THEN Post("FIRST")
                ELSE PostIfAny(node, "AUTO_NEXT_DEV")
    <3>1. fsn # Null /\ FileTotal \in Nat \ {0}
      BY <1>1, <2>3 DEF Alive, Kinds, FileTotal
    <3>2. CASE dev \in Valid(node)
      BY <1>1, <1>3, <1>4, <2>1, <2>3, <3>1, <3>2, PostCalls
    <3>3. CASE dev \notin Valid(node)
      BY <1>1, <1>3, <1>5, <2>1, <2>3, <3>3, PostAnyCalls
    <3> QED BY <3>2, <3>3
  <2>4. CASE err = "FILE_READ" /\ Post("NEXT")
    BY <1>1, <1>3, <1>4, <2>1, <2>4, PostCalls
  <2>5. CASE err = "NO_RAM" /\ Post("QUIT")
    <3>1. Rouses(Key("QUIT"), node', dev', Playing')
      BY DEF Rouses, Key
    <3> QED BY <2>5, <3>1, PostCalls
  <2> QED BY <1>9, <2>2, <2>3, <2>4, <2>5 DEF DealOther
<1> QED BY <1>6, <1>7, <1>8, <1>9 DEF ErrDeal

LEMMA ExitAlive == Exit => Alive'
BY DEF Exit, Return, StopDecoder, Playing, Alive, Owes, Calls

\* The tone, the decoder, the devices and the user; another mode's keys.
LEMMA PostsAlive ==
  Core /\ Kinds /\ Alive /\ (ToneEnd \/ PassOver \/ FileEnds \/ Plug \/ Detect \/ Press) => Alive'
<1> SUFFICES ASSUME Core, Kinds, Alive, ToneEnd \/ PassOver \/ FileEnds \/ Plug \/ Detect \/ Press
             PROVE  Alive'
  OBVIOUS
<1>1. UNCHANGED <<node, curr, pc, err, dev, fsn, dec, brk>>
  BY DEF ToneEnd, PassOver, FileEnds, Plug, Detect, Press, mgr, task, counters, player
<1>2. FileEnds => dec = "play"
  BY DEF FileEnds
<1>3. ~FileEnds => UNCHANGED ended
  BY DEF ToneEnd, PassOver, Plug, Detect, Press, player
<1>4. ASSUME Owes' PROVE Calls'
  <2>1. CASE PassOver
    BY <1>1, <1>4, <2>1 DEF PassOver, Owes
  <2>2. CASE FileEnds
    <3>0. 2 \in 0..2
      OBVIOUS
    <3>1. PICK r \in 0..2 : queue' = Append(queue, End(r, TRUE))
      BY <2>2, <3>0, Zenon DEF FileEnds
    <3>2. dev' # Null
      BY <1>1, <1>2, <2>2, PlaysWith DEF Core, Playing
    <3>3. Rouses(End(r, TRUE), node', dev', Playing')
      BY <3>2 DEF Rouses, End
    <3>4. End(r, TRUE) \in Messages
      BY MessageKinds
    <3> QED BY <3>1, <3>3, <3>4, CallsPosted
  <2>3. CASE ~FileEnds /\ ~PassOver
    <3>1. Playing' = Playing
      BY <1>1 DEF Playing
    <3>2. Owes
      BY <1>1, <1>3, <1>4, <2>3, <3>1 DEF Owes
    <3>3. Calls
      BY <3>2 DEF Alive
    <3>4. CASE Plug
      BY <1>1, <3>3, <3>4, CallsStay DEF Plug
    <3>5. CASE ToneEnd
      <4>1. queue' = Append(queue, Key("START")) /\ Key("START") \in Messages
        BY <3>5, MessageKinds DEF ToneEnd, Keys
      <4>2. ~Playing => Rouses(Key("START"), node', dev', Playing')
        BY <3>1 DEF Rouses, Key
      <4> QED BY <1>1, <3>3, <4>1, <4>2, CallsPosted
    <3>6. CASE Detect \/ Press
      <4>1. UNCHANGED tone
        BY <3>6 DEF Detect, Press
      <4>2. PICK m \in Messages : queue' = Append(queue, m)
        BY <3>6, MessageKinds, MusicAssumption DEF Detect, Press
      <4> QED BY <1>1, <3>3, <4>1, <4>2, CallsPosted
    <3> QED BY <2>3, <3>4, <3>5, <3>6
  <2> QED BY <2>1, <2>2, <2>3
<1>5. pc \in {"scan", "select"} => UNCHANGED ended
  BY <1>2, <1>3 DEF Alive
<1> QED BY <1>1, <1>4, <1>5 DEF Alive

LEMMA AliveHolds ==
  MountFails = FALSE /\ ModeKeyDrops = FALSE /\ Core /\ Kinds /\ Plugs /\ Alive /\ [Next]_vars => Alive'
<1> SUFFICES ASSUME MountFails = FALSE, ModeKeyDrops = FALSE, Core, Kinds, Plugs, Alive, [Next]_vars
             PROVE  Alive'
  OBVIOUS
<1>1. CASE UNCHANGED vars
  BY <1>1, CallsStay DEF vars, mgr, task, player, counters, Alive, Owes, Playing
<1>2. CASE AppCore
  BY <1>2, TakeKeyAlive, TakeSwitchAlive, TakeCallAlive, TakeInAlive, TakeOutAlive, PollAlive, ScanDoneAlive,
     SelectDoneAlive, ErrDealAlive, ExitAlive, PostsAlive DEF AppCore
<1> QED BY <1>1, <1>2, PostsAlive DEF Next
-----------------------------------------------------------------------------
(* Plugs are reported once, and in order.                                   *)

LEMMA PlugsSame ==
  ASSUME Plugs, Same(queue, queue'), \A l \in Logos : Listed(node', l) => Listed(node, l),
         UNCHANGED <<port, told>>
  PROVE  Plugs'
BY DEF Plugs, Plugged, Same

\* The head, a plug of l, is taken.
LEMMA PlugsTaken ==
  ASSUME Plugs, queue \in Seq(Messages), queue # <<>>, NEW l \in Logos,
         \/ Head(queue) = In(l)
         \/ Head(queue) = Out(l) /\ ~Listed(node', l),
         Same(Tail(queue), queue'),
         \A x \in Logos : x # l => (Listed(node', x) => Listed(node, x)),
         UNCHANGED <<port, told>>
  PROVE  Plugs'
<1> DEFINE t == Tail(queue)
<1>1. ASSUME NEW m
      PROVE  /\ Has(t, m) => Has(queue, m)
             /\ Has(queue, m) => Has(t, m) \/ m = Head(queue)
             /\ Once(queue, m) => Once(t, m)
             /\ Once(queue, m) /\ m = Head(queue) => ~Has(t, m)
  BY TailHas
<1>2. \A x, y \in Logos : In(x) # Out(y) /\ (In(x) = In(y) => x = y) /\ (Out(x) = Out(y) => x = y)
  <2>1. \A x \in Logos : In(x).k = "IN" /\ Out(x).k = "OUT" /\ In(x).l = x /\ Out(x).l = x
    BY DEF In, Out
  <2> QED BY <2>1
<1> HIDE DEF t
<1>3. ASSUME NEW x \in Logos PROVE Plugged(x, node', t, port, told)
  <2>1. /\ Has(queue, In(x)) => x \in port /\ x \in told
        /\ Once(queue, In(x))
        /\ (Has(queue, In(x)) \/ x \notin told) /\ Listed(node, x) => Has(queue, Out(x))
    BY DEF Plugs, Plugged
  <2>2. (Has(t, In(x)) => Has(queue, In(x))) /\ Once(t, In(x))
    BY <1>1, <2>1
  <2>3. CASE x # l
    <3>1. Has(queue, Out(x)) => Has(t, Out(x))
      BY <1>1, <1>2, <2>3
    <3> QED BY <2>1, <2>2, <2>3, <3>1 DEF Plugged
  <2>4. CASE x = l /\ Head(queue) = In(l)
    <3>1. Has(queue, In(x))
      <4>1. 1 \in 1..Len(queue) /\ queue[1] = In(x)
        BY <2>4, TailPlaces
      <4> QED BY <4>1 DEF Has
    <3>2. ~Has(t, In(x))
      BY <1>1, <2>1, <2>4
    <3> QED BY <2>1, <2>2, <3>1, <3>2 DEF Plugged
  <2>5. CASE x = l /\ ~Listed(node', l)
    BY <2>1, <2>2, <2>5 DEF Plugged
  <2> QED BY <2>3, <2>4, <2>5
<1> QED BY <1>3 DEF Plugs, Plugged, Same, t

LEMMA InitPlugs == Init => Plugs
<1> SUFFICES ASSUME Init PROVE Plugs
  OBVIOUS
<1>1. queue = <<>> /\ node = [a \in Addr |-> Free]
  BY DEF Init, DevInit
<1>2. Len(queue) = 0
  BY <1>1
<1>3. \A i \in 1..Len(queue) : FALSE
  BY <1>2
<1>4. \A l : ~Listed(node, l)
  BY <1>1 DEF Listed, Free
<1> QED BY <1>3, <1>4 DEF Plugs, Plugged, Has, Once

LEMMA TakePlugs == Core /\ Kinds /\ Plugs /\ (TakeKey \/ TakeSwitch \/ PassOver) => Plugs'
<1> SUFFICES ASSUME Core, Kinds, Plugs, TakeKey \/ TakeSwitch \/ PassOver PROVE Plugs'
  OBVIOUS
<1>1. queue' = Tail(queue) /\ queue # <<>> /\ UNCHANGED <<node, port, told>> /\ queue \in Seq(Messages)
  BY DEF TakeKey, TakeSwitch, PassOver, Taken, mgr, env, Kinds
<1>2. Head(queue).k \notin {"IN", "OUT"}
  <2>1. CASE TakeKey
    BY <2>1, KeyGoes DEF TakeKey, Taken
  <2>2. CASE TakeSwitch
    BY <2>2 DEF TakeSwitch, Taken, Key
  <2> QED BY <2>1, <2>2 DEF PassOver
<1> QED BY <1>1, <1>2, SameTail, PlugsSame

LEMMA TakeCallPlugs == Kinds /\ Plugs /\ TakeCall => Plugs'
<1> SUFFICES ASSUME Kinds, Plugs, TakeCall PROVE Plugs'
  OBVIOUS
<1>1. /\ queue # <<>> /\ Head(queue) = Key("CALL") /\ queue \in Seq(Messages)
      /\ queue' = Append(Tail(queue), Head(queue)) /\ UNCHANGED <<node, port, told>>
  BY DEF TakeCall, Taken, mgr, env, Kinds
<1> QED BY <1>1, SameTurn, PlugsSame

LEMMA TakeInPlugs == Core /\ Kinds /\ Plugs /\ TakeIn => Plugs'
<1> SUFFICES ASSUME Core, Kinds, Plugs, TakeIn PROVE Plugs'
  OBVIOUS
<1>1. PICK l \in Logos :
        /\ queue # <<>> /\ Head(queue) = In(l)
        /\ queue' \in {Tail(queue), Append(Tail(queue), Key("START"))}
        /\ UNCHANGED node \/ \E a \in Addr, mounts \in BOOLEAN : node[a] = Free /\ AddAt(a, l, mounts)
  BY DEF TakeIn, StaysOut, ComesInvalid, ComesIn, Taken, mgr
<1>2. UNCHANGED <<port, told>> /\ queue \in Seq(Messages)
  BY DEF TakeIn, env, Kinds
<1>3. Same(Tail(queue), queue')
  <2>1. Tail(queue) \in Seq(Messages) /\ Key("START") \in Messages
    BY <1>1, <1>2, TakenKinds, MessageKinds DEF Keys
  <2>2. Key("START").k \notin {"IN", "OUT"}
    BY DEF Key
  <2> QED BY <1>1, <2>1, <2>2, SamePost, SameSelf
<1>4. \A x \in Logos : x # l => (Listed(node', x) => Listed(node, x))
  <2>1. CASE UNCHANGED node
    BY <2>1
  <2>2. ASSUME NEW a \in Addr, NEW mounts \in BOOLEAN, AddAt(a, l, mounts)
        PROVE  \A x \in Logos : x # l => (Listed(node', x) => Listed(node, x))
    <3>1. node'[a].logo = l /\ \A b \in Addr : b # a => node'[b] = node[b]
      BY <2>2 DEF AddAt, Core, DevInv, Nodes
    <3> QED BY <3>1 DEF Listed
  <2> QED BY <1>1, <2>1, <2>2
<1> QED BY <1>1, <1>2, <1>3, <1>4, PlugsTaken

LEMMA TakeOutPlugs == Core /\ Kinds /\ Plugs /\ TakeOut => Plugs'
<1> SUFFICES ASSUME Core, Kinds, Plugs, TakeOut PROVE Plugs'
  OBVIOUS
<1>1. PICK l \in Logos :
        /\ queue # <<>> /\ Head(queue) = Out(l) /\ Del(l)
        /\ queue' \in {Tail(queue), Append(Tail(queue), Key("START"))}
  BY DEF TakeOut, Taken
<1>2. UNCHANGED <<port, told>> /\ queue \in Seq(Messages)
  BY DEF TakeOut, env, Kinds
<1>3. Same(Tail(queue), queue')
  <2>1. Tail(queue) \in Seq(Messages) /\ Key("START") \in Messages
    BY <1>1, <1>2, TakenKinds, MessageKinds DEF Keys
  <2>2. Key("START").k \notin {"IN", "OUT"}
    BY DEF Key
  <2> QED BY <1>1, <2>1, <2>2, SamePost, SameSelf
<1>4. ~Listed(node', l) /\ \A x \in Logos : Listed(node', x) => Listed(node, x)
  BY <1>1, DelListed DEF Core
<1> QED BY <1>1, <1>2, <1>3, <1>4, PlugsTaken

LEMMA PollPlugs == Core /\ Kinds /\ Plugs /\ Poll => Plugs'
<1> SUFFICES ASSUME Core, Kinds, Plugs, Poll PROVE Plugs'
  OBVIOUS
<1>1. PICK m \in Messages :
        /\ queue # <<>> /\ m = Head(queue)
        /\ IF Breaks(m)
           THEN queue' = Append(Tail(queue), m) /\ UNCHANGED mgr
           ELSE queue' = Tail(queue) /\ IF m.k = "OUT" THEN Del(m.l) ELSE UNCHANGED mgr
  BY DEF Poll
<1>2. UNCHANGED <<port, told>> /\ queue \in Seq(Messages)
  BY DEF Poll, env, Kinds
<1>3. CASE Breaks(m)
  BY <1>1, <1>2, <1>3, SameTurn, PlugsSame DEF mgr
<1>4. CASE ~Breaks(m) /\ m.k = "OUT"
  <2>1. m.l \in Logos /\ m = Out(m.l)
    BY <1>4 DEF Messages, Key, In, Out, End, Keys
  <2>2. ~Listed(node', m.l) /\ \A x \in Logos : Listed(node', x) => Listed(node, x)
    BY <1>1, <1>4, <2>1, DelListed DEF Core
  <2>3. Same(Tail(queue), queue')
    BY <1>1, <1>4, SameSelf
  <2> QED BY <1>1, <1>2, <2>1, <2>2, <2>3, PlugsTaken
<1>5. CASE ~Breaks(m) /\ m.k # "OUT"
  <2>1. Head(queue).k \notin {"IN", "OUT"}
    BY <1>1, <1>5 DEF Breaks
  <2>2. queue' = Tail(queue) /\ UNCHANGED node
    BY <1>1, <1>5 DEF mgr
  <2> QED BY <1>1, <1>2, <2>1, <2>2, SameTail, PlugsSame
<1> QED BY <1>3, <1>4, <1>5

LEMMA PostedPlugs ==
  ASSUME Kinds, Plugs, NEW m \in Messages, m.k \notin {"IN", "OUT"}, queue' = Append(queue, m),
         \A l \in Logos : Listed(node', l) => Listed(node, l), UNCHANGED <<port, told>>
  PROVE  Plugs'
BY SamePost, PlugsSame DEF Kinds

LEMMA SelectDonePlugs == Kinds /\ Plugs /\ SelectDone => Plugs'
<1> SUFFICES ASSUME Kinds, Plugs, SelectDone PROVE Plugs'
  OBVIOUS
<1>1. UNCHANGED <<node, port, told>> /\ queue \in Seq(Messages)
  BY DEF SelectDone, env, Kinds
<1>2. queue' \in {queue, Aged(queue), Append(Aged(queue), Key("DEC_ERR"))}
  BY DEF SelectDone
<1>3. Aged(queue) \in Seq(Messages) /\ Key("DEC_ERR") \in Messages /\ Key("DEC_ERR").k = "DEC_ERR"
  BY <1>1, Older, MessageKinds DEF Keys, Key
<1>4. Same(Aged(queue), Append(Aged(queue), Key("DEC_ERR")))
  BY <1>3, SamePost
<1>5. Same(queue, Aged(queue))
  BY <1>1, SameAged
<1>6. Same(queue, Append(Aged(queue), Key("DEC_ERR")))
  BY <1>4, <1>5, SameTwice
<1>7. Same(queue, queue')
  BY <1>2, <1>5, <1>6, SameSelf
<1> QED BY <1>1, <1>7, PlugsSame

LEMMA ErrDealPlugs == Core /\ Kinds /\ Plugs /\ ErrDeal => Plugs'
<1> SUFFICES ASSUME Core, Kinds, Plugs, ErrDeal PROVE Plugs'
  OBVIOUS
<1>1. UNCHANGED <<port, told>>
  BY DEF ErrDeal, env
<1>2. \/ UNCHANGED node
      \/ \E s \in {"invalid", "failed"} : node' = Marked(node, dev, s)
  BY DEF ErrDeal, DealDecode, DealBreak, DealDevice, DealOther
<1>3. \A l \in Logos : Listed(node', l) => Listed(node, l)
  BY <1>2, MarkListed DEF Core
<1>4. UNCHANGED queue \/ \E k \in Keys : queue' = Append(queue, Key(k))
  <2> USE DEF Keys, Post, PostIfAny
  <2>1. CASE DealDecode
    BY <2>1 DEF DealDecode
  <2>2. CASE DealBreak
    BY <2>2 DEF DealBreak
  <2>3. CASE DealDevice
    BY <2>3 DEF DealDevice
  <2>4. CASE DealOther
    BY <2>4 DEF DealOther
  <2> QED BY <2>1, <2>2, <2>3, <2>4 DEF ErrDeal
<1>5. \A k \in Keys : Key(k) \in Messages /\ Key(k).k \notin {"IN", "OUT"}
  BY MessageKinds DEF Keys, Key
<1> QED BY <1>1, <1>3, <1>4, <1>5, PostedPlugs, SameSelf, PlugsSame

LEMMA ExitPlugs == Kinds /\ Plugs /\ Exit => Plugs'
<1> SUFFICES ASSUME Kinds, Plugs, Exit PROVE Plugs'
  OBVIOUS
<1>1. queue' = NoKeys(queue) /\ queue \in Seq(Messages) /\ UNCHANGED <<node, port, told>>
  BY DEF Exit, Kinds, mgr, env
<1> QED BY <1>1, SameNoKeys, PlugsSame

\* A device is not unplugged before its plug is dealt with: it always mounts.
LEMMA PlugPlugs == MountFails = FALSE /\ Kinds /\ Plugs /\ Plug => Plugs'
<1> SUFFICES ASSUME MountFails = FALSE, Kinds, Plugs, Plug PROVE Plugs'
  OBVIOUS
<1>1. UNCHANGED <<node, queue, told>>
  BY DEF Plug, mgr
<1>2. DOMAIN queue = 1..Len(queue)
  BY LenProperties DEF Kinds
<1>3. ASSUME NEW x \in Logos, Has(queue, In(x)), x \in port PROVE x \in port'
  <2>1. In(x) \in {queue[i] : i \in DOMAIN queue}
    BY <1>2, <1>3 DEF Has
  <2> QED BY <1>3, <2>1 DEF Plug
<1> QED BY <1>1, <1>3 DEF Plugs, Plugged

LEMMA DetectPlugs == Kinds /\ Plugs /\ Detect => Plugs'
<1> SUFFICES ASSUME Kinds, Plugs, Detect PROVE Plugs'
  OBVIOUS
<1>1. PICK l \in Logos :
        \/ l \in port \ told /\ told' = told \cup {l} /\ queue' = Append(queue, In(l))
        \/ l \in told \ port /\ told' = told \ {l} /\ queue' = Append(queue, Out(l))
  BY DEF Detect
<1>2. UNCHANGED <<node, port>> /\ queue \in Seq(Messages)
  BY DEF Detect, mgr, Kinds
<1>3. In(l) \in Messages /\ Out(l) \in Messages
  BY MessageKinds
<1>4. \A x, y \in Logos : In(x) # Out(y) /\ (In(x) = In(y) => x = y) /\ (Out(x) = Out(y) => x = y)
  <2>1. \A x \in Logos : In(x).k = "IN" /\ Out(x).k = "OUT" /\ In(x).l = x /\ Out(x).l = x
    BY DEF In, Out
  <2> QED BY <2>1
<1>5. ASSUME NEW x \in Messages, NEW m, queue' = Append(queue, x)
      PROVE  /\ Has(queue, m) => Has(queue', m)
             /\ Has(queue', x)
             /\ Has(queue', m) => Has(queue, m) \/ m = x
             /\ Once(queue, m) /\ (m = x => ~Has(queue, m)) => Once(queue', m)
  BY <1>2, <1>5, PostHas
<1>6. ASSUME NEW x \in Logos PROVE Plugged(x, node', queue', port', told')
  <2>1. /\ Has(queue, In(x)) => x \in port /\ x \in told
        /\ Once(queue, In(x))
        /\ (Has(queue, In(x)) \/ x \notin told) /\ Listed(node, x) => Has(queue, Out(x))
    BY DEF Plugs, Plugged
  <2>2. CASE l \in port \ told /\ told' = told \cup {l} /\ queue' = Append(queue, In(l))
    <3>1. /\ Has(queue', In(x)) => Has(queue, In(x)) \/ x = l
          /\ Has(queue, Out(x)) => Has(queue', Out(x))
          /\ Once(queue, In(x)) /\ (x = l => ~Has(queue, In(x))) => Once(queue', In(x))
      BY <1>3, <1>4, <1>5, <2>2
    <3> QED BY <1>2, <2>1, <2>2, <3>1 DEF Plugged
  <2>3. CASE l \in told \ port /\ told' = told \ {l} /\ queue' = Append(queue, Out(l))
    <3>1. /\ Has(queue', In(x)) => Has(queue, In(x))
          /\ Has(queue, Out(x)) \/ x = l => Has(queue', Out(x))
          /\ Once(queue, In(x)) => Once(queue', In(x))
      BY <1>3, <1>4, <1>5, <2>3
    <3> QED BY <1>2, <2>1, <2>3, <3>1 DEF Plugged
  <2> QED BY <1>1, <2>2, <2>3
<1> QED BY <1>6 DEF Plugs

LEMMA PostsPlugs == Kinds /\ Plugs /\ (ToneEnd \/ FileEnds \/ Press) => Plugs'
<1> SUFFICES ASSUME Kinds, Plugs, ToneEnd \/ FileEnds \/ Press PROVE Plugs'
  OBVIOUS
<1>1. UNCHANGED <<node, port, told>>
  BY DEF ToneEnd, FileEnds, Press, mgr, env
<1>2. \E m \in Messages : m.k \notin {"IN", "OUT"} /\ queue' = Append(queue, m)
  <2>1. \A k \in Keys : Key(k) \in Messages /\ Key(k).k \notin {"IN", "OUT"}
    BY MessageKinds DEF Keys, Key
  <2>2. \A r \in 0..2 : End(r, TRUE) \in Messages /\ End(r, TRUE).k = "END"
    BY MessageKinds DEF End
  <2>3. CASE ToneEnd
    BY <2>1, <2>3 DEF ToneEnd, Keys
  <2>4. CASE FileEnds
    <3>1. 2 \in 0..2
      OBVIOUS
    <3>2. \E r \in 0..2 : queue' = Append(queue, End(r, TRUE))
      BY <2>4, <3>1, Zenon DEF FileEnds
    <3> QED BY <2>2, <3>2
  <2>5. CASE Press
    BY <2>1, <2>5, MusicAssumption DEF Press
  <2> QED BY <2>3, <2>4, <2>5
<1> QED BY <1>1, <1>2, PostedPlugs

LEMMA PlugsHold == MountFails = FALSE /\ Core /\ Kinds /\ Plugs /\ [Next]_vars => Plugs'
<1> SUFFICES ASSUME MountFails = FALSE, Core, Kinds, Plugs, [Next]_vars PROVE Plugs'
  OBVIOUS
<1>1. CASE UNCHANGED vars
  BY <1>1 DEF vars, mgr, env, Plugs
<1>2. CASE ScanDone
  BY <1>2, SameSelf, PlugsSame DEF ScanDone, mgr, env
<1>3. CASE AppCore
  BY <1>2, <1>3, TakePlugs, TakeCallPlugs, TakeInPlugs, TakeOutPlugs, PollPlugs, SelectDonePlugs, ErrDealPlugs,
     ExitPlugs DEF AppCore
<1> QED BY <1>1, <1>3, PlugPlugs, DetectPlugs, PostsPlugs DEF Next
LEMMA NextHolds == Core /\ Kinds /\ [Next]_vars => Core'
<1> SUFFICES ASSUME Core, Kinds, [Next]_vars PROVE Core'
  OBVIOUS
<1>1. CASE UNCHANGED vars
  BY <1>1, DevStays DEF vars, player, counters, Core, PlayInv, Fits, Playing, Mounted, mgr, BreakDealt
<1>2. CASE AppCore
  BY <1>2, TakeKeyHolds, TakeSwitchHolds, TakeCallHolds, TakeInHolds, TakeOutHolds, PollHolds, ScanDoneHolds,
     SelectDoneHolds, ErrDealHolds, ExitHolds, PostsHold DEF AppCore, Kinds
<1> QED BY <1>1, <1>2, PostsHold DEF Next
-----------------------------------------------------------------------------
(* The theorems.                                                            *)

IInv == Core /\ ActiveInv /\ Kinds

\* The device list is well formed, what is scanned and played fits the device of
\* the player, scandisk_break is dealt with, no valid device was active after the one
\* that plays, and every variable has its type.
THEOREM Invariance == Spec => []IInv
<1>1. Init => IInv
  BY InitHolds, InitKinds DEF Init, IInv, ActiveInv, Playing
<1>2. IInv /\ [Next]_vars => IInv'
  BY NextHolds, ActiveHolds, KindsHold DEF IInv
<1> QED BY <1>1, <1>2, PTL DEF Spec

\* Every variable keeps its type: queues stay sequences of messages when a mode change
\* drops the keys, and file numbers stay numbers also where the choice goes round.
THEOREM TypeCorrect == Spec => []TypeOK
<1>1. IInv => TypeOK
  BY DEF IInv, Core, DevInv, PlayInv, Fits, Lists, Kinds, Stages, States, TypeOK
<1> QED BY <1>1, Invariance, PTL

\* One entry for each device, in the list and in the order of activity, whatever
\* is plugged, fails to mount or is reported twice.
THEOREM OneEntryEach == Spec => []Registered
<1>1. DevInv => Registered
  <2> SUFFICES ASSUME DevInv PROVE Registered
    OBVIOUS
  <2>1. \A a, b \in Addr : node[a].st # "free" /\ node[a].logo = node[b].logo => a = b
    BY DEF DevInv, OneEach, Entries
  <2>2. ASSUME NEW q \in {list, recent}
        PROVE /\ Len(q) = Cardinality({q[i] : i \in DOMAIN q})
              /\ {q[i] : i \in DOMAIN q} = {a \in Addr : node[a].st # "free"}
    <3>1. Lists(q, Entries(node)) /\ Entries(node) \in SUBSET Addr
      BY DEF DevInv, Entries
    <3>2. {q[i] : i \in DOMAIN q} = Entries(node) /\ Len(q) = Cardinality({q[i] : i \in DOMAIN q})
      BY <3>1, ListsLength
    <3> QED BY <3>2 DEF Entries
  <2> QED BY <2>1, <2>2 DEF Registered
<1> QED BY <1>1, Invariance, PTL DEF IInv, Core

\* What plays, plays from a device that is mounted, through the scan of it.
THEOREM PlaysMounted == Spec => []DecodesMounted
<1>1. PlayInv => DecodesMounted
  BY DEF PlayInv, Fits, DecodesMounted, LogoOf
<1> QED BY <1>1, Invariance, PTL DEF IInv, Core

\* The scan that music_player_play_next and the like go by is of their device.
THEOREM ScanFits == Spec => []ScanOfDevice
<1>1. PlayInv => ScanOfDevice
  BY DEF PlayInv, Fits, ScanOfDevice, LogoOf
<1> QED BY <1>1, Invariance, PTL DEF IInv, Core

\* scandisk_break is set only on the way to the error handler that clears it.
THEOREM BreaksDealt == Spec => []BreakDealt
BY Invariance, PTL DEF IInv, Core

\* The device that plays is the one START and the number keys find by its stamp, whatever
\* was plugged, did not mount, was removed or went invalid since it was made active.
THEOREM PlaysTheActive == Spec => []PlaysActive
<1>1. IInv => PlaysActive
  <2> SUFFICES ASSUME IInv, Playing, dev \in Valid(node) PROVE dev = FindActive(node, recent)
    BY DEF PlaysActive
  <2>1. dev \in Entries(node) /\ Entries(node) \in SUBSET Addr /\ Lists(recent, Entries(node))
    BY DEF IInv, Core, DevInv, Entries, Valid
  <2>2. Top(recent, node, dev)
    BY DEF IInv, ActiveInv
  <2> QED BY <2>1, <2>2, TopIsActive
<1> QED BY <1>1, Invariance, PTL

\* Where every device that is plugged mounts, music mode does not go silent while one
\* is there to play: each message lost to a scan or a change of mode, and each error,
\* leaves another that plays on.  Not so if the mode key, having broken a scan, may be
\* passed over afterwards.
THEOREM NeverSilent == 
  ASSUME MountFails = FALSE, ModeKeyDrops = FALSE PROVE Spec => []RestPlays
<1>1. Init => Plugs /\ Alive
  <2>1. Init => Alive
    BY DEF Init, TaskInit, Alive, Owes
  <2> QED BY <2>1, InitPlugs
<1>2. IInv /\ Plugs /\ Alive /\ [Next]_vars => (Plugs /\ Alive)'
  BY PlugsHold, AliveHolds DEF IInv
<1>3. IInv /\ Alive => RestPlays
  <2> SUFFICES ASSUME IInv, Alive, Rests, Total(node) > 0
               PROVE  (dec = "play" /\ ~ended) \/ dec = "pause"
    BY DEF RestPlays
  <2>1. Valid(node) # {}
    <3>1. Valid(node) = {} => Total(node) = 0
      BY FS_EmptySet DEF Total
    <3> QED BY <3>1
  <2>2. ~Woken(queue, node, dev, Playing)
    <3>1. queue = <<>>
      BY DEF Rests
    <3>2. Len(queue) = 0
      BY <3>1
    <3>3. \A i \in 1..Len(queue) : FALSE
      BY <3>2
    <3> QED BY <3>3 DEF Woken
  <2>3. ~Owes
    BY <2>1, <2>2 DEF Alive, Calls, Rests
  <2> QED BY <2>3 DEF Owes, Rests, Playing
<1> QED BY <1>1, <1>2, <1>3, Invariance, PTL DEF Spec
=============================================================================

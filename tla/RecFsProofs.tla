----------------------------- MODULE RecFsProofs -----------------------------
(***************************************************************************)
(* Proofs about RecFs for any partition, sizes and numbers of recordings, as *)
(* long as indices do not wrap and no recording is played that was not kept. *)
(***************************************************************************)
EXTENDS RecFs, FiniteSetTheorems, WellFoundedInduction, TLAPS

\* The sectors that have a header, and how many sectors its recording takes.
Headed == {s \in Ring : head[s] # NoHead}
Long(s) == Sectors(head[s].len)
Gn(s) == head[s].gen

\* The n sectors from s on, round the ring.
Arc(s, n) == {x \in Ring : (s <= x /\ x < s + n) \/ x < s + n - Last}

\* Going up the ring from a, b is met before c.
Cyc(a, b, c) == (a < b /\ b < c) \/ (b < c /\ c < a) \/ (c < a /\ a < b)

\* The recordings on flash are whole, and lie round the ring in order of age.
Flash ==
  /\ head[0] = NoHead
  /\ \A s \in Headed : head[s].len \in 1..Total
  /\ \A s \in Headed : \A x \in Arc(s, Long(s)) : owner[x] = Gn(s)
  /\ \A s, t \in Headed : Gn(s) = Gn(t) => s = t
  /\ \A s, t \in Headed : Gn(s) < Gn(t) => head[s].index < head[t].index
  /\ \A s, t, u \in Headed : Gn(s) < Gn(t) /\ Gn(t) < Gn(u) => Cyc(s, t, u)
  /\ \A s \in Headed : head[s].index <= Gn(s) /\ Gn(s) <= made

\* The index in RAM is that of the youngest recording.
Youngest(s) == s \in Headed /\ \A t \in Headed : Gn(t) <= Gn(s)
Known ==
  /\ newest.index <= made
  /\ mounted /\ Headed # {} =>
       Youngest(newest.sector) /\ newest.index = head[newest.sector].index
  /\ newest.sector \in Ring

\* The recording under way: its sectors follow those of the youngest one, and are
\* erased or its own; up to its position they are written.
Room(f) == Sectors(f.len)
Under ==
  file # NoFile =>
    /\ mounted /\ file.sector \in Ring
    /\ file.index = newest.index + 1 /\ file.index <= made /\ last = file.index
    /\ made >= 1
    /\ Room(file) \in 1..Last /\ file.len = Room(file) * S
    /\ H <= file.rw /\ file.rw <= file.len
    /\ \A x \in Arc(file.sector, Room(file)) : head[x] = NoHead /\ owner[x] \in {Blank, made}
    /\ file.rw > H => \A x \in Arc(file.sector, Sectors(file.rw)) : owner[x] = made
    /\ \A t \in Headed : Gn(t) < made
    /\ \A t, u \in Headed : Gn(t) < Gn(u) => Cyc(t, u, file.sector)

\* What was kept last is the newest recording.
LastKept == mounted /\ file = NoFile /\ last # 0 /\ ~lost =>
  newest.sector \in Headed /\ last = newest.index

IInv == TypeOK /\ Flash /\ Known /\ Under /\ LastKept
-----------------------------------------------------------------------------
(* Sizes and sectors.                                                       *)

LEMMA Constants ==
  /\ Capacity \in Nat /\ S \in Nat /\ S >= 2 /\ H \in 1..(S - 1)
  /\ Last \in Nat /\ Last >= 1 /\ First = 1 /\ Ring = 1..Last /\ Sector = 0..Last
  /\ Total = Last * S
  /\ MaxMade \in Nat /\ IndexMod \in Nat /\ LenMod \in Nat /\ LenMod >= 1
  /\ Blank = 0 /\ Junk = MaxMade + 1 /\ Gen = 1..MaxMade
<1>1. Capacity \in Nat /\ S \in Nat /\ S >= 2 /\ H \in 1..(S - 1)
  BY RecFsAssumption
<1>2. Last \in Int
  BY <1>1 DEF Last
<1>3. Last \in Nat /\ Last >= 1
  BY <1>2, RecFsAssumption DEF First
<1> QED BY <1>1, <1>3, RecFsAssumption DEF First, Ring, Sector, Total, Blank, Junk, Gen

LEMMA Times ==
  ASSUME NEW i \in Nat, NEW j \in Nat
  PROVE  /\ i * S \in Nat /\ (i + 1) * S = i * S + S
         /\ i <= j => i * S <= j * S
         /\ i < j <=> i * S < j * S
<1>1. S \in Nat /\ S >= 2
  BY Constants
<1>2. i * S \in Nat /\ j * S \in Nat /\ (i + 1) * S = i * S + S
  BY <1>1
<1>3. ASSUME i <= j PROVE i * S <= j * S
  <2>1. j = i + (j - i) /\ j - i \in Nat
    BY <1>3
  <2>2. j * S = i * S + (j - i) * S /\ (j - i) * S \in Nat
    BY <2>1, <1>1
  <2> QED BY <2>2, <1>2
<1>4. ASSUME i < j PROVE i * S < j * S
  <2>1. j = (i + 1) + (j - (i + 1)) /\ j - (i + 1) \in Nat
    BY <1>4
  <2>2. j * S = (i + 1) * S + (j - (i + 1)) * S /\ (j - (i + 1)) * S \in Nat
    BY <2>1, <1>1
  <2> QED BY <2>2, <1>1, <1>2
<1>5. ASSUME j <= i PROVE j * S <= i * S
  <2>1. i = j + (i - j) /\ i - j \in Nat
    BY <1>5
  <2>2. i * S = j * S + (i - j) * S /\ (i - j) * S \in Nat
    BY <2>1, <1>1
  <2> QED BY <2>2, <1>2
<1> QED BY <1>2, <1>3, <1>4, <1>5

\* Sector k of a recording is one of the first n bytes if it begins among them.
LEMMA SectorsOf ==
  ASSUME NEW n \in Nat
  PROVE  /\ Sectors(n) \in Nat
         /\ \A k \in Nat : k < Sectors(n) <=> k * S < n
<1>1. S \in Nat /\ S >= 2
  BY Constants
<1> DEFINE q == n \div S   r == n % S
<1>2. q \in Nat /\ r \in 0..(S - 1) /\ n = q * S + r
  BY <1>1
<1> HIDE DEF q, r
<1>3. Sectors(n) = q + (IF r = 0 THEN 0 ELSE 1)
  BY DEF Sectors, q, r
<1>4. Sectors(n) \in Nat
  BY <1>2, <1>3
<1>5. ASSUME NEW k \in Nat PROVE k < Sectors(n) <=> k * S < n
  <2>1. /\ k < q <=> k * S < q * S
        /\ k * S \in Nat /\ q * S \in Nat
        /\ k < q + 1 <=> k * S < (q + 1) * S
        /\ (q + 1) * S = q * S + S
        /\ q < k <=> q * S < k * S
        /\ k = q => k * S = q * S
    BY <1>2, Times
  <2>2. CASE r = 0
    BY <2>1, <2>2, <1>2, <1>3
  <2>3. CASE r # 0
    <3>1. k < q + 1 <=> k * S < q * S + r
      BY <2>1, <2>3, <1>1, <1>2
    <3> QED BY <3>1, <2>3, <1>2, <1>3
  <2> QED BY <2>2, <2>3
<1> QED BY <1>4, <1>5

LEMMA SectorsWithin ==
  ASSUME NEW n \in Nat, NEW m \in Nat, n <= m * S
  PROVE  Sectors(n) <= m /\ (n > 0 => Sectors(n) >= 1) /\ (n = m * S => Sectors(n) = m)
<1>1. Sectors(n) \in Nat /\ m * S \in Nat
  BY SectorsOf, Times
<1>2. m < Sectors(n) <=> m * S < n
  BY SectorsOf
<1>3. 0 < Sectors(n) <=> 0 * S < n
  BY SectorsOf
<1>4. 0 * S = 0
  BY Constants
<1>5. ASSUME n = m * S, Sectors(n) < m PROVE FALSE
  <2>1. Sectors(n) * S < m * S
    BY <1>1, <1>5, Times
  <2>2. Sectors(n) < Sectors(n) <=> Sectors(n) * S < n
    BY <1>1, SectorsOf
  <2> QED BY <2>1, <2>2, <1>1, <1>5
<1> QED BY <1>1, <1>2, <1>3, <1>4, <1>5
-----------------------------------------------------------------------------
(* The ring.                                                                *)

LEMMA Turning ==
  ASSUME NEW s \in Ring, NEW k \in 0..Last
  PROVE  /\ Around(s + k) = IF s + k > Last THEN s + k - Last ELSE s + k
         /\ Around(s + k) \in Ring
         /\ k < Last => Turned(s + k) = Around(s + k)
<1>1. Last \in Nat /\ Last >= 1 /\ First = 1 /\ Ring = 1..Last
  BY Constants
<1>2. Around(s + k) = IF s + k > Last THEN s + k - Last ELSE s + k
  BY <1>1 DEF Around
<1>3. ASSUME k < Last PROVE Turned(s + k) = Around(s + k)
  <2>1. CASE s + k > Last
    <3> DEFINE d == s + k - Last - 1
    <3>1. d \in 0..(Last - 1)
      BY <1>1, <1>3, <2>1
    <3>2. \A b \in Nat : \A e \in 0..(b - 1) : e % b = e
      OBVIOUS
    <3>3. d % Last = d
      BY <3>1, <3>2, <1>1
    <3>4. Last + 1 - First = Last
      BY <1>1
    <3>5. Turned(s + k) = 1 + d
      BY <1>1, <2>1, <3>3, <3>4 DEF Turned
    <3> QED BY <3>5, <1>1, <1>2, <2>1
  <2> QED BY <2>1, <1>1, <1>2 DEF Turned
<1> QED BY <1>1, <1>2, <1>3

\* The sectors of an arc are those its first sector reaches in n steps.
LEMMA Along ==
  ASSUME NEW s \in Ring, NEW n \in 0..Last
  PROVE  /\ \A k \in 0..(Last - 1) : Turned(s + k) \in Ring /\ (Turned(s + k) \in Arc(s, n) <=> k < n)
         /\ \A x \in Ring : \E k \in 0..(Last - 1) : x = Turned(s + k)
         /\ n >= 1 => s \in Arc(s, n)
         /\ n = Last => Arc(s, n) = Ring
<1>1. Last \in Nat /\ Last >= 1 /\ Ring = 1..Last
  BY Constants
<1>2. ASSUME NEW k \in 0..(Last - 1)
      PROVE Turned(s + k) \in Ring /\ (Turned(s + k) \in Arc(s, n) <=> k < n)
  <2>1. k \in 0..Last /\ k < Last
    BY <1>1
  <2>2. Turned(s + k) = (IF s + k > Last THEN s + k - Last ELSE s + k) /\ Turned(s + k) \in Ring
    BY <2>1, Turning
  <2> QED BY <2>2, <1>1 DEF Arc
<1>3. ASSUME NEW x \in Ring PROVE \E k \in 0..(Last - 1) : x = Turned(s + k)
  <2> DEFINE k == IF x >= s THEN x - s ELSE x - s + Last
  <2>1. k \in 0..(Last - 1) /\ k \in 0..Last /\ k < Last /\ x = IF s + k > Last THEN s + k - Last ELSE s + k
    BY <1>1
  <2> HIDE DEF k
  <2>2. x = Turned(s + k)
    BY <2>1, Turning
  <2> QED BY <2>1, <2>2
<1> QED BY <1>1, <1>2, <1>3 DEF Arc

\* Who comes from an arc into another one, and not at its start, was in both.
LEMMA Entering ==
  ASSUME NEW a \in Ring, NEW m \in 1..Last, NEW s \in Ring, NEW n \in 1..Last,
         NEW z, z = Around(a + m), z \in Arc(s, n), z # s
  PROVE  \E p \in Arc(a, m) : p \in Arc(s, n)
<1>1. Last \in Nat /\ Last >= 1 /\ Ring = 1..Last
  BY Constants
<1> DEFINE p == IF z = 1 THEN Last ELSE z - 1
<1>2. z \in Ring /\ z = IF a + m > Last THEN a + m - Last ELSE a + m
  BY <1>1, Turning
<1>3. p \in Ring
  BY <1>1, <1>2
<1>4. p \in Arc(a, m)
  BY <1>1, <1>2, <1>3 DEF Arc
<1>5. p \in Arc(s, n)
  BY <1>1, <1>2, <1>3 DEF Arc
<1> QED BY <1>4, <1>5

\* Behind an arc b, what lies outside the arc follows in the same order.
LEMMA Following ==
  ASSUME NEW y \in Ring, NEW n \in 1..Last, NEW z, z = Around(y + n)
  PROVE  /\ z = y \/ z \notin Arc(y, n)
         /\ z = y => n = Last
         /\ \A t \in Ring : t \notin Arc(y, n) /\ t # z => Cyc(t, y, z)
         /\ \A t, u \in Ring : t \notin Arc(y, n) /\ u \notin Arc(y, n) /\ t # z /\ u # z /\ Cyc(t, u, y)
                => Cyc(t, u, z)
         /\ \A t \in Ring : t \notin Arc(y, n) => ~Cyc(t, z, y)
<1>1. Last \in Nat /\ Last >= 1 /\ Ring = 1..Last
  BY Constants
<1>2. z \in Ring /\ z = IF y + n > Last THEN y + n - Last ELSE y + n
  BY <1>1, Turning
<1>3. z = y \/ z \notin Arc(y, n)
  BY <1>1, <1>2 DEF Arc
<1>4. z = y => n = Last
  BY <1>1, <1>2
<1>5. \A t \in Ring : t \notin Arc(y, n) /\ t # z => Cyc(t, y, z)
  BY <1>1, <1>2 DEF Arc, Cyc
<1>6. \A t, u \in Ring : t \notin Arc(y, n) /\ u \notin Arc(y, n) /\ t # z /\ u # z /\ Cyc(t, u, y)
                => Cyc(t, u, z)
  BY <1>1, <1>2 DEF Arc, Cyc
<1>7. \A t \in Ring : t \notin Arc(y, n) => ~Cyc(t, z, y)
  BY <1>1, <1>2 DEF Arc, Cyc
<1> QED BY <1>3, <1>4, <1>5, <1>6, <1>7

\* What the ring meets after an arc from z is not before its end.
LEMMA Beyond ==
  ASSUME NEW z \in Ring, NEW m \in 1..Last, NEW x, x = Around(z + m), x # z
  PROVE  \A t \in Ring : Cyc(t, x, z) => t \in Arc(z, m)
<1>1. Last \in Nat /\ Last >= 1 /\ Ring = 1..Last
  BY Constants
<1>2. x \in Ring /\ x = IF z + m > Last THEN z + m - Last ELSE z + m
  BY <1>1, Turning
<1> QED BY <1>1, <1>2 DEF Arc, Cyc
-----------------------------------------------------------------------------
(* Least and greatest numbers.                                              *)

LEMMA Least ==
  ASSUME NEW T \in SUBSET Nat, T # {}
  PROVE  \E x \in T : \A y \in T : x <= y
<1> DEFINE R == StrictSubsetOrdering(Nat)   F == {0..x : x \in T}
<1>1. IsWellFoundedOn(R, FiniteSubsetsOf(Nat))
  BY FS_StrictSubsetOrderingWellFounded
<1>2. F \subseteq FiniteSubsetsOf(Nat)
  <2> SUFFICES ASSUME NEW x \in T PROVE 0..x \in FiniteSubsetsOf(Nat)
    OBVIOUS
  <2>1. IsFiniteSet(0..x)
    BY FS_Interval
  <2> QED BY <2>1 DEF FiniteSubsetsOf
<1>3. F # {}
  OBVIOUS
<1>4. \E X \in F : \A Y \in F : ~(<<Y, X>> \in R)
  BY <1>1, <1>2, <1>3, WFMin
<1>5. PICK x \in T : \A Y \in F : ~(<<Y, 0..x>> \in R)
  BY <1>4
<1>6. ASSUME NEW y \in T PROVE x <= y
  <2>1. ~(<<0..y, 0..x>> \in R)
    BY <1>5
  <2>2. ~(0..y \subseteq 0..x /\ 0..y # 0..x)
    BY <2>1 DEF StrictSubsetOrdering
  <2>3. ASSUME y < x PROVE FALSE
    <3>1. 0..y \subseteq 0..x /\ x \in 0..x /\ x \notin 0..y
      BY <2>3
    <3> QED BY <3>1, <2>2
  <2> QED BY <2>3
<1> QED BY <1>6

LEMMA Greatest ==
  ASSUME NEW n \in Nat, NEW T \in SUBSET (0..n), T # {}
  PROVE  \E x \in T : \A y \in T : y <= x
<1> DEFINE D == {n - x : x \in T}
<1>1. D \in SUBSET Nat /\ D # {}
  <2>1. \A x \in T : n - x \in Nat
    OBVIOUS
  <2> QED BY <2>1
<1>2. PICK d \in D : \A e \in D : d <= e
  BY <1>1, Least
<1>3. PICK x \in T : d = n - x
  OBVIOUS
<1>4. \A y \in T : n - x <= n - y
  BY <1>2, <1>3
<1> QED BY <1>4
-----------------------------------------------------------------------------
(* The scans.                                                               *)

LEMMA HeadFacts ==
  ASSUME TypeOK, Flash
  PROVE  /\ \A s \in Headed : /\ s \in Ring /\ Long(s) \in 1..Last /\ Valid(s) /\ Jump(s) = Long(s)
                              /\ Gn(s) \in Gen /\ Gn(s) <= made /\ s \in Arc(s, Long(s))
                              /\ head[s].index \in 0..(IndexMod - 1) /\ head[s] \in Headers
         /\ \A s, t \in Headed : t \in Arc(s, Long(s)) => t = s
         /\ \A s \in Sector : s \notin Headed => ~Valid(s) /\ Jump(s) = 1
<1>1. Last \in Nat /\ Last >= 1 /\ First = 1 /\ Ring = 1..Last /\ Sector = 0..Last /\ Total = Last * S
  BY Constants
<1>2. ASSUME NEW s \in Headed
      PROVE  /\ s \in Ring /\ Long(s) \in 1..Last /\ Valid(s) /\ Jump(s) = Long(s)
             /\ Gn(s) \in Gen /\ Gn(s) <= made /\ s \in Arc(s, Long(s))
             /\ head[s].index \in 0..(IndexMod - 1) /\ head[s] \in Headers
  <2>1. s \in Ring /\ head[s] # NoHead /\ s \in Sector
    BY <1>1 DEF Headed
  <2>2. head[s] \in Headers
    BY <2>1 DEF TypeOK
  <2>3. head[s].len \in 1..Total
    BY DEF Flash
  <2>4. Long(s) \in 1..Last
    <3>1. head[s].len \in Nat /\ head[s].len > 0 /\ head[s].len <= Last * S
      BY <2>2, <2>3, <1>1 DEF Headers
    <3>2. Long(s) <= Last /\ Long(s) >= 1
      BY <3>1, <1>1, SectorsWithin DEF Long
    <3>3. Long(s) \in Nat
      BY <3>1, SectorsOf DEF Long
    <3> QED BY <3>2, <3>3, <1>1
  <2>5. Valid(s) /\ Jump(s) = Long(s)
    <3>1. head[s].len <= Total /\ head[s].len > 0
      BY <2>2, <2>3 DEF Headers
    <3> QED BY <2>1, <3>1 DEF Valid, Jump, Long
  <2>6. s \in Arc(s, Long(s))
    BY <2>1, <2>4, <1>1 DEF Arc
  <2> QED BY <2>1, <2>2, <2>4, <2>5, <2>6 DEF Gn, Headers, Flash
<1>3. ASSUME NEW s \in Headed, NEW t \in Headed, t \in Arc(s, Long(s)) PROVE t = s
  BY <1>2, <1>3 DEF Flash
<1>4. ASSUME NEW s \in Sector, s \notin Headed PROVE ~Valid(s) /\ Jump(s) = 1
  <2>1. head[s] = NoHead
    BY <1>1, <1>4 DEF Headed, Flash
  <2> QED BY <2>1 DEF Valid, Jump
<1> QED BY <1>2, <1>3, <1>4

\* rec_pfs_scan misses no recording, and takes nothing else for one.
LEMMA AllFound == TypeOK /\ Flash => Found = Headed
<1> SUFFICES ASSUME TypeOK, Flash PROVE Found = Headed
  OBVIOUS
<1>1. Last \in Nat /\ Last >= 1 /\ First = 1 /\ Ring = 1..Last /\ Sector = 0..Last
  BY Constants
<1>2. Found \subseteq Headed
  BY DEF Found, Reached, Headed, Valid
<1>3. ASSUME NEW h \in Headed, NEW R \in SUBSET Ring, First \in R, Onward(R) PROVE h \in R
  <2> DEFINE U == {s \in Ring : \A t \in Headed : t < s => t + Long(t) <= s}
  <2>1. Headed \subseteq U
    <3> SUFFICES ASSUME NEW s \in Headed, NEW t \in Headed, t < s PROVE t + Long(t) <= s
      BY DEF Headed
    <3>1. s \in Ring /\ t \in Ring /\ Long(t) \in 1..Last
      BY HeadFacts
    <3>2. s \notin Arc(t, Long(t))
      BY <3>1, <1>1, HeadFacts
    <3> QED BY <3>1, <3>2, <1>1 DEF Arc
  <2>2. ASSUME U \ R # {} PROVE FALSE
    <3>1. U \ R \in SUBSET Nat
      BY <1>1
    <3>2. PICK x \in U \ R : \A y \in U \ R : x <= y
      BY <2>2, <3>1, Least
    <3>3. x \in 2..Last /\ x - 1 \in Ring /\ x - 1 \in Sector
      BY <3>2, <1>1, <1>3
    <3>4. CASE x - 1 \in U
      <4>1. x - 1 \in R
        BY <3>2, <3>3, <3>4
      <4>2. Jump(x - 1) = 1
        <5>1. CASE x - 1 \in Headed
          <6>1. Long(x - 1) \in 1..Last /\ Jump(x - 1) = Long(x - 1)
            BY <5>1, HeadFacts
          <6>2. (x - 1) + Long(x - 1) <= x
            BY <5>1, <3>2, <3>3
          <6> QED BY <6>1, <6>2, <3>3
        <5> QED BY <5>1, <3>3, HeadFacts
      <4>3. (x - 1) + Jump(x - 1) = x
        BY <4>2, <3>3
      <4> QED BY <4>1, <4>3, <3>2, <1>3 DEF Onward
    <3>5. CASE x - 1 \notin U
      <4>1. PICK t \in Headed : t < x - 1 /\ ~(t + Long(t) <= x - 1)
        BY <3>3, <3>5
      <4>2. t \in Ring /\ Long(t) \in 1..Last /\ Jump(t) = Long(t)
        BY HeadFacts
      <4>3. t + Jump(t) = x
        BY <4>1, <4>2, <3>2, <3>3, <1>1
      <4>4. t \in R
        BY <4>1, <4>2, <2>1, <3>2, <3>3, <1>1
      <4> QED BY <4>3, <4>4, <3>2, <1>3 DEF Onward
    <3> QED BY <3>4, <3>5
  <2> QED BY <2>1, <2>2
<1>4. Headed \subseteq Found
  <2>1. \A h \in Headed : h \in Ring /\ Valid(h)
    BY HeadFacts
  <2> QED BY <2>1, <1>3 DEF Found, Reached
<1> QED BY <1>2, <1>4

\* The search ends, begun at any sector that no recording runs over.
LEMMA Ends ==
  ASSUME TypeOK, Flash, NEW i, NEW p \in Ring,
         \A t \in Headed : p \in Arc(t, Long(t)) => p = t
  PROVE  Stops(i, p)
<1>1. Last \in Nat /\ Last >= 1 /\ First = 1 /\ Ring = 1..Last /\ Sector = 0..Last
  BY Constants
<1> SUFFICES ASSUME Search(i, p) = {}, \A s \in Walk(i, p) : Step(s) # p PROVE FALSE
  BY DEF Stops
<1> DEFINE W == Walk(i, p)
           Closed(R) == p \in R /\ \A t \in R : Holds(t, i) \/ Step(t) \in R
<1>2. W = {s \in Sector : \A R \in SUBSET Sector : Closed(R) => s \in R}
  BY DEF Walk
<1>3. \A s \in Ring : Jump(s) \in Nat /\ Jump(s) >= 1 /\ Step(s) \in Ring
  <2> SUFFICES ASSUME NEW s \in Ring PROVE Jump(s) \in Nat /\ Jump(s) >= 1 /\ Step(s) \in Ring
    OBVIOUS
  <2>1. Jump(s) \in Nat /\ Jump(s) >= 1
    <3>1. CASE s \in Headed
      BY <3>1, <1>1, HeadFacts
    <3> QED BY <3>1, <1>1, HeadFacts
  <2> QED BY <2>1, <1>1 DEF Step
<1>4. W \subseteq Ring
  <2>1. Ring \in SUBSET Sector /\ p \in Ring
    BY <1>1
  <2>2. \A t \in Ring : Step(t) \in Ring
    BY <1>3
  <2>3. Closed(Ring)
    BY <2>1, <2>2, Zenon
  <2> HIDE DEF Closed
  <2> QED BY <2>1, <2>3, <1>2, Zenon
<1>5. p \in W
  BY <1>1, <1>2
<1>6. \A s \in W : Step(s) \in W
  <2> SUFFICES ASSUME NEW s \in W PROVE Step(s) \in W
    OBVIOUS
  <2>3. Step(s) \in Sector
    <3>1. Step(s) \in Ring
      BY <1>3, <1>4, Zenon
    <3>2. Ring \subseteq Sector
      BY <1>1
    <3> QED BY <3>1, <3>2, Zenon
  <2> SUFFICES ASSUME NEW R \in SUBSET Sector, Closed(R) PROVE Step(s) \in R
    BY <2>3, <1>2
  <2>1. s \in R
    BY <1>2
  <2>2. ~Holds(s, i)
    BY DEF Search
  <2> QED BY <2>1, <2>2
<1>7. \A s \in W : Step(s) # p
  OBVIOUS
<1> HIDE DEF W
<1>8. \A t \in Ring : t < p => t + Jump(t) <= p
  <2> SUFFICES ASSUME NEW t \in Ring, t < p PROVE t + Jump(t) <= p
    OBVIOUS
  <2>1. CASE t \in Headed
    <3>1. Jump(t) = Long(t) /\ Long(t) \in 1..Last /\ p \notin Arc(t, Long(t))
      BY <2>1, <1>1, HeadFacts
    <3> QED BY <3>1, <1>1 DEF Arc
  <2>2. CASE t \notin Headed
    <3>1. Jump(t) = 1
      BY <2>2, <1>1, HeadFacts
    <3> QED BY <3>1, <1>1
  <2> QED BY <2>1, <2>2
<1>9. First \in W
  <2>1. W \in SUBSET (0..Last)
    BY <1>1, <1>4
  <2>2. PICK g \in W : \A y \in W : y <= g
    BY <2>1, <1>1, <1>5, Greatest
  <2>3. Step(g) \in W /\ Step(g) <= g /\ g \in Ring /\ Jump(g) \in Nat /\ Jump(g) >= 1
    BY <2>2, <1>3, <1>4, <1>6
  <2> QED BY <2>3, <1>1 DEF Step
<1>10. PICK g \in W : g + Jump(g) > Last
  <2>1. W \in SUBSET (0..Last)
    BY <1>1, <1>4
  <2>2. PICK g \in W : \A y \in W : y <= g
    BY <2>1, <1>1, <1>5, Greatest
  <2>3. Step(g) \in W /\ Step(g) <= g /\ g \in Ring /\ Jump(g) \in Nat /\ Jump(g) >= 1
    BY <2>2, <1>3, <1>4, <1>6
  <2>4. g + Jump(g) > Last
    BY <2>3, <1>1 DEF Step
  <2> QED BY <2>4
<1>11. First < p
  BY <1>1, <1>7, <1>10 DEF Step
<1>12. PICK b \in W : b < p /\ \A y \in W : y < p => y <= b
  <2> DEFINE B == {w \in W : w < p}
  <2>1. B \subseteq W /\ First \in B
    BY <1>9, <1>11
  <2>3. B \in SUBSET (0..Last) /\ B # {}
    <3>1. W \in SUBSET (0..Last)
      BY <1>1, <1>4
    <3> HIDE DEF B
    <3> QED BY <2>1, <3>1
  <2>2. PICK b \in B : \A y \in B : y <= b
    BY <2>3, <1>1, Greatest
  <2> QED BY <2>2
<1>13. b \in Ring /\ Jump(b) \in Nat /\ Jump(b) >= 1 /\ b + Jump(b) <= p
  BY <1>3, <1>4, <1>8, <1>12
<1>14. Step(b) = b + Jump(b)
  BY <1>13, <1>1 DEF Step
<1>15. Step(b) \in W /\ Step(b) # p
  BY <1>6, <1>7
<1> QED BY <1>12, <1>13, <1>14, <1>15, <1>1

\* The newest index is that of the youngest recording.
LEMMA NewestIsYoungest ==
  ASSUME TypeOK, Flash, Headed # {}
  PROVE  Youngest(NewestFound)
<1>1. Found = Headed
  BY AllFound
<1>2. MaxMade \in Nat /\ Gen = 1..MaxMade
  BY Constants
<1> DEFINE T == {Gn(s) : s \in Headed}
<1>3. T \in SUBSET (0..MaxMade) /\ T # {}
  BY <1>2, HeadFacts
<1>4. PICK g \in T : \A f \in T : f <= g
  BY <1>2, <1>3, Greatest
<1>5. PICK y \in Headed : g = Gn(y)
  OBVIOUS
<1>6. \A t \in Headed : Gn(t) <= Gn(y)
  BY <1>4, <1>5
<1>7. \A t \in Headed : Gn(t) \in Nat /\ head[t].index \in Int
  <2>1. \A t \in Headed : Gn(t) \in Gen /\ head[t].index \in 0..(IndexMod - 1)
    BY HeadFacts, Zenon
  <2> QED BY <2>1, <1>2
<1>8. \A t \in Headed : t # y => head[t].index < head[y].index
  BY <1>6, <1>7 DEF Flash
<1>9. \A t \in Found : Latest(y, t)
  BY <1>1, <1>7, <1>8, <1>2, HeadFacts, Constants DEF Latest
<1>10. NewestFound \in Found /\ \A t \in Found : Latest(NewestFound, t)
  BY <1>1, <1>9 DEF NewestFound
<1>11. NewestFound = y
  BY <1>1, <1>7, <1>8, <1>10 DEF Latest
<1> QED BY <1>6, <1>11 DEF Youngest
-----------------------------------------------------------------------------
(* Erasing, and the beginning and growth of a recording.                    *)

LEMMA Small == \A b \in Nat : \A e \in 0..(b - 1) : e % b = e
OBVIOUS

\* An erase takes at most the recording that begins there, if no other runs over it.
LEMMA Erasing ==
  ASSUME TypeOK, Flash, NEW x \in Ring, Erase(x), made' \in Nat, made' >= made,
         \A t \in Headed : x \in Arc(t, Long(t)) => t = x
  PROVE  /\ Flash' /\ Headed' = Headed \ {x}
         /\ \A s \in Sector : s # x => head'[s] = head[s] /\ owner'[s] = owner[s]
         /\ head'[x] = NoHead /\ owner'[x] = Blank
         /\ head' \in [Sector -> Headers \cup {NoHead}] /\ owner' \in [Sector -> 0..Junk]
<1>1. Last \in Nat /\ Ring = 1..Last /\ Sector = 0..Last /\ Blank \in 0..Junk /\ 0 \in Sector /\ x # 0
  BY Constants
<1>2. /\ head' = [head EXCEPT ![x] = NoHead] /\ owner' = [owner EXCEPT ![x] = Blank]
      /\ head \in [Sector -> Headers \cup {NoHead}] /\ owner \in [Sector -> 0..Junk] /\ x \in Sector
  BY <1>1 DEF Erase, TypeOK
<1>3. /\ \A s \in Sector : s # x => head'[s] = head[s] /\ owner'[s] = owner[s]
      /\ head'[x] = NoHead /\ owner'[x] = Blank
  BY <1>2
<1>4. head' \in [Sector -> Headers \cup {NoHead}] /\ owner' \in [Sector -> 0..Junk]
  BY <1>1, <1>2
<1>5. Headed' = Headed \ {x}
  BY <1>1, <1>3 DEF Headed
<1>6. \A s \in Headed' : s \in Headed /\ s # x /\ head'[s] = head[s]
  BY <1>1, <1>3, <1>5 DEF Headed
<1>7. Flash'
  <2>1. head'[0] = NoHead
    BY <1>1, <1>3 DEF Flash
  <2>2. ASSUME NEW s \in Headed', NEW y \in Arc(s, Long(s)) PROVE owner'[y] = Gn(s)
    <3>1. y # x /\ y \in Sector
      BY <1>1, <1>6 DEF Arc
    <3> QED BY <3>1, <1>3, <1>6 DEF Flash
  <2>3. \A s \in Headed' : Gn(s)' = Gn(s) /\ Long(s)' = Long(s) /\ Gn(s) \in Nat
    BY <1>6, HeadFacts, Constants DEF Gn, Long
  <2>4. \A s \in Headed' : head'[s].len \in 1..Total
    BY <1>6 DEF Flash
  <2>5. \A s \in Headed' : \A y \in Arc(s, Long(s)') : owner'[y] = Gn(s)'
    BY <2>2, <2>3
  <2>6. \A s, t \in Headed' : Gn(s)' = Gn(t)' => s = t
    BY <2>3, <1>6 DEF Flash
  <2>7. \A s, t \in Headed' : Gn(s)' < Gn(t)' => head'[s].index < head'[t].index
    BY <2>3, <1>6 DEF Flash
  <2>8. \A s, t, u \in Headed' : Gn(s)' < Gn(t)' /\ Gn(t)' < Gn(u)' => Cyc(s, t, u)
    BY <2>3, <1>6 DEF Flash
  <2>9. \A s \in Headed' : head'[s].index <= Gn(s)' /\ Gn(s)' <= made'
    <3>1. \A s \in Headed : head[s].index <= Gn(s) /\ Gn(s) <= made
      BY DEF Flash
    <3> QED BY <3>1, <2>3, <1>6 DEF TypeOK
  <2> QED BY <2>1, <2>4, <2>5, <2>6, <2>7, <2>8, <2>9 DEF Flash
<1> QED BY <1>3, <1>4, <1>5, <1>7

\* The sector behind the newest recording: who begins there, is the oldest one.
LEMMA Behind ==
  ASSUME TypeOK, Flash, NEW y \in Headed, Youngest(y), NEW z, z = Around(y + Long(y))
  PROVE  /\ z \in Ring
         /\ \A t \in Headed : z \in Arc(t, Long(t)) => t = z
         /\ z = y => Headed = {y}
         /\ z \in Headed => \A t \in Headed : Gn(z) <= Gn(t)
         /\ \A t, u \in Headed \ {z} : Gn(t) < Gn(u) => Cyc(t, u, z)
<1>1. Last \in Nat /\ Ring = 1..Last
  BY Constants
<1>2. y \in Ring /\ Long(y) \in 1..Last /\ Long(y) \in 0..Last
  BY <1>1, HeadFacts
<1>3. z \in Ring
  BY <1>1, <1>2, Turning
<1>4. \A t \in Headed : t # y => t \in Ring /\ t \notin Arc(y, Long(y))
  BY HeadFacts
<1>5. ASSUME NEW t \in Headed, z \in Arc(t, Long(t)), t # z PROVE FALSE
  <2>1. t \in Ring /\ Long(t) \in 1..Last
    BY HeadFacts
  <2>2. PICK p \in Arc(y, Long(y)) : p \in Arc(t, Long(t))
    BY <1>2, <1>5, <2>1, Entering
  <2>3. t = y
    BY <2>2 DEF Flash
  <2> QED BY <1>2, <1>5, <2>3, Following
<1>6. ASSUME z = y PROVE Headed = {y}
  <2>1. Long(y) = Last
    BY <1>2, <1>6, Following
  <2>2. Arc(y, Long(y)) = Ring
    BY <1>2, <2>1, Along
  <2> QED BY <1>4, <2>2
<1>7. \A t \in Headed : Gn(t) \in Nat /\ (t # y => Gn(t) < Gn(y))
  <2>1. \A t \in Headed : Gn(t) \in Nat
    BY HeadFacts, Constants
  <2> QED BY <2>1 DEF Youngest, Flash
<1>8. ASSUME z \in Headed, NEW t \in Headed, Gn(t) < Gn(z) PROVE FALSE
  <2>1. z # y /\ t # y
    BY <1>6, <1>7, <1>8
  <2>2. Cyc(t, z, y)
    BY <1>7, <1>8, <2>1 DEF Flash
  <2> QED BY <1>2, <1>4, <2>1, <2>2, Following
<1>9. ASSUME NEW t \in Headed \ {z}, NEW u \in Headed \ {z}, Gn(t) < Gn(u) PROVE Cyc(t, u, z)
  <2>1. t # y
    BY <1>7, <1>9
  <2>2. CASE u = y
    BY <1>2, <1>4, <2>1, <2>2, Following
  <2>3. CASE u # y
    <3>1. Cyc(t, u, y)
      BY <1>7, <1>9, <2>3 DEF Flash
    <3> QED BY <1>2, <1>4, <2>1, <2>3, <3>1, Following
  <2> QED BY <2>2, <2>3
<1> QED BY <1>3, <1>5, <1>6, <1>7, <1>8, <1>9

\* What a create erases, and where it begins.
LEMMA Beginning ==
  ASSUME TypeOK, Flash, Known, mounted
  PROVE  LET z == After(newest.sector) IN
         /\ z \in Ring
         /\ \A t \in Headed : z \in Arc(t, Long(t)) => t = z
         /\ z = newest.sector => Headed \subseteq {z}
         /\ z \in Headed => \A t \in Headed : Gn(z) <= Gn(t)
         /\ \A t, u \in Headed \ {z} : Gn(t) < Gn(u) => Cyc(t, u, z)
<1>1. newest.sector \in Ring /\ newest.sector \in Sector
  BY Constants DEF Known
<1>2. CASE Headed = {}
  <2>1. ~Valid(newest.sector)
    BY <1>1, <1>2, HeadFacts
  <2> QED BY <1>1, <1>2, <2>1 DEF After
<1>3. CASE Headed # {}
  <2>1. Youngest(newest.sector) /\ newest.sector \in Headed
    BY <1>3 DEF Known, Youngest
  <2>2. After(newest.sector) = Around(newest.sector + Long(newest.sector))
    BY <2>1, HeadFacts DEF After, Long
  <2> QED BY <2>1, <2>2, Behind
<1> QED BY <1>2, <1>3

LEMMA CreateHolds == ASSUME MaxMade < IndexMod PROVE IInv /\ Create => IInv'
<1> SUFFICES ASSUME IInv, Create PROVE IInv'
  OBVIOUS
<1>1. /\ Last \in Nat /\ Last >= 1 /\ Ring = 1..Last /\ Sector = 0..Last /\ MaxMade \in Nat
      /\ IndexMod \in Nat /\ S \in Nat /\ S >= 2 /\ H \in 1..(S - 1)
  BY Constants
<1>2. TypeOK /\ Flash /\ Known /\ Under /\ LastKept
  BY DEF IInv
<1> DEFINE z == After(newest.sector)
           i == (newest.index + 1) % IndexMod
           f == [sector |-> z, index |-> i, len |-> S, rw |-> H, busy |-> 0, stop |-> FALSE]
<1>3. mounted /\ file = NoFile /\ made < MaxMade /\ made \in Nat /\ newest.index \in Nat /\ newest.index <= made
  BY <1>1, <1>2 DEF Create, TypeOK, Known
<1>4. i = newest.index + 1
  BY <1>1, <1>3, Small
<1>5. /\ z \in Ring
      /\ \A t \in Headed : z \in Arc(t, Long(t)) => t = z
      /\ z = newest.sector => Headed \subseteq {z}
      /\ \A t, u \in Headed \ {z} : Gn(t) < Gn(u) => Cyc(t, u, z)
  BY <1>2, <1>3, Beginning
<1> HIDE DEF z, i
<1>6. Erase(z) /\ file' = f /\ last' = i /\ made' = made + 1 /\ UNCHANGED <<newest, mounted>> /\ lost' = FALSE
  BY <1>5 DEF Create, z, i
<1>7. /\ Flash' /\ Headed' = Headed \ {z}
      /\ \A s \in Sector : s # z => head'[s] = head[s] /\ owner'[s] = owner[s]
      /\ head'[z] = NoHead /\ owner'[z] = Blank
      /\ head' \in [Sector -> Headers \cup {NoHead}] /\ owner' \in [Sector -> 0..Junk]
  BY <1>2, <1>3, <1>5, <1>6, Erasing
<1>8. \A s \in Headed' : s \in Headed /\ s \in Sector /\ s # z /\ head'[s] = head[s] /\ Gn(s)' = Gn(s)
  BY <1>1, <1>7 DEF Headed, Gn
<1>13. f \in Files /\ i \in 0..(IndexMod - 1) /\ file' \in Files
  BY <1>1, <1>3, <1>4, <1>5, <1>6 DEF Files
<1>9. TypeOK'
  <2>1. made' \in 0..MaxMade
    BY <1>1, <1>3, <1>6
  <2>3. lost' \in BOOLEAN /\ last' \in 0..(IndexMod - 1)
    BY <1>6, <1>13
  <2>2. newest' \in [index : 0..(IndexMod - 1), sector : Sector] /\ mounted' \in BOOLEAN
    BY <1>2, <1>6 DEF TypeOK
  <2> QED BY <1>7, <1>13, <2>1, <2>2, <2>3 DEF TypeOK
<1>10. Known'
  <2>1. ASSUME Headed' # {} PROVE Youngest(newest.sector)' /\ newest.index = head'[newest.sector].index
    <3>1. Youngest(newest.sector) /\ newest.index = head[newest.sector].index
      BY <1>2, <1>3, <1>7, <2>1 DEF Known
    <3>2. newest.sector \in Headed /\ newest.sector # z
      BY <1>5, <1>7, <2>1, <3>1 DEF Youngest
    <3>3. newest.sector \in Headed' /\ head'[newest.sector] = head[newest.sector]
      BY <1>7, <1>8, <3>2
    <3>4. \A t \in Headed' : Gn(t)' <= head'[newest.sector].gen
      BY <1>8, <3>1, <3>3 DEF Youngest, Gn
    <3> QED BY <1>6, <3>1, <3>3, <3>4 DEF Youngest, Gn
  <2> QED BY <1>2, <1>3, <1>6, <2>1 DEF Known
<1>11. Under'
  <2>1. Room(f) = 1 /\ S = 1 * S
    BY <1>1, SectorsWithin DEF Room
  <2>2. Arc(z, 1) = {z}
    BY <1>1, <1>5 DEF Arc
  <2>3. \A t \in Headed' : Gn(t)' < made'
    BY <1>1, <1>2, <1>3, <1>6, <1>8, HeadFacts, Constants
  <2>4. \A t, u \in Headed' : Gn(t)' < Gn(u)' => Cyc(t, u, z)
    BY <1>5, <1>7, <1>8
  <2>5. f.sector = z /\ f.index = i /\ f.len = S /\ f.rw = H
    OBVIOUS
  <2> HIDE DEF f
  <2>6. \A x \in Arc(f.sector, Room(f)) : head'[x] = NoHead /\ owner'[x] \in {Blank, made'}
    BY <1>7, <2>1, <2>2, <2>5
  <2> QED BY <1>1, <1>3, <1>4, <1>5, <1>6, <2>1, <2>3, <2>4, <2>5, <2>6 DEF Under, Room
<1>12. LastKept'
  <2>1. file' # NoFile
    BY <1>13, AbsenceAssumption
  <2> QED BY <2>1 DEF LastKept
<1> QED BY <1>7, <1>9, <1>10, <1>11, <1>12 DEF IInv
\* The recording under way, and what the others have to do with its room.
LEMMA UnderWay ==
  ASSUME IInv, file # NoFile
  PROVE  /\ file \in Files /\ file.sector \in Ring /\ file.len \in Nat /\ file.rw \in Nat /\ file.busy \in Nat
         /\ Room(file) \in 1..Last /\ file.len = Room(file) * S
         /\ H <= file.rw /\ file.rw <= file.len /\ made \in Gen /\ mounted
         /\ \A x \in Arc(file.sector, Room(file)) : head[x] = NoHead /\ owner[x] \in {Blank, made}
         /\ \A t \in Headed : Gn(t) < made /\ Gn(t) # Blank
         /\ \A t \in Headed : \A y \in Arc(t, Long(t)) : y \notin Arc(file.sector, Room(file))
<1>1. file \in Files /\ file.len \in Nat /\ file.rw \in Nat /\ file.busy \in Nat
  BY DEF IInv, TypeOK, Files
<1>2. /\ file.sector \in Ring /\ Room(file) \in 1..Last /\ file.len = Room(file) * S
      /\ H <= file.rw /\ file.rw <= file.len /\ made >= 1 /\ mounted
      /\ \A x \in Arc(file.sector, Room(file)) : head[x] = NoHead /\ owner[x] \in {Blank, made}
      /\ \A t \in Headed : Gn(t) < made
  BY DEF IInv, Under
<1>3. made \in Gen /\ made \in Nat
  BY <1>2, Constants DEF IInv, TypeOK
<1>4. \A t \in Headed : Gn(t) \in Gen
  BY HeadFacts DEF IInv
<1>5. \A t \in Headed : Gn(t) < made /\ Gn(t) # Blank /\ Gn(t) # made
  BY <1>2, <1>3, <1>4, Constants
<1>6. \A t \in Headed : \A y \in Arc(t, Long(t)) : owner[y] = Gn(t)
  BY DEF IInv, Flash
<1> QED BY <1>1, <1>2, <1>3, <1>5, <1>6

\* The sector a growing recording takes next.
LEMMA Growing ==
  ASSUME IInv, file # NoFile, NEW x, x = Growth(file), x # file.sector
  PROVE  /\ x \in Ring /\ Room(file) < Last
         /\ \A t \in Headed : x \in Arc(t, Long(t)) => t = x
         /\ x = newest.sector => Headed \subseteq {x}
         /\ x \in Headed => \A t \in Headed : Gn(x) <= Gn(t)
         /\ \A y \in Arc(file.sector, Room(file) + 1) : y = x \/ y \in Arc(file.sector, Room(file))
         /\ \A n \in 0..Room(file) : \A y \in Arc(file.sector, n) : y # x /\ y \in Arc(file.sector, Room(file))
<1> DEFINE z == file.sector   m == Room(file)
<1>1. Last \in Nat /\ Last >= 1 /\ Ring = 1..Last
  BY Constants
<1>2. z \in Ring /\ m \in 1..Last /\ m \in 0..Last
  BY <1>1, UnderWay
<1>3. x = Around(z + m)
  BY DEF Growth, Room
<1>4. x \in Ring /\ x = (IF z + m > Last THEN z + m - Last ELSE z + m)
  BY <1>1, <1>2, <1>3, Turning
<1> HIDE DEF z, m
<1>5. m < Last
  BY <1>1, <1>2, <1>4 DEF z
<1>6. ASSUME NEW t \in Headed, x \in Arc(t, Long(t)), t # x PROVE FALSE
  <2>1. t \in Ring /\ Long(t) \in 1..Last
    BY HeadFacts DEF IInv
  <2>2. PICK p \in Arc(z, m) : p \in Arc(t, Long(t))
    BY <1>2, <1>3, <1>6, <2>1, Entering
  <2> QED BY <2>2, UnderWay DEF z, m
<1>7. ASSUME x \in Headed, NEW t \in Headed, t # x, Gn(t) < Gn(x) PROVE FALSE
  <2>1. Cyc(t, x, z)
    BY <1>7 DEF IInv, Under, Headed, z
  <2>2. t \in Arc(z, m)
    BY <1>2, <1>3, <2>1, Beyond DEF z, Headed
  <2> QED BY <2>2, UnderWay DEF z, m, Headed
<1>8. ASSUME x = newest.sector, NEW t \in Headed, t # x PROVE FALSE
  <2>1. Youngest(x) /\ x \in Headed
    BY <1>8, UnderWay DEF IInv, Known, Youngest
  <2>2. Gn(t) \in Nat /\ Gn(x) \in Nat
    BY <2>1, HeadFacts, Constants DEF IInv
  <2>3. Gn(t) <= Gn(x) /\ Gn(t) # Gn(x)
    BY <1>8, <2>1 DEF Youngest, IInv, Flash
  <2> QED BY <1>7, <1>8, <2>1, <2>2, <2>3
<1>9. x \in Headed => \A t \in Headed : Gn(x) <= Gn(t)
  <2>1. \A t \in Headed : Gn(t) \in Nat
    BY HeadFacts, Constants DEF IInv
  <2> QED BY <1>7, <2>1
<1>10. \A y \in Arc(z, m + 1) : y = x \/ y \in Arc(z, m)
  BY <1>1, <1>2, <1>4 DEF Arc
<1>11. \A n \in 0..m : \A y \in Arc(z, n) : y # x /\ y \in Arc(z, m)
  <2> SUFFICES ASSUME NEW n \in 0..m, NEW y \in Arc(z, n) PROVE y # x /\ y \in Arc(z, m)
    OBVIOUS
  <2>1. y \in Ring /\ ((z <= y /\ y < z + n) \/ y < z + n - Last)
    BY DEF Arc
  <2>2. (z <= y /\ y < z + m) \/ y < z + m - Last
    BY <1>1, <1>2, <2>1
  <2>3. y # x
    BY <1>1, <1>2, <1>4, <1>5, <2>2, <2>1
  <2> QED BY <2>1, <2>2, <2>3 DEF Arc
<1> QED BY <1>4, <1>5, <1>6, <1>8, <1>9, <1>10, <1>11 DEF z, m

LEMMA ExtendHolds == IInv /\ Extend => IInv'
<1> SUFFICES ASSUME IInv, Extend PROVE IInv'
  OBVIOUS
<1> DEFINE x == Growth(file)   z == file.sector   m == Room(file)
<1>1. /\ Last \in Nat /\ Last >= 1 /\ Ring = 1..Last /\ Sector = 0..Last /\ MaxMade \in Nat
      /\ S \in Nat /\ S >= 2
  BY Constants
<1>2. TypeOK /\ Flash /\ Known /\ Under /\ LastKept
  BY DEF IInv
<1>3. /\ file # NoFile /\ x # z /\ Erase(x) /\ file' = [file EXCEPT !.len = @ + S]
      /\ UNCHANGED <<newest, last, mounted, made, lost>>
  BY DEF Extend, Writing, Grows
<1>4. /\ file \in Files /\ z \in Ring /\ file.len \in Nat /\ file.rw \in Nat
      /\ m \in 1..Last /\ file.len = m * S /\ file.rw <= file.len /\ mounted
      /\ \A y \in Arc(z, m) : head[y] = NoHead /\ owner[y] \in {Blank, made}
  BY <1>3, UnderWay
<1>0. made \in Nat /\ \A t \in Headed : Gn(t) < made
  <2>1. made \in Nat
    BY <1>1, <1>2 DEF TypeOK
  <2> QED BY <1>3, <2>1, UnderWay
<1>5. /\ x \in Ring /\ m < Last
      /\ \A t \in Headed : x \in Arc(t, Long(t)) => t = x
      /\ x = newest.sector => Headed \subseteq {x}
      /\ \A y \in Arc(z, m + 1) : y = x \/ y \in Arc(z, m)
      /\ \A n \in 0..m : \A y \in Arc(z, n) : y # x /\ y \in Arc(z, m)
  BY <1>3, Growing
<1> HIDE DEF x, z, m
<1>6. /\ Flash' /\ Headed' = Headed \ {x}
      /\ \A s \in Sector : s # x => head'[s] = head[s] /\ owner'[s] = owner[s]
      /\ head'[x] = NoHead /\ owner'[x] = Blank
      /\ head' \in [Sector -> Headers \cup {NoHead}] /\ owner' \in [Sector -> 0..Junk]
  BY <1>0, <1>2, <1>3, <1>5, Erasing
<1>7. \A s \in Headed' : s \in Headed /\ s \in Sector /\ s # x /\ head'[s] = head[s] /\ Gn(s)' = Gn(s)
  BY <1>1, <1>6 DEF Headed, Gn
<1>8. /\ file'.sector = z /\ file'.index = file.index /\ file'.rw = file.rw
      /\ file'.len = m * S + S /\ file' \in Files
  <2>1. /\ file'.sector = file.sector /\ file'.index = file.index /\ file'.rw = file.rw
        /\ file'.len = file.len + S /\ file' \in Files
    <3>1. file \in Files /\ S \in Nat /\ file' = [file EXCEPT !.len = @ + S]
      BY <1>1, <1>3, <1>4
    <3>2. file.len + S \in Nat
      BY <3>1 DEF Files
    <3> QED BY <3>1, <3>2 DEF Files
  <2> QED BY <2>1, <1>4 DEF z
<1>9. (m + 1) * S = m * S + S /\ Sectors((m + 1) * S) = m + 1
  <2>1. m + 1 \in Nat /\ m \in Nat /\ (m + 1) * S \in Nat
    BY <1>1, <1>4
  <2> QED BY <2>1, Times, SectorsWithin
<1>10. TypeOK'
  BY <1>2, <1>3, <1>6, <1>8 DEF TypeOK
<1>11. Known'
  <2>1. ASSUME Headed' # {} PROVE Youngest(newest.sector)' /\ newest.index = head'[newest.sector].index
    <3>1. Youngest(newest.sector) /\ newest.index = head[newest.sector].index
      BY <1>2, <1>4, <1>6, <2>1 DEF Known
    <3>2. newest.sector \in Headed /\ newest.sector # x
      BY <1>5, <1>6, <2>1, <3>1 DEF Youngest
    <3>3. newest.sector \in Headed' /\ head'[newest.sector] = head[newest.sector]
      BY <1>6, <1>7, <3>2
    <3>4. \A t \in Headed' : Gn(t)' <= head'[newest.sector].gen
      BY <1>7, <3>1, <3>3 DEF Youngest, Gn
    <3> QED BY <1>3, <3>1, <3>3, <3>4 DEF Youngest, Gn
  <2> QED BY <1>2, <1>3, <2>1 DEF Known
<1>12. Under'
  <2>1. Room(file') = m + 1 /\ m + 1 \in 1..Last
    BY <1>1, <1>4, <1>5, <1>8, <1>9 DEF Room
  <2>2. \A y \in Arc(z, m + 1) : head'[y] = NoHead /\ owner'[y] \in {Blank, made}
    <3> SUFFICES ASSUME NEW y \in Arc(z, m + 1), y # x PROVE head'[y] = NoHead /\ owner'[y] \in {Blank, made}
      BY <1>6
    <3>1. y \in Sector /\ y \in Arc(z, m)
      BY <1>1, <1>5 DEF Arc
    <3> QED BY <3>1, <1>4, <1>6
  <2>3. file.rw > H => \A y \in Arc(z, Sectors(file.rw)) : owner'[y] = made
    <3>1. Sectors(file.rw) \in 0..m
      BY <1>4, <1>1, SectorsOf, SectorsWithin
    <3>2. \A y \in Arc(z, Sectors(file.rw)) : y \in Sector /\ y # x
      BY <1>1, <1>5, <3>1 DEF Arc
    <3>3. file.rw > H => \A y \in Arc(z, Sectors(file.rw)) : owner[y] = made
      BY <1>2, <1>3 DEF Under, z
    <3> QED BY <1>6, <3>2, <3>3
  <2>4. \A t \in Headed' : Gn(t)' < made
    BY <1>0, <1>7
  <2>5. \A t, u \in Headed' : Gn(t)' < Gn(u)' => Cyc(t, u, z)
    BY <1>2, <1>3, <1>7 DEF Under, z
  <2>6. /\ file.index = newest.index + 1 /\ file.index <= made /\ last = file.index
        /\ made >= 1 /\ H <= file.rw
    BY <1>2, <1>3 DEF Under
  <2>7. file'.rw <= file'.len /\ file'.len = Room(file') * S
    BY <1>1, <1>4, <1>8, <1>9, <2>1
  <2>8. (\A y \in Arc(file.sector, Room(file)) : head[y] = NoHead /\ owner[y] \in {Blank, made})'
    BY <1>3, <1>8, <2>1, <2>2 DEF Room
  <2>9. file'.rw > H => \A y \in Arc(file'.sector, Sectors(file'.rw)) : owner'[y] = made'
    BY <1>3, <1>8, <2>3
  <2>10. \A t, u \in Headed' : Gn(t)' < Gn(u)' => Cyc(t, u, file'.sector)
    BY <1>8, <2>5
  <2>11. mounted' /\ file'.sector \in Ring /\ made' = made /\ newest' = newest /\ last' = last
    BY <1>3, <1>4, <1>8
  <2>12. Room(file)' \in 1..Last /\ file'.len = Room(file)' * S
    BY <2>1, <2>7 DEF Room
  <2> QED BY <1>8, <2>4, <2>6, <2>7, <2>8, <2>9, <2>10, <2>11, <2>12 DEF Under
<1>13. LastKept'
  <2>1. file' # NoFile
    BY <1>8, AbsenceAssumption
  <2> QED BY <2>1 DEF LastKept
<1> QED BY <1>6, <1>10, <1>11, <1>12, <1>13 DEF IInv

-----------------------------------------------------------------------------
(* Programming.                                                             *)

LEMMA Dividing ==
  ASSUME NEW n \in Nat
  PROVE  /\ n \div S \in Nat
         /\ \A k \in Nat : k <= n \div S <=> k * S <= n
<1>1. S \in Nat /\ S >= 2
  BY Constants
<1> DEFINE q == n \div S   r == n % S
<1>2. q \in Nat /\ r \in 0..(S - 1) /\ n = q * S + r
  BY <1>1
<1> HIDE DEF q, r
<1>3. ASSUME NEW k \in Nat PROVE k <= q <=> k * S <= n
  <2>1. /\ q + 1 \in Nat /\ k * S \in Nat /\ q * S \in Nat /\ (q + 1) * S = q * S + S
        /\ k <= q => k * S <= q * S
        /\ q + 1 <= k => (q + 1) * S <= k * S
    BY <1>2, Times
  <2> QED BY <2>1, <1>1, <1>2
<1> QED BY <1>2, <1>3 DEF q

LEMMA FitsRoom ==
  ASSUME IInv, file # NoFile
  PROVE  Fits(file) \in Nat /\ file.rw + Fits(file) <= file.len
<1>1. /\ file.len \in Nat /\ file.rw \in Nat /\ file.busy \in Nat /\ file.rw <= file.len
      /\ LenMod \in Nat /\ LenMod >= 1
  BY UnderWay, Constants
<1> DEFINE d == file.len - file.rw
<1>2. d \in Nat
  BY <1>1
<1> HIDE DEF d
<1>3. d % LenMod \in Nat /\ d % LenMod <= d
  <2>1. CASE d < LenMod
    <3>1. d \in 0..(LenMod - 1)
      BY <1>1, <1>2, <2>1
    <3>2. d % LenMod = d
      BY <1>1, <3>1, Small
    <3> QED BY <1>2, <3>2
  <2>2. CASE d >= LenMod
    <3>1. d % LenMod \in 0..(LenMod - 1)
      BY <1>1, <1>2
    <3> QED BY <1>1, <1>2, <2>2, <3>1
  <2> QED BY <1>1, <1>2, <2>1, <2>2
<1> QED BY <1>1, <1>3 DEF Fits, d

\* Programming stays in the recording's room, and leaves no gap behind it.
LEMMA InRoom ==
  ASSUME IInv, file # NoFile, NEW n \in Nat, n > 0, file.rw + n <= file.len
  PROVE  /\ Touched(file, file.rw, n) \subseteq Arc(file.sector, Room(file))
         /\ \A x \in Arc(file.sector, Sectors(file.rw + n)) :
              \/ x \in Touched(file, file.rw, n)
              \/ file.rw > H /\ x \in Arc(file.sector, Sectors(file.rw))
<1> DEFINE z == file.sector   m == Room(file)   rw == file.rw
           lo == rw \div S    hi == (rw + n - 1) \div S
<1>1. /\ z \in Ring /\ m \in 1..Last /\ m \in 0..Last /\ rw \in Nat /\ file.len \in Nat /\ file.len = m * S
      /\ rw + n - 1 \in Nat /\ rw + n - 1 < m * S /\ rw + n <= m * S /\ rw + n \in Nat /\ rw <= m * S
      /\ Last \in Nat /\ m \in Nat /\ H \in 1..(S - 1) /\ S \in Nat
  <2>1. z \in Ring /\ m \in 1..Last /\ rw \in Nat /\ file.len \in Nat /\ file.len = m * S /\ rw <= file.len
    BY UnderWay
  <2>2. Last \in Nat /\ H \in 1..(S - 1) /\ S \in Nat
    BY Constants
  <2>3. rw + n <= file.len
    OBVIOUS
  <2> HIDE DEF z, m, rw
  <2>4. m \in Nat /\ m \in 0..Last
    BY <2>1, <2>2
  <2>5. rw + n - 1 \in Nat /\ rw + n - 1 < file.len /\ rw + n \in Nat
    BY <2>1, <2>3
  <2> QED BY <2>1, <2>2, <2>3, <2>4, <2>5
<1>2. Touched(file, file.rw, n) = {Turned(z + k) : k \in lo..hi}
  BY DEF Touched
<1>3. /\ lo \in Nat /\ hi \in Nat
      /\ \A k \in Nat : k <= lo <=> k * S <= rw
      /\ \A k \in Nat : k <= hi <=> k * S <= rw + n - 1
  BY <1>1, Dividing
<1> HIDE DEF z, m, rw, lo, hi
<1>4. hi < m
  <2>1. m * S \in Nat
    BY <1>1, Times
  <2> QED BY <2>1, <1>1, <1>3
<1>5. ASSUME NEW k \in lo..hi PROVE Turned(z + k) \in Arc(z, m)
  <2>1. k \in 0..(Last - 1) /\ k < m
    BY <1>1, <1>3, <1>4
  <2> QED BY <2>1, <1>1, Along
<1>6. ASSUME NEW x \in Arc(z, Sectors(rw + n)), x \notin Touched(file, file.rw, n)
      PROVE  rw > H /\ x \in Arc(z, Sectors(rw))
  <2>1. x \in Ring
    BY DEF Arc
  <2>2. PICK k \in 0..(Last - 1) : x = Turned(z + k)
    BY <1>1, <2>1, Along
  <2>3. Sectors(rw + n) \in 0..Last /\ Sectors(rw) \in 0..Last
    BY <1>1, SectorsOf, SectorsWithin
  <2>4. k \in Nat /\ k < Sectors(rw + n)
    BY <1>1, <1>6, <2>2, <2>3, Along
  <2>5. k * S < rw + n /\ k * S \in Nat /\ (k + 1) * S = k * S + S
    BY <1>1, <2>4, SectorsOf, Times
  <2>6. k <= hi
    BY <1>1, <1>3, <2>4, <2>5
  <2>7. k + 1 <= lo /\ k + 1 \in Nat
    BY <1>2, <1>3, <1>6, <2>2, <2>4, <2>6
  <2>8. (k + 1) * S <= rw
    BY <1>3, <2>7
  <2>9. rw > H /\ k * S < rw
    BY <1>1, <2>5, <2>8
  <2>10. k < Sectors(rw)
    BY <1>1, <2>4, <2>9, SectorsOf
  <2> QED BY <1>1, <2>2, <2>3, <2>9, <2>10, Along
<1> QED BY <1>2, <1>5, <1>6 DEF z, m, rw

LEMMA ProgramHolds == IInv /\ Program => IInv'
<1> SUFFICES ASSUME IInv, Program PROVE IInv'
  OBVIOUS
<1> DEFINE n == Fits(file)   z == file.sector   m == Room(file)
           T == IF n = 0 THEN {} ELSE Touched(file, file.rw, n)
           stop == n # file.busy \/ file.rw + n + file.busy > Capacity - S
<1>1. /\ Last \in Nat /\ Ring = 1..Last /\ Sector = 0..Last /\ MaxMade \in Nat /\ Gen = 1..MaxMade
      /\ S \in Nat /\ Junk = MaxMade + 1 /\ 0 \in Sector
  BY Constants
<1>2. TypeOK /\ Flash /\ Known /\ Under /\ LastKept
  BY DEF IInv
<1>3. file # NoFile /\ UNCHANGED <<newest, last, mounted, made, lost>>
  BY DEF Program, Writing
<1>4. /\ owner' = [s \in Sector |-> IF s \notin T THEN owner[s]
                                     ELSE IF owner[s] \in {Blank, made} THEN made ELSE Junk]
      /\ head' = [s \in Sector |-> IF s \in T /\ ~(owner[s] \in {Blank, made}) THEN NoHead ELSE head[s]]
  BY DEF Program
<1>5. file' = [file EXCEPT !.rw = @ + n, !.busy = 0, !.stop = stop]
  BY DEF Program
<1>6. n \in Nat /\ file.rw + n <= file.len
  BY <1>3, FitsRoom
<1>7. /\ file \in Files /\ z \in Ring /\ file.rw \in Nat /\ made \in Gen
      /\ H <= file.rw
      /\ \A y \in Arc(z, m) : head[y] = NoHead /\ owner[y] \in {Blank, made}
      /\ \A t \in Headed : \A y \in Arc(t, Long(t)) : y \notin Arc(z, m)
  BY <1>3, UnderWay
<1>8. T \subseteq Arc(z, m)
  BY <1>3, <1>6, InRoom
<1>9. file.rw + n > H =>
        \A x \in Arc(z, Sectors(file.rw + n)) : x \in T \/ (file.rw > H /\ x \in Arc(z, Sectors(file.rw)))
  <2>1. CASE n = 0
    <3>1. file.rw + 0 = file.rw
      BY <1>7
    <3> QED BY <3>1, <2>1
  <2>2. CASE n > 0
    BY <1>3, <1>6, <2>2, InRoom
  <2> QED BY <1>6, <2>1, <2>2
<1> HIDE DEF T, n, z, m, stop
<1>10. head' = head
  <2>1. \A s \in T : owner[s] \in {Blank, made}
    BY <1>7, <1>8
  <2>2. head' = [s \in Sector |-> head[s]]
    BY <1>4, <2>1
  <2> QED BY <2>2, <1>2 DEF TypeOK
<1>11. \A s \in Sector : (s \in T => owner'[s] = made) /\ (s \notin T => owner'[s] = owner[s])
  BY <1>4, <1>7, <1>8
<1>12. owner' \in [Sector -> 0..Junk]
  <2>1. \A s \in Sector : owner'[s] \in 0..Junk
    <3>1. made \in 0..Junk /\ \A s \in Sector : owner[s] \in 0..Junk
      BY <1>1, <1>2, <1>7 DEF TypeOK
    <3> QED BY <1>11, <3>1
  <2> QED BY <1>4, <2>1
<1>13. Headed' = Headed
  BY <1>10 DEF Headed
<1>14. /\ file'.sector = z /\ file'.index = file.index /\ file'.rw = file.rw + n
       /\ file'.len = file.len /\ file' \in Files
  <2>1. stop \in BOOLEAN
    BY DEF stop
  <2>2. file.rw + n \in Nat
    BY <1>6, <1>7
  <2> QED BY <1>5, <1>7, <2>1, <2>2 DEF Files, z
<1>15. TypeOK'
  BY <1>2, <1>3, <1>10, <1>12, <1>14 DEF TypeOK
<1>16. Flash'
  <2>1. ASSUME NEW s \in Headed, NEW y \in Arc(s, Long(s)) PROVE owner'[y] = Gn(s)
    <3>1. y \in Sector /\ y \notin T
      BY <1>1, <1>7, <1>8 DEF Arc
    <3> QED BY <1>2, <1>11, <3>1 DEF Flash
  <2> QED BY <1>2, <1>3, <1>10, <1>13, <2>1 DEF Flash, Long, Gn
<1>17. Known' /\ LastKept'
  <2>1. file' # NoFile
    BY <1>14, AbsenceAssumption
  <2> QED BY <1>2, <1>3, <1>10, <1>13, <2>1 DEF Known, Youngest, Gn, LastKept
<1>19. Under'
  <2>1. Room(file') = m
    BY <1>14 DEF Room, m
  <2>2. \A y \in Arc(z, m) : head'[y] = NoHead /\ owner'[y] \in {Blank, made}
    <3> SUFFICES ASSUME NEW y \in Arc(z, m) PROVE head'[y] = NoHead /\ owner'[y] \in {Blank, made}
      OBVIOUS
    <3>1. y \in Sector
      BY <1>1 DEF Arc
    <3> QED BY <3>1, <1>7, <1>10, <1>11
  <2>3. file.rw + n > H => \A y \in Arc(z, Sectors(file.rw + n)) : owner'[y] = made
    <3> SUFFICES ASSUME file.rw + n > H, NEW y \in Arc(z, Sectors(file.rw + n)) PROVE owner'[y] = made
      OBVIOUS
    <3>1. y \in Sector
      BY <1>1 DEF Arc
    <3>2. y \notin T => owner[y] = made
      BY <1>2, <1>3, <1>9 DEF Under, z
    <3> QED BY <3>1, <3>2, <1>11
  <2>4. /\ file.index = newest.index + 1 /\ file.index <= made /\ last = file.index /\ mounted
        /\ made >= 1 /\ m \in 1..Last /\ file.len = m * S
        /\ \A t \in Headed : Gn(t) < made
        /\ \A t, u \in Headed : Gn(t) < Gn(u) => Cyc(t, u, z)
    BY <1>2, <1>3 DEF Under, m, z
  <2>5. H <= file.rw + n /\ file.rw + n <= file.len
    BY <1>1, <1>6, <1>7, Constants
  <2>6. (\A y \in Arc(file.sector, Room(file)) : head[y] = NoHead /\ owner[y] \in {Blank, made})'
    BY <1>3, <1>14, <2>1, <2>2 DEF Room
  <2>7. file'.rw > H => \A y \in Arc(file'.sector, Sectors(file'.rw)) : owner'[y] = made'
    BY <1>3, <1>14, <2>3
  <2>8. /\ \A t \in Headed' : Gn(t)' < made'
        /\ \A t, u \in Headed' : Gn(t)' < Gn(u)' => Cyc(t, u, file'.sector)
    BY <1>3, <1>10, <1>13, <1>14, <2>4 DEF Gn
  <2>9. Room(file)' = m /\ mounted' = mounted /\ made' = made /\ newest' = newest /\ last' = last
    BY <1>3, <2>1 DEF Room
  <2> QED BY <1>7, <1>14, <2>4, <2>5, <2>6, <2>7, <2>8, <2>9 DEF Under
<1> QED BY <1>15, <1>16, <1>17, <1>19 DEF IInv

-----------------------------------------------------------------------------
(* The end of a recording, a mount and a playback.                          *)

LEMMA WriteBeginHolds == ASSUME NEW n \in Frames PROVE IInv /\ WriteBegin(n) => IInv'
<1> SUFFICES ASSUME IInv, WriteBegin(n) PROVE IInv'
  OBVIOUS
<1>1. file # NoFile /\ file' = [file EXCEPT !.busy = n] /\ UNCHANGED <<flash, newest, last, mounted, made, lost>>
  BY DEF WriteBegin
<1>2. n \in Nat
  BY RecFsAssumption
<1>3. file \in Files
  BY <1>1, UnderWay
<1>4. /\ file' \in Files /\ file'.sector = file.sector /\ file'.index = file.index
      /\ file'.len = file.len /\ file'.rw = file.rw
  BY <1>1, <1>2, <1>3 DEF Files
<1>5. file' # NoFile
  BY <1>4, AbsenceAssumption
<1>6. head' = head /\ owner' = owner /\ Headed' = Headed
  BY <1>1 DEF flash, Headed
<1>7. TypeOK' /\ Flash' /\ Known' /\ LastKept'
  <2>1. TypeOK'
    BY <1>1, <1>4, <1>6 DEF IInv, TypeOK
  <2>2. Flash'
    BY <1>1, <1>6 DEF IInv, Flash, Gn, Long
  <2>3. Known' /\ LastKept'
    BY <1>1, <1>5, <1>6 DEF IInv, Known, LastKept, Youngest, Gn
  <2> QED BY <2>1, <2>2, <2>3
<1>8. Under'
  BY <1>1, <1>4, <1>6 DEF IInv, Under, Room, Gn
<1> QED BY <1>7, <1>8 DEF IInv

LEMMA DiscardHolds == IInv /\ Discard => IInv'
<1> SUFFICES ASSUME IInv, Discard PROVE IInv'
  OBVIOUS
<1>1. file' = NoFile /\ lost' = TRUE /\ UNCHANGED <<flash, newest, last, mounted, made>>
  BY DEF Discard
<1>2. head' = head /\ owner' = owner /\ Headed' = Headed
  BY <1>1 DEF flash, Headed
<1>3. TypeOK'
  <2>1. lost' \in BOOLEAN
    BY <1>1
  <2> QED BY <1>1, <1>2, <2>1 DEF IInv, TypeOK
<1>4. Flash'
  BY <1>1, <1>2 DEF IInv, Flash, Gn, Long
<1>5. Known' /\ LastKept' /\ Under'
  BY <1>1, <1>2 DEF IInv, Known, LastKept, Under, Youngest, Gn
<1> QED BY <1>3, <1>4, <1>5 DEF IInv

LEMMA EmptyFacts ==
  /\ Empty \in [index : 0..(IndexMod - 1), sector : Sector]
  /\ Empty.index = 0 /\ Empty.sector \in Ring
<1>1. /\ IndexMod \in Nat /\ IndexMod >= 1 /\ First = 1
      /\ Last \in Nat /\ Last >= 1 /\ Ring = 1..Last /\ Sector = 0..Last
  BY Constants, RecFsAssumption
<1>2. 0 \in 0..(IndexMod - 1) /\ 1 \in Ring /\ 1 \in Sector
  BY <1>1
<1> QED BY <1>1, <1>2 DEF Empty

LEMMA PowerLossHolds == IInv /\ PowerLoss => IInv'
<1> SUFFICES ASSUME IInv, PowerLoss PROVE IInv'
  OBVIOUS
<1>1. /\ mounted' = FALSE /\ newest' = Empty /\ last' = 0 /\ file' = NoFile /\ lost' = FALSE
      /\ UNCHANGED <<flash, made>>
  BY DEF PowerLoss
<1>2. head' = head /\ owner' = owner /\ Headed' = Headed
  BY <1>1 DEF flash, Headed
<1>3. Empty \in [index : 0..(IndexMod - 1), sector : Sector] /\ Empty.index = 0 /\ Empty.sector \in Ring
  BY EmptyFacts
<1>4. TypeOK'
  <2>1. lost' \in BOOLEAN /\ mounted' \in BOOLEAN /\ last' \in 0..(IndexMod - 1)
    BY <1>1, <1>3
  <2> QED BY <1>1, <1>2, <1>3, <2>1 DEF IInv, TypeOK
<1>5. Flash'
  BY <1>1, <1>2 DEF IInv, Flash, Gn, Long
<1>6. made \in Nat
  BY Constants DEF IInv, TypeOK
<1>7. Known' /\ LastKept' /\ Under'
  BY <1>1, <1>3, <1>6 DEF Known, LastKept, Under
<1> QED BY <1>4, <1>5, <1>7 DEF IInv

LEMMA MountHolds == ASSUME MaxMade < IndexMod PROVE IInv /\ Mount => IInv'
<1> SUFFICES ASSUME IInv, Mount PROVE IInv'
  OBVIOUS
<1>1. /\ mounted' = TRUE /\ file' = NoFile /\ lost' = FALSE /\ last' = newest'.index
      /\ newest' = IF Found = {} THEN Empty
                   ELSE [index |-> head[NewestFound].index, sector |-> NewestFound]
      /\ UNCHANGED <<flash, made>>
  BY DEF Mount
<1>2. head' = head /\ owner' = owner /\ Headed' = Headed
  BY <1>1 DEF flash, Headed
<1>3. TypeOK /\ Flash /\ Found = Headed
  BY AllFound DEF IInv
<1>4. Empty \in [index : 0..(IndexMod - 1), sector : Sector] /\ Empty.index = 0 /\ Empty.sector \in Ring
  BY EmptyFacts
<1>5. ASSUME Headed # {}
      PROVE  /\ Youngest(NewestFound) /\ newest' = [index |-> head[NewestFound].index, sector |-> NewestFound]
             /\ newest' \in [index : 0..(IndexMod - 1), sector : Sector] /\ NewestFound \in Ring
  <2>1. Youngest(NewestFound) /\ NewestFound \in Headed
    BY <1>3, <1>5, NewestIsYoungest DEF Youngest
  <2>2. NewestFound \in Ring /\ NewestFound \in Sector /\ head[NewestFound].index \in 0..(IndexMod - 1)
    BY <1>3, <2>1, HeadFacts, Constants
  <2> QED BY <1>1, <1>3, <1>5, <2>1, <2>2
<1>6. newest' \in [index : 0..(IndexMod - 1), sector : Sector] /\ newest'.sector \in Ring
  BY <1>1, <1>3, <1>4, <1>5
<1>7. TypeOK'
  <2>1. lost' \in BOOLEAN /\ mounted' \in BOOLEAN
    BY <1>1
  <2> QED BY <1>1, <1>2, <1>3, <1>6, <2>1 DEF TypeOK
<1>8. Flash'
  BY <1>1, <1>2 DEF IInv, Flash, Gn, Long
<1>9. newest'.index <= made'
  <2>1. CASE Headed = {}
    BY <1>1, <1>3, <1>4, <2>1, Constants DEF TypeOK
  <2>2. CASE Headed # {}
    <3> DEFINE y == NewestFound
    <3>1. y \in Headed /\ newest'.index = head[y].index
      BY <1>5, <2>2 DEF Youngest
    <3> HIDE DEF y
    <3>2. head[y].index <= Gn(y) /\ Gn(y) <= made
      BY <1>3, <3>1 DEF Flash
    <3>3. head[y].index \in Int /\ Gn(y) \in Int /\ made \in Int
      <4>1. TypeOK /\ Flash
        BY <1>3
      <4>2. head[y].index \in 0..(IndexMod - 1) /\ Gn(y) \in Gen
        BY <4>1, <3>1, HeadFacts, Zenon
      <4>3. Gen = 1..MaxMade /\ MaxMade \in Nat
        BY Constants
      <4> QED BY <4>1, <4>2, <4>3 DEF TypeOK
    <3> QED BY <1>1, <3>1, <3>2, <3>3
  <2> QED BY <2>1, <2>2
<1>10. Known'
  BY <1>1, <1>2, <1>5, <1>6, <1>9 DEF Known, Youngest, Gn
<1>11. LastKept' /\ Under'
  <2>1. newest'.index # 0 => Headed # {}
    BY <1>1, <1>3, <1>4
  <2> QED BY <1>1, <1>2, <1>5, <2>1 DEF LastKept, Under, Youngest
<1> QED BY <1>7, <1>8, <1>10, <1>11 DEF IInv

\* What a close leaves of a recording: part of its room, and more than a header.
LEMMA Closing ==
  ASSUME IInv, file # NoFile, NEW h \in Heads, ~TooShort(file, h)
  PROVE  LET f == AtEnd(file, h) IN
         /\ f.sector = file.sector /\ f.index = file.index
         /\ f.rw \in Nat /\ f.rw > H /\ f.rw <= file.rw /\ file.rw > H
<1>1. /\ file \in Files /\ file.len \in Nat /\ file.rw \in Nat /\ Room(file) \in 1..Last
      /\ file.len = Room(file) * S /\ file.rw <= file.len
  BY UnderWay
<1>2. H \in 1..(S - 1) /\ S \in Nat /\ Cut \in Nat /\ Cut >= H /\ Limit \in Nat /\ h \in Nat /\ Last \in Nat
  BY Constants, RecFsAssumption
<1> DEFINE e == Left(file)
<1>3. e = file.rw - Cut /\ e \in Nat /\ e > 0 /\ e < file.len /\ e + H <= file.rw
  BY <1>1, <1>2 DEF TooShort, Left
<1> HIDE DEF e
<1> DEFINE g == [file EXCEPT !.rw = H + h]
<1>4. g \in Files /\ g.len = file.len /\ g.sector = file.sector /\ g.index = file.index
  BY <1>1, <1>2 DEF Files
<1>5. h > 0 => [Seek(file, 0) EXCEPT !.rw = @ + h] = g
  <2>1. ~(0 >= file.len)
    BY <1>1, <1>3
  <2>2. Seek(file, 0) = [file EXCEPT !.rw = 0 + H]
    BY <2>1 DEF Seek
  <2>3. 0 + H = H
    BY <1>2
  <2> QED BY <1>1, <2>2, <2>3 DEF Files
<1>6. \A f \in Files : f.len = file.len => Seek(f, e) = [f EXCEPT !.rw = e + H]
  <2>1. ~(e >= file.len)
    BY <1>1, <1>3
  <2> QED BY <2>1 DEF Seek
<1>7. AtEnd(file, h) = [file EXCEPT !.rw = e + H] \/ AtEnd(file, h) = [g EXCEPT !.rw = e + H]
  <2>1. CASE h > 0
    <3>1. AtEnd(file, h) = Seek(g, e)
      BY <1>5, <2>1 DEF AtEnd, e
    <3> QED BY <3>1, <1>4, <1>6
  <2>2. CASE ~(h > 0)
    <3>1. AtEnd(file, h) = Seek(file, e)
      BY <2>2 DEF AtEnd, e
    <3> QED BY <3>1, <1>1, <1>6
  <2> QED BY <2>1, <2>2
<1>8. /\ AtEnd(file, h).sector = file.sector /\ AtEnd(file, h).index = file.index
      /\ AtEnd(file, h).rw = e + H
  BY <1>1, <1>4, <1>7 DEF Files
<1>9. e + H \in Nat /\ e + H > H /\ e + H <= file.rw /\ file.rw > H
  BY <1>1, <1>2, <1>3
<1> QED BY <1>8, <1>9

LEMMA CloseHolds == ASSUME NEW h \in Heads PROVE IInv /\ Close(h) => IInv'
<1> SUFFICES ASSUME IInv, Close(h) PROVE IInv'
  OBVIOUS
<1>0. PICK z : z = file.sector
  OBVIOUS
<1> DEFINE m == Room(file)   n == AtEnd(file, h).rw
           r == [index |-> file.index, len |-> n, gen |-> made]
<1>1. /\ Last \in Nat /\ Last >= 1 /\ Ring = 1..Last /\ Sector = 0..Last /\ MaxMade \in Nat /\ Gen = 1..MaxMade
      /\ S \in Nat /\ H \in Nat /\ Total = Last * S
  BY Constants
<1>2. TypeOK /\ Flash /\ Known /\ Under /\ LastKept
  BY DEF IInv
<1>3. file # NoFile /\ ~TooShort(file, h) /\ file' = NoFile /\ UNCHANGED <<owner, last, mounted, made, lost>>
  BY DEF Close, Stopped
<1>4. AtEnd(file, h).sector = z /\ AtEnd(file, h).index = file.index /\ n \in Nat /\ n > H /\ n <= file.rw /\ file.rw > H
  BY <1>0, <1>3, Closing
<1>5. head' = [head EXCEPT ![z] = r] /\ newest' = [index |-> file.index, sector |-> z]
  BY <1>0, <1>4 DEF Close
<1>6. /\ file \in Files /\ z \in Ring /\ z \in Sector /\ file.rw \in Nat /\ file.rw <= file.len
      /\ m \in 1..Last /\ file.len = m * S /\ made \in Gen /\ mounted
      /\ \A y \in Arc(z, m) : head[y] = NoHead
  BY <1>0, <1>1, <1>3, UnderWay
<1>7. \A t \in Headed : Gn(t) < made
  BY <1>3, UnderWay
<1>8. /\ file.index = newest.index + 1 /\ file.index <= made /\ last = file.index
      /\ \A x \in Arc(z, Sectors(file.rw)) : owner[x] = made
      /\ \A t, u \in Headed : Gn(t) < Gn(u) => Cyc(t, u, z)
  BY <1>0, <1>2, <1>3, <1>4 DEF Under
<1>9. file.index \in 0..(IndexMod - 1)
  BY <1>6 DEF Files
<1> HIDE DEF m, n
<1>10. r \in Headers /\ r # NoHead
  <2>1. r \in Headers
    BY <1>4, <1>6, <1>9 DEF Headers
  <2> QED BY <2>1, AbsenceAssumption
<1>11. z \notin Headed
  <2>1. z \in Arc(z, m)
    BY <1>1, <1>6 DEF Arc
  <2> QED BY <2>1, <1>6 DEF Headed
<1>12. \A s \in Sector : (s # z => head'[s] = head[s]) /\ (s = z => head'[s] = r)
  BY <1>2, <1>5, <1>6 DEF TypeOK
<1> HIDE DEF r
<1>13. r.index = file.index /\ r.len = n /\ r.gen = made
  BY DEF r
<1>14. Headed' = Headed \cup {z}
  BY <1>1, <1>6, <1>10, <1>12 DEF Headed
<1>15. \A s \in Headed : s \in Sector /\ s # z /\ head'[s] = head[s] /\ Gn(s)' = Gn(s) /\ Long(s)' = Long(s)
  BY <1>1, <1>11, <1>12 DEF Headed, Gn, Long
<1>16. head'[z] = r /\ Gn(z)' = made /\ Long(z)' = Sectors(n)
  BY <1>6, <1>12, <1>13 DEF Gn, Long
<1>17. \A t \in Headed : Gn(t) \in Nat /\ head[t].index \in Nat
  BY <1>2, HeadFacts, Constants
<1>18. Sectors(n) <= m /\ Sectors(n) \in Nat /\ Sectors(n) <= Sectors(file.rw) /\ Sectors(file.rw) \in Nat
       /\ Sectors(file.rw) <= m
  <2>1. m \in Nat /\ n <= m * S /\ m * S \in Nat /\ file.rw <= m * S
    BY <1>1, <1>4, <1>6
  <2>2. Sectors(n) <= m /\ Sectors(n) \in Nat /\ Sectors(file.rw) \in Nat /\ Sectors(file.rw) <= m
    BY <1>4, <1>6, <2>1, SectorsOf, SectorsWithin
  <2>3. ASSUME Sectors(file.rw) < Sectors(n) PROVE FALSE
    <3> DEFINE k == Sectors(file.rw)
    <3>1. k \in Nat /\ k < Sectors(n)
      BY <2>2, <2>3
    <3>2. k * S < n /\ k * S \in Nat
      BY <1>4, <3>1, SectorsOf, Times
    <3>3. k * S < file.rw
      BY <1>4, <1>6, <3>2
    <3>4. k < k
      BY <1>6, <3>1, <3>3, SectorsOf
    <3> QED BY <3>1, <3>4
  <2> QED BY <2>2, <2>3
<1>19. \A x \in Arc(z, Sectors(n)) : owner[x] = made
  <2>1. \A x \in Arc(z, Sectors(n)) : x \in Arc(z, Sectors(file.rw))
    BY <1>1, <1>6, <1>18 DEF Arc
  <2> QED BY <2>1, <1>8
<1>20. TypeOK'
  <2>1. head' \in [Sector -> Headers \cup {NoHead}]
    BY <1>2, <1>5, <1>6, <1>10 DEF TypeOK
  <2>2. newest' \in [index : 0..(IndexMod - 1), sector : Sector]
    BY <1>5, <1>6, <1>9
  <2> QED BY <1>2, <1>3, <2>1, <2>2 DEF TypeOK
<1>21. \A t \in Headed : head[t].index < file.index
  <2> SUFFICES ASSUME NEW t \in Headed PROVE head[t].index < file.index
    OBVIOUS
  <2>1. Youngest(newest.sector) /\ newest.sector \in Headed /\ newest.index = head[newest.sector].index
    BY <1>2, <1>6 DEF Known, Youngest
  <2>2. newest.index \in Nat
    BY <1>17, <2>1
  <2>3. Gn(t) <= Gn(newest.sector)
    BY <2>1 DEF Youngest
  <2>4. t = newest.sector \/ Gn(t) < Gn(newest.sector)
    BY <1>2, <1>17, <2>1, <2>3 DEF Flash
  <2>5. head[t].index <= newest.index
    BY <1>2, <1>17, <2>1, <2>4 DEF Flash
  <2> QED BY <1>8, <1>17, <2>2, <2>5
<1>22. Flash'
  <2>1. head'[0] = NoHead
    <3>1. 0 \in Sector /\ 0 # z
      BY <1>1, <1>6
    <3> QED BY <1>2, <1>12, <3>1 DEF Flash
  <2>2. \A s \in Headed' : head'[s].len \in 1..Total
    <3>1. n \in 1..Total
      <4>1. m * S <= Last * S /\ m * S \in Nat /\ Last * S \in Nat
        <5>1. m \in Nat /\ m <= Last
          BY <1>1, <1>6
        <5> QED BY <1>1, <5>1, Times
      <4>2. n <= m * S /\ n >= 1
        BY <1>1, <1>4, <1>6, <4>1
      <4> QED BY <1>1, <1>4, <4>1, <4>2
    <3> QED BY <1>2, <1>13, <1>14, <1>15, <1>16, <3>1 DEF Flash
  <2>3. \A s \in Headed' : \A x \in Arc(s, Long(s)') : owner'[x] = Gn(s)'
    <3>1. \A s \in Headed : \A x \in Arc(s, Long(s)) : owner[x] = Gn(s)
      BY <1>2 DEF Flash
    <3>2. owner' = owner
      BY <1>3
    <3> QED BY <1>14, <1>15, <1>16, <1>19, <3>1, <3>2
  <2>4. \A s, t \in Headed' : Gn(s)' = Gn(t)' => s = t
    <3>1. \A s, t \in Headed : Gn(s) = Gn(t) => s = t
      BY <1>2 DEF Flash
    <3>2. \A t \in Headed : Gn(t) # made
      BY <1>1, <1>6, <1>7, <1>17
    <3> QED BY <1>14, <1>15, <1>16, <3>1, <3>2
  <2>5. \A s, t \in Headed' : Gn(s)' < Gn(t)' => head'[s].index < head'[t].index
    <3>1. \A s, t \in Headed : Gn(s) < Gn(t) => head[s].index < head[t].index
      BY <1>2 DEF Flash
    <3>2. \A t \in Headed : ~(made < Gn(t))
      BY <1>1, <1>6, <1>7, <1>17
    <3>3. ~(made < made)
      BY <1>1, <1>6
    <3> QED BY <1>13, <1>14, <1>15, <1>16, <1>21, <3>1, <3>2, <3>3
  <2>6. \A s, t, u \in Headed' : Gn(s)' < Gn(t)' /\ Gn(t)' < Gn(u)' => Cyc(s, t, u)
    <3>1. \A s, t, u \in Headed : Gn(s) < Gn(t) /\ Gn(t) < Gn(u) => Cyc(s, t, u)
      BY <1>2 DEF Flash
    <3>2. \A t \in Headed : ~(made < Gn(t))
      BY <1>1, <1>6, <1>7, <1>17
    <3>3. ~(made < made)
      BY <1>1, <1>6
    <3> QED BY <1>8, <1>14, <1>15, <1>16, <3>1, <3>2, <3>3
  <2>7. \A s \in Headed' : head'[s].index <= Gn(s)' /\ Gn(s)' <= made'
    <3>1. \A s \in Headed : head[s].index <= Gn(s) /\ Gn(s) <= made
      BY <1>2 DEF Flash
    <3>2. made <= made
      BY <1>1, <1>6
    <3> QED BY <1>3, <1>8, <1>13, <1>14, <1>15, <1>16, <3>1, <3>2
  <2> QED BY <2>1, <2>2, <2>3, <2>4, <2>5, <2>6, <2>7 DEF Flash
<1>23. Youngest(z)'
  <2>1. \A t \in Headed' : Gn(t)' <= made
    BY <1>1, <1>6, <1>7, <1>14, <1>15, <1>16, <1>17
  <2> QED BY <1>14, <1>16, <2>1 DEF Youngest
<1>24. newest'.index = file.index /\ newest'.sector = z
  BY <1>5
<1>25. Known'
  <2>1. newest'.sector \in Ring /\ newest'.index <= made'
    BY <1>3, <1>6, <1>8, <1>24
  <2>2. newest'.index = head'[newest'.sector].index
    BY <1>13, <1>16, <1>24
  <2>3. Youngest(newest.sector)'
    BY <1>23, <1>24 DEF Youngest, Gn
  <2> QED BY <2>1, <2>2, <2>3 DEF Known
<1>26. LastKept' /\ Under'
  BY <1>3, <1>8, <1>14, <1>24 DEF LastKept, Under
<1> QED BY <1>20, <1>22, <1>25, <1>26 DEF IInv

\* A recording that was kept is found at once where it was left.
LEMMA Replay == ASSUME PlayLost = FALSE, IInv, Play PROVE UNCHANGED vars
<1> DEFINE p == newest.sector
<1>1. /\ mounted /\ file = NoFile /\ last # 0 /\ ~lost
      /\ UNCHANGED <<flash, last, file, mounted, made, lost>>
  BY DEF Play
<1>2. p \in Headed /\ last = newest.index /\ Headed # {}
  BY <1>1 DEF IInv, LastKept
<1>3. newest.index = head[p].index /\ newest \in [index : 0..(IndexMod - 1), sector : Sector]
  BY <1>1, <1>2 DEF IInv, Known, TypeOK
<1>4. Holds(p, last) /\ p \in Sector
  BY <1>2, <1>3, HeadFacts DEF IInv, Holds
<1> HIDE DEF p
<1>5. Search(last, p) = {p}
  <2>1. p \in Walk(last, p)
    BY <1>4 DEF Walk
  <2>2. Walk(last, p) \subseteq {p}
    <3>1. {p} \in SUBSET Sector /\ p \in {p} /\ \A t \in {p} : Holds(t, last) \/ Step(t) \in {p}
      BY <1>4
    <3> QED BY <3>1 DEF Walk
  <2> QED BY <2>1, <2>2, <1>4 DEF Search
<1>6. newest' = [index |-> last, sector |-> p]
  BY <1>5 DEF Play, p
<1>7. newest' = newest
  BY <1>2, <1>3, <1>6 DEF p
<1> QED BY <1>1, <1>7 DEF vars, flash

LEMMA StillHolds == IInv /\ UNCHANGED vars => IInv'
<1> SUFFICES ASSUME IInv, UNCHANGED vars PROVE IInv'
  OBVIOUS
<1>1. Headed' = Headed
  BY DEF vars, Headed
<1>2. TypeOK'
  BY DEF vars, IInv, TypeOK
<1>3. Flash'
  BY <1>1 DEF vars, IInv, Flash, Gn, Long
<1>4. Known' /\ LastKept'
  BY <1>1 DEF vars, IInv, Known, LastKept, Youngest, Gn
<1>5. Under'
  BY <1>1 DEF vars, IInv, Under, Gn, Room
<1> QED BY <1>2, <1>3, <1>4, <1>5 DEF IInv

LEMMA InitHolds == Init => IInv
<1> SUFFICES ASSUME Init PROVE IInv
  OBVIOUS
<1>1. /\ Last \in Nat /\ Ring = 1..Last /\ Sector = 0..Last /\ MaxMade \in Nat /\ 0 \in Sector
      /\ IndexMod \in Nat /\ IndexMod >= 1 /\ Blank \in 0..Junk
  BY Constants, RecFsAssumption
<1>2. Headed = {}
  BY <1>1 DEF Init, Headed
<1>3. 0 \in 0..(IndexMod - 1) /\ 0 \in 0..MaxMade
  BY <1>1
<1>4. TypeOK
  <2>1. lost \in BOOLEAN /\ mounted \in BOOLEAN
    BY DEF Init
  <2>2. newest \in [index : 0..(IndexMod - 1), sector : Sector]
    BY EmptyFacts DEF Init
  <2> QED BY <1>1, <1>3, <2>1, <2>2 DEF Init, TypeOK
<1>5. Flash
  BY <1>1, <1>2 DEF Init, Flash
<1>6. Known /\ Under /\ LastKept
  BY <1>2, EmptyFacts DEF Init, Known, Under, LastKept
<1> QED BY <1>4, <1>5, <1>6 DEF IInv

-----------------------------------------------------------------------------
(* The theorems.                                                            *)

\* IInv holds of every state, as long as fewer recordings are made than indices
\* count, and none is played that was not kept.
THEOREM Invariance == ASSUME PlayLost = FALSE, MaxMade < IndexMod PROVE Spec => []IInv
<1>1. Init => IInv
  BY InitHolds
<1>2. IInv /\ [Next]_vars => IInv'
  <2> SUFFICES ASSUME IInv, [Next]_vars PROVE IInv'
    OBVIOUS
  <2>1. CASE Mount
    BY <2>1, MountHolds
  <2>2. CASE Create
    BY <2>2, CreateHolds
  <2>3. CASE Extend
    BY <2>3, ExtendHolds
  <2>4. CASE Program
    BY <2>4, ProgramHolds
  <2>5. ASSUME NEW n \in Frames, WriteBegin(n) PROVE IInv'
    BY <2>5, WriteBeginHolds
  <2>6. ASSUME NEW h \in Heads, Close(h) PROVE IInv'
    BY <2>6, CloseHolds
  <2>7. CASE Discard
    BY <2>7, DiscardHolds
  <2>8. CASE Play
    BY <2>8, Replay, StillHolds
  <2>9. CASE PowerLoss
    BY <2>9, PowerLossHolds
  <2>10. CASE UNCHANGED vars
    BY <2>10, StillHolds
  <2> QED BY <2>1, <2>2, <2>3, <2>4, <2>5, <2>6, <2>7, <2>8, <2>9, <2>10 DEF Next
<1> QED BY <1>1, <1>2, PTL DEF Spec

\* Every variable keeps its type: headers of recordings within the index and length
\* ranges of the flash format, sectors of the ring.
THEOREM TypeCorrect == ASSUME PlayLost = FALSE, MaxMade < IndexMod PROVE Spec => []TypeOK
<1>1. IInv => TypeOK
  BY DEF IInv
<1> QED BY <1>1, Invariance, PTL

\* What rec_pfs_scan finds are the recordings on flash, none more and none less, and each
\* still owns every sector its header's length covers, wherever the ring has turned.
THEOREM RecordingsWhole == ASSUME PlayLost = FALSE, MaxMade < IndexMod PROVE Spec => []WholeRecordings
<1>1. IInv => WholeRecordings
  <2> SUFFICES ASSUME IInv, NEW s \in Found, NEW k \in 0..(Sectors(head[s].len) - 1)
               PROVE  owner[Turned(s + k)] = head[s].gen
    BY DEF WholeRecordings
  <2>1. s \in Headed
    BY AllFound DEF IInv
  <2>2. s \in Ring /\ Long(s) \in 1..Last /\ Last \in Nat
    BY <2>1, HeadFacts, Constants DEF IInv
  <2>3. k \in 0..(Last - 1) /\ k < Long(s) /\ Long(s) \in 0..Last
    BY <2>2 DEF Long
  <2>4. Turned(s + k) \in Arc(s, Long(s))
    BY <2>2, <2>3, Along
  <2> QED BY <2>1, <2>4 DEF IInv, Flash, Gn
<1> QED BY <1>1, Invariance, PTL

\* The index in RAM (pfs->index) stands for the youngest recording on flash, after a
\* mount by scan as after a close.
THEOREM NewestSafe == ASSUME PlayLost = FALSE, MaxMade < IndexMod PROVE Spec => []NewestKnown
<1>1. IInv => NewestKnown
  BY AllFound DEF IInv, Known, NewestKnown, Youngest, Gn
<1> QED BY <1>1, Invariance, PTL

\* recfile_index_scan, begun at the newest recording, meets the index it looks for or its
\* own beginning again: jumps by length never step over it.
THEOREM SearchSafe == ASSUME PlayLost = FALSE, MaxMade < IndexMod PROVE Spec => []SearchEnds
<1>1. IInv => SearchEnds
  <2> SUFFICES ASSUME IInv, mounted PROVE Stops(last, newest.sector)
    BY DEF SearchEnds
  <2>1. newest.sector \in Ring
    BY DEF IInv, Known
  <2>2. ASSUME NEW t \in Headed, newest.sector \in Arc(t, Long(t)) PROVE newest.sector = t
    <3>1. newest.sector \in Headed
      BY <2>2 DEF IInv, Known, Youngest
    <3> QED BY <2>2, <3>1, HeadFacts DEF IInv
  <2> QED BY <2>1, <2>2, Ends DEF IInv
<1> QED BY <1>1, Invariance, PTL

\* A recording begins in a sector of the ring.
THEOREM StartSafe == ASSUME PlayLost = FALSE, MaxMade < IndexMod PROVE Spec => []StartsInRing
<1>1. IInv => StartsInRing
  BY DEF IInv, Under, StartsInRing
<1> QED BY <1>1, Invariance, PTL

Kept == {head[s].gen : s \in Found}

\* An erase takes nothing from the log, or its oldest recording.
LEMMA Forgotten ==
  ASSUME IInv, Found = Headed, (Found = Headed)', NEW x, Headed' = Headed \ {x},
         \A s \in Headed' : head'[s] = head[s],
         x \in Headed => \A t \in Headed : Gn(x) <= Gn(t)
  PROVE  Log!Forget \/ Kept' = Kept
<1>1. Kept = {Gn(s) : s \in Headed}
  BY DEF Kept, Gn
<1>2. Kept' = {Gn(s) : s \in Headed \ {x}}
  BY DEF Kept, Gn
<1>3. CASE x \notin Headed
  BY <1>1, <1>2, <1>3
<1>4. CASE x \in Headed
  <2>1. \A s \in Headed : Gn(s) = Gn(x) => s = x
    BY <1>4 DEF IInv, Flash
  <2>2. Kept' = Kept \ {Gn(x)} /\ Gn(x) \in Kept /\ \A h \in Kept : Gn(x) <= h
    BY <1>1, <1>2, <1>4, <2>1
  <2> QED BY <2>2 DEF Log!Forget, Kept
<1> QED BY <1>3, <1>4

LEMMA LogStep ==
  ASSUME PlayLost = FALSE, IInv, Found = Headed, (Found = Headed)', [Next]_vars
  PROVE  Log!Next \/ Kept' = Kept
<1>1. head' = head => Kept' = Kept
  <2>1. head' = head => Headed' = Headed
    BY DEF Headed
  <2> QED BY <2>1 DEF Kept
<1>2. CASE Create
  <2> DEFINE z == After(newest.sector)
  <2>1. mounted /\ Erase(z) /\ made' = made + 1 /\ made \in Nat
    BY <1>2, Constants DEF Create, IInv, TypeOK
  <2>2. /\ z \in Ring /\ \A t \in Headed : z \in Arc(t, Long(t)) => t = z
        /\ z \in Headed => \A t \in Headed : Gn(z) <= Gn(t)
    BY <2>1, Beginning DEF IInv
  <2> HIDE DEF z
  <2>3. made' \in Nat /\ made' >= made
    BY <2>1
  <2>4. Headed' = Headed \ {z} /\ \A s \in Sector : s # z => head'[s] = head[s]
    BY <2>1, <2>2, <2>3, Erasing DEF IInv
  <2>5. \A s \in Headed' : head'[s] = head[s]
    BY <2>4, Constants DEF Headed
  <2> QED BY <2>2, <2>4, <2>5, Forgotten DEF Log!Next
<1>3. CASE Extend
  <2> DEFINE x == Growth(file)
  <2>1. file # NoFile /\ x # file.sector /\ Erase(x) /\ made' = made /\ made \in Nat
    BY <1>3, Constants DEF Extend, Writing, Grows, IInv, TypeOK
  <2>2. /\ x \in Ring /\ \A t \in Headed : x \in Arc(t, Long(t)) => t = x
        /\ x \in Headed => \A t \in Headed : Gn(x) <= Gn(t)
    BY <2>1, Growing
  <2> HIDE DEF x
  <2>3. made' \in Nat /\ made' >= made
    BY <2>1
  <2>4. Headed' = Headed \ {x} /\ \A s \in Sector : s # x => head'[s] = head[s]
    BY <2>1, <2>2, <2>3, Erasing DEF IInv
  <2>5. \A s \in Headed' : head'[s] = head[s]
    BY <2>4, Constants DEF Headed
  <2> QED BY <2>2, <2>4, <2>5, Forgotten DEF Log!Next
<1>4. ASSUME NEW h \in Heads, Close(h) PROVE Log!Next
  <2>0. PICK z : z = file.sector
    OBVIOUS
  <2>1. file # NoFile /\ ~TooShort(file, h)
    BY <1>4 DEF Close, Stopped
  <2>2. AtEnd(file, h).sector = z /\ AtEnd(file, h).index = file.index
    BY <2>0, <2>1, Closing
  <2>3. /\ z \in Ring /\ z \in Sector /\ made \in Gen /\ z \in Arc(z, Room(file))
        /\ \A y \in Arc(z, Room(file)) : head[y] = NoHead
    <3>1. z \in Ring /\ Room(file) \in 1..Last /\ Last \in Nat /\ Room(file) \in 0..Last
      BY <2>0, <2>1, UnderWay, Constants
    <3>2. z \in Sector /\ z \in Arc(z, Room(file))
      BY <3>1, Along, Constants
    <3> QED BY <2>0, <2>1, <3>1, <3>2, UnderWay
  <2>4. z \notin Headed
    BY <2>3 DEF Headed
  <2>5. \E r : head' = [head EXCEPT ![z] = r] /\ r.gen = made /\ r \in Headers
    <3> DEFINE r == [index |-> file.index, len |-> AtEnd(file, h).rw, gen |-> made]
    <3>1. head' = [head EXCEPT ![z] = r]
      BY <1>4, <2>2 DEF Close
    <3>2. file.index \in 0..(IndexMod - 1) /\ AtEnd(file, h).rw \in Nat
      BY <2>1, UnderWay, Closing DEF Files
    <3>3. r \in Headers /\ r.gen = made
      BY <2>3, <3>2 DEF Headers
    <3> HIDE DEF r
    <3> QED BY <3>1, <3>3
  <2>6. PICK r : head' = [head EXCEPT ![z] = r] /\ r.gen = made /\ r \in Headers
    BY <2>5
  <2>7. \A s \in Sector : (s # z => head'[s] = head[s]) /\ (s = z => head'[s] = r)
    BY <2>3, <2>6 DEF IInv, TypeOK
  <2>8. Headed' = Headed \cup {z}
    BY <2>3, <2>6, <2>7, AbsenceAssumption, Constants DEF Headed
  <2>9. Kept' = Kept \cup {made}
    <3>1. \A s \in Headed : s \in Sector
      BY Constants DEF Headed
    <3> QED BY <2>3, <2>4, <2>6, <2>7, <2>8, <3>1 DEF Kept
  <2>10. \A h1 \in Kept : h1 < made
    BY <2>1, UnderWay DEF Kept, Gn
  <2> QED BY <2>3, <2>9, <2>10 DEF Log!Next, Log!Finish, Kept
<1>5. CASE Program
  <2>1. file # NoFile
    BY <1>5 DEF Program, Writing
  <2> DEFINE n == Fits(file)
             T == IF n = 0 THEN {} ELSE Touched(file, file.rw, n)
  <2>2. head' = [s \in Sector |-> IF s \in T /\ ~(owner[s] \in {Blank, made}) THEN NoHead ELSE head[s]]
    BY <1>5 DEF Program
  <2>3. n \in Nat /\ file.rw + n <= file.len
    BY <2>1, FitsRoom
  <2>4. \A s \in T : owner[s] \in {Blank, made}
    BY <2>1, <2>3, InRoom, UnderWay
  <2>5. head' = [s \in Sector |-> head[s]]
    BY <2>2, <2>4
  <2>6. head' = head
    BY <2>5 DEF IInv, TypeOK
  <2> QED BY <1>1, <2>6
<1>6. CASE Play
  BY <1>1, <1>6, Replay DEF vars
<1>7. CASE Mount \/ (\E n \in Frames : WriteBegin(n)) \/ Discard \/ PowerLoss \/ UNCHANGED vars
  BY <1>1, <1>7 DEF Mount, WriteBegin, Discard, PowerLoss, vars, flash
<1> QED BY <1>2, <1>3, <1>4, <1>5, <1>6, <1>7 DEF Next

\* The file system implements RecordingLog: what a mount would find only gains the recording
\* just closed and loses the oldest, whatever is written, cut off or dropped in between.
THEOREM ImplementsLog == ASSUME PlayLost = FALSE, MaxMade < IndexMod PROVE Spec => LogSpec
<1>1. Init => Log!Init
  <2>1. Init => Found = {}
    BY Constants DEF Init, Found, Valid, Reached
  <2> QED BY <2>1 DEF Log!Init
<1>2. IInv => Found = Headed
  BY AllFound DEF IInv
<1>3. IInv /\ Found = Headed /\ (Found = Headed)' /\ [Next]_vars => [Log!Next]_Kept
  BY LogStep
<1>4. Log!Spec <=> Log!Init /\ [][Log!Next]_Kept
  BY DEF Log!Spec, Kept
<1> QED BY <1>1, <1>2, <1>3, <1>4, Invariance, PTL DEF Spec, LogSpec
=============================================================================

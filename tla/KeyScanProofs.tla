---------------------------- MODULE KeyScanProofs ----------------------------
(***************************************************************************)
(* Proofs about KeyScan for every number of keys and all timings.            *)
(***************************************************************************)
EXTENDS KeyScan, Integers, TLAPS

\* The filter's count is covered by scans that read its value.
FilterInv ==
  /\ filter_cnt <= steady
  /\ FilterTime > 0 => filter_value = value \/ steady = 0
  /\ steady = 0 => value = NoKey /\ last_key = NoKey /\ click_cnt = 0

\* Scans without a key until the last click is reported, at most.
Busy == last_key # NoKey \/ click_cnt > 0
Left == (FilterTime - filter_cnt) + ClickDelayTime + 2
          - (IF last_key = NoKey THEN click_delay_cnt ELSE 0)
PerScan == Others + 1
Cost == PerScan * Left

\* The time is_key_active has left covers those scans, of all the drivers.
ActiveInv ==
  LongEnough /\ Busy =>
    /\ value # NoKey => is_key_active >= ActiveTime - (Others - due)
    /\ value = NoKey => is_key_active >= Cost - (Others - due)

IInv == TypeOK /\ FilterInv /\ ActiveInv
-----------------------------------------------------------------------------
LEMMA ConstantTypes ==
  /\ FilterTime \in Nat /\ ClickDelayTime \in Nat /\ LongTime \in Nat /\ HoldTime \in Nat
  /\ ActiveTime \in Nat /\ Others \in Nat /\ MaxClicks \in Nat
  /\ LongTime >= 2 /\ LongTime < HoldTime /\ MaxClicks >= 1
BY KeyScanAssumption

\* The initial states satisfy the invariant.
LEMMA InitHolds == Init => IInv
<1> SUFFICES ASSUME Init PROVE IInv
  OBVIOUS
<1>1. TypeOK
  BY KeyScanAssumption DEF Init, TypeOK, Values
<1>2. FilterInv
  BY DEF Init, FilterInv
<1>3. ~Busy
  BY DEF Init, Busy
<1> QED BY <1>1, <1>2, <1>3 DEF IInv, ActiveInv

\* What a scan of v does to the judged part keeps the types.
LEMMA JudgedTypes ==
  ASSUME TypeOK, NEW v \in Values, Judged(v)
  PROVE  /\ last_key' \in Values /\ notify_value' \in Values
         /\ press_cnt' \in 0..(HoldTime - 1) /\ click_cnt' \in 0..MaxClicks
         /\ click_delay_cnt' \in 0..(ClickDelayTime + 1)
<1> USE ConstantTypes DEF Values
<1>1. CASE Released(v)
  BY <1>1 DEF Released, Notify, TypeOK
<1>2. CASE Pressed(v)
  BY <1>2 DEF Pressed, TypeOK
<1>3. CASE Idle(v)
  BY <1>3 DEF Idle, TypeOK, judged
<1>4. CASE Wait(v)
  <2>1. /\ click_delay_cnt <= ClickDelayTime /\ click_delay_cnt' = click_delay_cnt + 1
        /\ last_key' = last_key /\ press_cnt' = press_cnt /\ click_cnt' = click_cnt
        /\ notify_value' = notify_value
    BY <1>4 DEF Wait, Pending, Waiting
  <2> QED BY <2>1 DEF TypeOK
<1>5. CASE Clicked(v)
  <2>1. /\ click_delay_cnt' = click_delay_cnt /\ last_key' = last_key /\ press_cnt' = press_cnt
        /\ click_cnt' = 0 /\ notify_value' = NoKey
    BY <1>5 DEF Clicked, Pending, Notify
  <2> QED BY <2>1 DEF TypeOK
<1>6. CASE Held(v)
  <2>1. press_cnt + 1 # HoldTime => press_cnt + 1 \in 0..(HoldTime - 1)
    BY DEF TypeOK
  <2>2. LongTime \in 0..(HoldTime - 1)
    OBVIOUS
  <2>3. press_cnt' \in 0..(HoldTime - 1)
    BY <1>6, <2>1, <2>2 DEF Held
  <2>4. click_cnt' \in 0..MaxClicks /\ notify_value' \in Values
    BY <1>6 DEF Held, Notify, TypeOK
  <2> QED BY <1>6, <2>3, <2>4 DEF Held, TypeOK
<1> QED BY <1>1, <1>2, <1>3, <1>4, <1>5, <1>6 DEF Judged

\* is_key_active after a value was read.
LEMMA ActiveBound ==
  ASSUME TypeOK, NEW v \in Values, Active(v)
  PROVE  /\ is_key_active' \in 0..ActiveTime /\ is_key_active' >= is_key_active - 1
         /\ v # NoKey => is_key_active' = ActiveTime
BY ConstantTypes DEF TypeOK, Active, Less

\* The types are kept.
LEMMA TypeStep == TypeOK /\ [Next]_vars => TypeOK'
<1> SUFFICES ASSUME TypeOK, [Next]_vars PROVE TypeOK'
  OBVIOUS
<1> USE ConstantTypes
<1>1. CASE Scan
  <2>1. PICK v \in Values :
          /\ due = 0 /\ due' = Others /\ value' = v
          /\ steady' = IF v # value THEN 1 ELSE IF steady <= FilterTime THEN steady + 1 ELSE steady
          /\ Active(v) /\ (Changed(v) \/ Counted(v) \/ Judged(v))
    BY <1>1 DEF Scan
  <2>2. steady' \in 0..(FilterTime + 1) /\ due' \in 0..Others
    BY <2>1 DEF TypeOK
  <2>3. CASE Changed(v)
    BY <2>1, <2>2, <2>3, ActiveBound DEF Changed, judged, TypeOK
  <2>4. CASE Counted(v)
    BY <2>1, <2>2, <2>4, ActiveBound DEF Counted, judged, TypeOK
  <2>5. CASE Judged(v)
    <3>1. UNCHANGED filter
      BY <2>5 DEF Judged, Settled
    <3> QED BY <2>1, <2>2, <2>5, <3>1, ActiveBound, JudgedTypes DEF filter, TypeOK
  <2> QED BY <2>1, <2>3, <2>4, <2>5
<1>2. CASE OtherScan
  <2>1. PICK v \in Values : Active(v)
    BY <1>2 DEF OtherScan
  <2>2. due' \in 0..Others
    BY <1>2 DEF OtherScan, TypeOK
  <2> QED BY <1>2, <2>1, <2>2, ActiveBound DEF OtherScan, TypeOK, filter, judged
<1>3. CASE Wakeup
  BY <1>3 DEF Wakeup, TypeOK, filter, judged
<1>4. CASE UNCHANGED vars
  BY <1>4 DEF vars, TypeOK, filter, judged
<1> QED BY <1>1, <1>2, <1>3, <1>4 DEF Next, Timers

\* What one scan changes, with the three ways through it.
ScanOf(v) ==
  /\ due = 0 /\ due' = Others /\ value' = v
  /\ steady' = IF v # value THEN 1 ELSE IF steady <= FilterTime THEN steady + 1 ELSE steady
  /\ Active(v) /\ (Changed(v) \/ Counted(v) \/ Judged(v))

LEMMA ScanPick == ASSUME Scan PROVE \E v \in Values : ScanOf(v)
BY DEF Scan, ScanOf

\* A value that settles was read in more than FilterTime scans running.
LEMMA SettledSteady ==
  ASSUME TypeOK, FilterInv, NEW v \in Values, ScanOf(v), Judged(v)
  PROVE  steady' > FilterTime
<1> USE ConstantTypes
<1>1. /\ v = filter_value \/ FilterTime = 0
      /\ filter_cnt >= FilterTime
  BY DEF Judged, Settled, Same
<1>2. steady' = IF v # value THEN 1 ELSE IF steady <= FilterTime THEN steady + 1 ELSE steady
  BY DEF ScanOf
<1>3. /\ filter_cnt <= steady /\ (FilterTime > 0 => filter_value = value \/ steady = 0)
      /\ steady \in Nat /\ filter_cnt \in Nat
  BY DEF FilterInv, TypeOK
<1> QED BY <1>1, <1>2, <1>3

LEMMA FilterStep == TypeOK /\ FilterInv /\ [Next]_vars => FilterInv'
<1> SUFFICES ASSUME TypeOK, FilterInv, [Next]_vars PROVE FilterInv'
  OBVIOUS
<1> USE ConstantTypes
<1>1. CASE Scan
  <2>1. PICK v \in Values : ScanOf(v)
    BY <1>1, ScanPick
  <2>2. /\ value' = v
        /\ steady' = IF v # value THEN 1 ELSE IF steady <= FilterTime THEN steady + 1 ELSE steady
    BY <2>1 DEF ScanOf
  <2>3. /\ filter_cnt <= steady /\ (FilterTime > 0 => filter_value = value \/ steady = 0)
        /\ steady \in Nat /\ filter_cnt \in 0..FilterTime
    BY DEF FilterInv, TypeOK
  <2>4. steady' > 0
    BY <2>2, <2>3
  <2>5. CASE Changed(v)
    <3>1. filter_value' = v /\ filter_cnt' = 0
      BY <2>5 DEF Changed
    <3> QED BY <2>2, <2>4, <3>1 DEF FilterInv
  <2>6. CASE Counted(v)
    <3>1. /\ filter_value' = filter_value /\ filter_cnt' = filter_cnt + 1 /\ filter_cnt < FilterTime
          /\ v = filter_value \/ FilterTime = 0
      BY <2>6 DEF Counted, Same
    <3>2. v = filter_value
      BY <2>3, <3>1
    <3> QED BY <2>2, <2>3, <2>4, <3>1, <3>2 DEF FilterInv
  <2>7. CASE Judged(v)
    <3>1. steady' > FilterTime
      BY <2>1, <2>7, SettledSteady
    <3>2. /\ filter_value' = filter_value /\ filter_cnt' = filter_cnt
          /\ v = filter_value \/ FilterTime = 0
      BY <2>7 DEF Judged, Settled, Same, filter
    <3> QED BY <2>2, <2>3, <2>4, <3>1, <3>2 DEF FilterInv
  <2> QED BY <2>1, <2>5, <2>6, <2>7 DEF ScanOf
<1>2. CASE OtherScan
  BY <1>2 DEF OtherScan, filter, judged, FilterInv
<1>3. CASE Wakeup
  BY <1>3 DEF Wakeup, filter, judged, FilterInv
<1>4. CASE UNCHANGED vars
  BY <1>4 DEF vars, filter, judged, FilterInv
<1> QED BY <1>1, <1>2, <1>3, <1>4 DEF Next, Timers
-----------------------------------------------------------------------------
(* is_key_active.                                                           *)

\* One scan less to go costs one period less.
LEMMA Periods ==
  ASSUME NEW p \in Nat, NEW a \in Int, NEW b \in Int, a <= b
  PROVE  p * a <= p * b
<1>1. p * (b - a) >= 0
  <2>1. b - a \in Nat
    OBVIOUS
  <2> QED BY <2>1
<1>2. p * (b - a) = p * b - p * a
  OBVIOUS
<1>3. p * a \in Int /\ p * b \in Int
  OBVIOUS
<1> QED BY <1>1, <1>2, <1>3

\* The scans left are at least one, and at most those of a key just released.
LEMMA LeftBounds ==
  ASSUME TypeOK
  PROVE  Left \in Int /\ Left >= 1 /\ Left <= FilterTime + ClickDelayTime + 2
BY ConstantTypes DEF TypeOK, Left

\* ActiveTime covers all the scans there can be, and one more.
LEMMA Covered ==
  TypeOK /\ LongEnough => Cost \in Int /\ Cost >= PerScan /\ Cost + PerScan <= ActiveTime
<1> SUFFICES ASSUME TypeOK, LongEnough
             PROVE  Cost \in Int /\ Cost >= PerScan /\ Cost + PerScan <= ActiveTime
  OBVIOUS
<1> USE ConstantTypes
<1>1. Left \in Int /\ Left >= 1 /\ Left <= FilterTime + ClickDelayTime + 2
  BY LeftBounds
<1>2. PerScan \in Nat
  BY DEF PerScan
<1>3. PerScan * (Left + 1) <= PerScan * (FilterTime + ClickDelayTime + 3)
  BY <1>1, <1>2, Periods
<1>4. PerScan * (FilterTime + ClickDelayTime + 3) <= ActiveTime
  BY DEF LongEnough, PerScan
<1>5. PerScan * (Left + 1) = Cost + PerScan /\ Cost \in Int
      /\ PerScan * (FilterTime + ClickDelayTime + 3) \in Int
  BY <1>1, <1>2 DEF Cost
<1>6. PerScan * 1 <= Cost /\ PerScan * 1 = PerScan
  BY <1>1, <1>2, Periods DEF Cost
<1> HIDE DEF PerScan, Left, Cost
<1> QED BY <1>2, <1>3, <1>4, <1>5, <1>6

LEMMA CoveredNext ==
  TypeOK' /\ LongEnough => Cost' \in Int /\ Cost' >= PerScan /\ Cost' + PerScan <= ActiveTime
<1>1. TypeOK /\ LongEnough => Cost \in Int /\ Cost >= PerScan /\ Cost + PerScan <= ActiveTime
  BY Covered
<1>2. (TypeOK /\ LongEnough => Cost \in Int /\ Cost >= PerScan /\ Cost + PerScan <= ActiveTime)'
  BY <1>1, PTL
<1>3. LongEnough' = LongEnough /\ PerScan' = PerScan
  BY DEF LongEnough, PerScan
<1> QED BY <1>2, <1>3

\* is_key_active is not zero where the invariant holds.
LEMMA ActiveAwake == IInv => Awake
<1> SUFFICES ASSUME IInv, LongEnough, Busy PROVE is_key_active > 0
  BY DEF Awake, Busy
<1> USE ConstantTypes
<1>1. TypeOK /\ due \in 0..Others /\ is_key_active \in Nat
  BY DEF IInv, TypeOK
<1>2. Cost \in Int /\ Cost >= PerScan /\ Cost + PerScan <= ActiveTime
  BY <1>1, Covered
<1>3. PerScan = Others + 1
  BY DEF PerScan
<1>4. CASE value # NoKey
  <2>1. is_key_active >= ActiveTime - (Others - due)
    BY <1>4 DEF IInv, ActiveInv
  <2> QED BY <1>1, <1>2, <1>3, <2>1
<1>5. CASE value = NoKey
  <2>1. is_key_active >= Cost - (Others - due)
    BY <1>5 DEF IInv, ActiveInv
  <2> QED BY <1>1, <1>2, <1>3, <2>1
<1> QED BY <1>4, <1>5

\* A scan that reads no key leaves nothing to wait for, or one scan less.
LEMMA LeftLess ==
  ASSUME TypeOK, FilterInv, Busy, value = NoKey, ScanOf(NoKey)
  PROVE  Busy /\ (Busy' => Left' <= Left - 1)
<1> USE ConstantTypes
<1>1. CASE Changed(NoKey)
  <2>1. filter_value # NoKey /\ FilterTime # 0
    BY <1>1 DEF Changed
  <2>2. steady = 0
    BY <2>1 DEF FilterInv
  <2> QED BY <2>2 DEF FilterInv, Busy
<1>2. CASE Counted(NoKey)
  <2>1. /\ filter_cnt' = filter_cnt + 1 /\ last_key' = last_key
        /\ click_delay_cnt' = click_delay_cnt
    BY <1>2 DEF Counted, judged
  <2> QED BY <2>1 DEF Left, TypeOK
<1>3. CASE Judged(NoKey)
  <2>1. filter_cnt' = filter_cnt
    BY <1>3 DEF Judged, Settled, filter
  <2>2. CASE Released(NoKey)
    <3>1. last_key # NoKey /\ last_key' = NoKey
      BY <2>2 DEF Released
    <3>2. CASE press_cnt >= LongTime
      <4>1. click_cnt' = 0
        BY <2>2, <3>2 DEF Released, Notify
      <4> QED BY <3>1, <4>1 DEF Busy
    <3>3. CASE ~(press_cnt >= LongTime)
      <4>1. click_delay_cnt' = 1
        BY <2>2, <3>3 DEF Released
      <4> QED BY <2>1, <3>1, <4>1 DEF Left, TypeOK
    <3> QED BY <3>2, <3>3
  <2>3. CASE Idle(NoKey)
    BY <2>3 DEF Idle, Busy
  <2>4. CASE Wait(NoKey)
    <3>1. /\ last_key = NoKey /\ last_key' = last_key
          /\ click_delay_cnt' = click_delay_cnt + 1
      BY <2>4 DEF Wait, Pending
    <3> QED BY <2>1, <3>1 DEF Left, TypeOK
  <2>5. CASE Clicked(NoKey)
    <3>1. last_key' = NoKey /\ click_cnt' = 0
      BY <2>5 DEF Clicked, Pending, Notify
    <3> QED BY <3>1 DEF Busy
  <2>6. ~Pressed(NoKey) /\ ~Held(NoKey)
    BY DEF Pressed, Held
  <2> QED BY <1>3, <2>2, <2>3, <2>4, <2>5, <2>6 DEF Judged
<1> QED BY <1>1, <1>2, <1>3 DEF ScanOf

\* A scan that reads no key makes nothing busy.
LEMMA NoNewBusy ==
  ASSUME ScanOf(NoKey), ~Busy
  PROVE  ~Busy'
<1>1. CASE Changed(NoKey)
  BY <1>1 DEF Changed, judged, Busy
<1>2. CASE Counted(NoKey)
  BY <1>2 DEF Counted, judged, Busy
<1>3. CASE Judged(NoKey)
  <2>1. ~Released(NoKey) /\ ~Pressed(NoKey) /\ ~Held(NoKey)
    BY DEF Released, Pressed, Held, Busy
  <2>2. CASE Idle(NoKey)
    BY <2>2 DEF Idle, judged, Busy
  <2>3. CASE Wait(NoKey)
    BY <2>3 DEF Wait, Pending, Busy
  <2>4. CASE Clicked(NoKey)
    BY <2>4 DEF Clicked, Pending, Notify, Busy
  <2> QED BY <1>3, <2>1, <2>2, <2>3, <2>4 DEF Judged
<1> QED BY <1>1, <1>2, <1>3 DEF ScanOf

\* One scan less to go takes PerScan from the cost.
LEMMA OneLess ==
  ASSUME TypeOK, TypeOK', Left' <= Left - 1
  PROVE  Cost' + PerScan <= Cost
<1> USE ConstantTypes
<1>0. Left' \in Int
  BY DEF TypeOK, Left
<1>1. PICK a \in Int : a = Left'
  BY <1>0
<1>2. PICK b \in Int : b = Left
  BY LeftBounds
<1>3. PICK p \in Nat : p = PerScan
  BY DEF PerScan
<1>4. a <= b - 1
  BY <1>1, <1>2
<1>5. a + 1 \in Int /\ a + 1 <= b
  BY <1>4
<1>6. p * (a + 1) <= p * b
  BY <1>5, Periods
<1>7. p * (a + 1) = p * a + p
  OBVIOUS
<1>8. Cost' = p * a /\ Cost = p * b
  <2>1. Cost' = PerScan * Left'
    BY DEF Cost, PerScan
  <2> QED BY <1>1, <1>2, <1>3, <2>1 DEF Cost
<1> QED BY <1>3, <1>6, <1>7, <1>8

\* The bound on is_key_active is kept: each period takes PerScan from it.
LEMMA ActiveStep == IInv /\ TypeOK' /\ [Next]_vars => ActiveInv'
<1> SUFFICES ASSUME IInv, TypeOK', [Next]_vars, LongEnough, Busy'
             PROVE  /\ value' # NoKey => is_key_active' >= ActiveTime - (Others - due')
                    /\ value' = NoKey => is_key_active' >= Cost' - (Others - due')
  <2>1. LongEnough' = LongEnough /\ PerScan' = PerScan
    BY DEF LongEnough, PerScan
  <2> QED BY <2>1 DEF ActiveInv
<1> USE ConstantTypes
<1>1. TypeOK /\ FilterInv /\ due \in 0..Others /\ is_key_active \in Nat /\ is_key_active <= ActiveTime
      /\ is_key_active' \in Nat /\ due' \in 0..Others
  BY DEF IInv, TypeOK
<1>2. PerScan = Others + 1 /\ PerScan \in Nat
  BY DEF PerScan
<1>3. Cost \in Int /\ Cost >= PerScan /\ Cost + PerScan <= ActiveTime
  BY <1>1, Covered
<1>4. Cost' \in Int /\ Cost' >= PerScan /\ Cost' + PerScan <= ActiveTime
  BY CoveredNext
<1>a. PICK c \in Int : c = Cost'
  BY <1>4
<1>b. PICK p \in Nat : p = PerScan
  BY <1>2
<1>c. p = Others + 1 /\ c + p <= ActiveTime
  BY <1>2, <1>4, <1>a, <1>b
<1>5. CASE Scan
  <2>1. PICK v \in Values : ScanOf(v)
    BY <1>5, ScanPick
  <2>2. due = 0 /\ due' = Others /\ value' = v /\ Active(v)
    BY <2>1 DEF ScanOf
  <2>3. CASE v # NoKey
    <3>1. is_key_active' = ActiveTime
      BY <1>1, <2>2, <2>3, ActiveBound
    <3> QED BY <2>2, <2>3, <3>1
  <2>4. CASE v = NoKey
    <3>1. is_key_active' >= is_key_active - 1
      BY <1>1, <2>2, ActiveBound
    <3>2. ScanOf(NoKey)
      BY <2>1, <2>4
    <3>3. Busy
      BY <3>2, NoNewBusy
    <3>4. CASE value # NoKey
      <4>1. is_key_active >= ActiveTime - Others
        BY <1>1, <2>2, <3>3, <3>4 DEF IInv, ActiveInv
      <4>2. is_key_active' >= c
        BY <1>1, <1>c, <3>1, <4>1
      <4> QED BY <1>a, <2>2, <2>4, <4>2
    <3>5. CASE value = NoKey
      <4>1. is_key_active >= Cost - Others
        BY <1>1, <2>2, <3>3, <3>5 DEF IInv, ActiveInv
      <4>2. Left' <= Left - 1
        BY <1>1, <3>2, <3>3, <3>5, LeftLess
      <4>3. Cost' + PerScan <= Cost
        BY <1>1, <1>2, <4>2, OneLess
      <4>4. PICK d \in Int : d = Cost
        BY <1>3
      <4>5. is_key_active >= d - Others /\ c + p <= d
        BY <1>a, <1>b, <4>1, <4>3, <4>4
      <4>6. is_key_active' >= c
        BY <1>1, <1>c, <3>1, <4>5
      <4> QED BY <1>a, <2>2, <2>4, <4>6
    <3> QED BY <3>4, <3>5
  <2> QED BY <2>3, <2>4
<1>6. CASE OtherScan \/ Wakeup \/ UNCHANGED vars
  <2>1. value' = value /\ Busy' = Busy /\ Cost' = Cost
    BY <1>6 DEF OtherScan, Wakeup, vars, judged, filter, Busy, Left, Cost
  <2>2. CASE OtherScan
    <3>1. PICK v \in Values : Active(v)
      BY <2>2 DEF OtherScan
    <3>2. due' = due - 1 /\ is_key_active' >= is_key_active - 1
      BY <1>1, <2>2, <3>1, ActiveBound DEF OtherScan
    <3> QED BY <1>1, <1>3, <2>1, <3>2 DEF IInv, ActiveInv
  <2>3. CASE Wakeup
    <3>1. is_key_active' = ActiveTime /\ due' = due
      BY <2>3 DEF Wakeup
    <3> QED BY <1>1, <1>2, <1>3, <2>1, <3>1
  <2>4. CASE UNCHANGED vars
    <3>1. is_key_active' = is_key_active /\ due' = due
      BY <2>4 DEF vars
    <3> QED BY <2>1, <3>1 DEF IInv, ActiveInv
  <2> QED BY <1>6, <2>2, <2>3, <2>4
<1> QED BY <1>5, <1>6 DEF Next, Timers

LEMMA Inductive == IInv /\ [Next]_vars => IInv'
BY TypeStep, FilterStep, ActiveStep DEF IInv
-----------------------------------------------------------------------------
(* Events.                                                                  *)

\* The state of KeyEvents, as KeyScan refines it.
WasLong == last_key # NoKey /\ press_cnt >= LongTime
Quiet == out' = None /\ last_key' = last_key /\ WasLong' = WasLong
           /\ notify_value' = notify_value /\ click_cnt' = click_cnt

LEMMA QuietStep == ASSUME Quiet PROVE Promised!Step
BY DEF Quiet, WasLong, None, Promised!Step, Promised!Quiet, Promised!Silent, Promised!None

\* The two names of a number of clicks are the same.
LEMMA SameClicks ==
  ASSUME TypeOK, click_cnt > 0
  PROVE  ClickEvent = Promised!ClickEvent(notify_value, click_cnt)
<1> USE ConstantTypes
<1>1. click_cnt \in Nat /\ click_cnt >= 1
  BY DEF TypeOK
<1>2. CASE notify_value \in ClickOnly
  BY <1>1, <1>2 DEF ClickEvent, Promised!ClickEvent
<1>3. CASE notify_value \notin ClickOnly /\ click_cnt >= 5
  BY <1>1, <1>3 DEF ClickEvent, Promised!ClickEvent
<1>4. CASE notify_value \notin ClickOnly /\ click_cnt < 5
  <2>1. click_cnt \in {1, 2, 3, 4}
    BY <1>1, <1>4
  <2> QED BY <1>4, <2>1 DEF ClickEvent, Promised!ClickEvent
<1> QED BY <1>1, <1>2, <1>3, <1>4

\* What a settled value means is what KeyEvents says.
LEMMA JudgedStep ==
  ASSUME TypeOK, NEW v \in Values, Judged(v)
  PROVE  Promised!Step
<1> USE ConstantTypes
<1>1. CASE Released(v)
  <2>1. last_key # NoKey /\ last_key' = NoKey /\ WasLong' = FALSE
    BY <1>1 DEF Released, WasLong
  <2>2. CASE press_cnt >= LongTime
    <3>1. out' = [e |-> "UP", k |-> last_key] /\ click_cnt' = 0 /\ notify_value' = NoKey
      BY <1>1, <2>2 DEF Released, Notify
    <3>2. Promised!Up
      BY <2>1, <2>2, <3>1 DEF WasLong, Promised!Up, Promised!Report
    <3> QED BY <3>2 DEF Promised!Step
  <2>3. CASE ~(press_cnt >= LongTime)
    <3>1. out' = None /\ click_cnt' = click_cnt /\ notify_value' = notify_value
      BY <1>1, <2>3 DEF Released, Silent
    <3>2. Promised!Lift
      BY <2>1, <2>3, <3>1 DEF WasLong, None, Promised!Lift, Promised!Silent, Promised!None
    <3> QED BY <3>2 DEF Promised!Step
  <2> QED BY <2>2, <2>3
<1>2. CASE Pressed(v)
  <2>1. v # last_key /\ v \in Keys /\ last_key' = v /\ press_cnt' = 1 /\ out' = None
    BY <1>2 DEF Pressed, Silent, Values
  <2>2. notify_value' = v /\ click_cnt' = IF notify_value = v THEN click_cnt + 1 ELSE 1
    BY <1>2 DEF Pressed
  <2>3. WasLong' = FALSE
    BY <2>1 DEF WasLong
  <2>4. Promised!Down(v)
    BY <2>1, <2>2, <2>3 DEF WasLong, None, Promised!Down, Promised!Silent, Promised!None
  <2> QED BY <2>1, <2>4 DEF Promised!Step
<1>3. CASE Idle(v)
  <2>1. Quiet
    BY <1>3 DEF Idle, Silent, judged, Quiet, WasLong
  <2> QED BY <2>1, QuietStep
<1>4. CASE Wait(v)
  <2>1. Quiet
    BY <1>4 DEF Wait, Pending, Silent, Quiet, WasLong
  <2> QED BY <2>1, QuietStep
<1>5. CASE Clicked(v)
  <2>1. /\ last_key = NoKey /\ last_key' = last_key /\ press_cnt' = press_cnt /\ click_cnt > 0
        /\ out' = [e |-> ClickEvent, k |-> notify_value] /\ click_cnt' = 0 /\ notify_value' = NoKey
    BY <1>5 DEF Clicked, Pending, Notify
  <2>2. ClickEvent = Promised!ClickEvent(notify_value, click_cnt)
    BY <2>1, SameClicks
  <2>3. Promised!Click
    BY <2>1, <2>2 DEF Promised!Click, Promised!Report
  <2> QED BY <2>3 DEF Promised!Step
<1>6. CASE Held(v)
  <2>1. /\ last_key = v /\ v # NoKey /\ last_key' = last_key
        /\ press_cnt' = IF press_cnt + 1 = HoldTime THEN LongTime ELSE press_cnt + 1
        /\ press_cnt \in Nat
    BY <1>6 DEF Held, TypeOK
  <2>2. CASE press_cnt + 1 = LongTime
    <3>1. WasLong = FALSE /\ WasLong' = TRUE
      BY <2>1, <2>2 DEF WasLong
    <3>2. out' = [e |-> "LONG", k |-> last_key] /\ click_cnt' = 0 /\ notify_value' = NoKey
      BY <1>6, <2>1, <2>2 DEF Held, Notify
    <3>3. Promised!Long
      BY <2>1, <3>1, <3>2 DEF WasLong, Promised!Long, Promised!Report
    <3> QED BY <3>3 DEF Promised!Step
  <2>3. CASE press_cnt + 1 = HoldTime
    <3>1. WasLong = TRUE /\ WasLong' = TRUE
      BY <2>1, <2>3 DEF WasLong
    <3>2. out' = [e |-> "HOLD", k |-> last_key] /\ click_cnt' = 0 /\ notify_value' = NoKey
      BY <1>6, <2>1, <2>3 DEF Held, Notify
    <3>3. Promised!Hold
      BY <2>1, <3>1, <3>2 DEF WasLong, Promised!Hold, Promised!Report
    <3> QED BY <3>3 DEF Promised!Step
  <2>4. CASE press_cnt + 1 \notin {LongTime, HoldTime}
    <3>1. WasLong' = WasLong
      BY <2>1, <2>4 DEF WasLong
    <3>2. out' = None /\ click_cnt' = click_cnt /\ notify_value' = notify_value
      BY <1>6, <2>4 DEF Held, Silent
    <3>3. Quiet
      BY <2>1, <3>1, <3>2 DEF Quiet
    <3> QED BY <3>3, QuietStep
  <2> QED BY <2>2, <2>3, <2>4
<1> QED BY <1>1, <1>2, <1>3, <1>4, <1>5, <1>6 DEF Judged

\* Every step is one of KeyEvents, or none.
LEMMA EventStep == TypeOK /\ [Next]_vars => [Promised!Step]_(Promised!keyEvents)
<1> SUFFICES ASSUME TypeOK, [Next]_vars PROVE [Promised!Step]_(Promised!keyEvents)
  OBVIOUS
<1>1. CASE Scan
  <2>1. PICK v \in Values : ScanOf(v)
    BY <1>1, ScanPick
  <2>2. CASE Changed(v) \/ Counted(v)
    <3>1. Quiet
      BY <2>2 DEF Changed, Counted, Silent, judged, Quiet, WasLong
    <3> QED BY <3>1, QuietStep
  <2>3. CASE Judged(v)
    BY <2>3, JudgedStep
  <2> QED BY <2>1, <2>2, <2>3 DEF ScanOf
<1>2. CASE OtherScan \/ Wakeup \/ UNCHANGED vars
  <2>1. UNCHANGED <<judged, out>>
    BY <1>2 DEF OtherScan, Wakeup, vars
  <2> QED BY <2>1 DEF judged, Promised!keyEvents
<1> QED BY <1>1, <1>2 DEF Next, Timers
-----------------------------------------------------------------------------
(* Theorems.                                                                *)

\* The counters of key_driver_scan keep to their ranges.
THEOREM TypesOK == Spec => []TypeOK
<1>1. Init => IInv
  BY InitHolds
<1>2. IInv /\ [Next]_vars => IInv'
  BY Inductive
<1>3. IInv => TypeOK
  BY DEF IInv
<1> QED BY <1>1, <1>2, <1>3, PTL DEF Spec

\* key_idle_query never allows sleep while a key is down or clicks are pending, for
\* any number of drivers and all timings that LongEnough admits.
THEOREM StaysAwake == Spec => []Awake
<1>1. Init => IInv
  BY InitHolds
<1>2. IInv /\ [Next]_vars => IInv'
  BY Inductive
<1>3. IInv => Awake
  BY ActiveAwake
<1> QED BY <1>1, <1>2, <1>3, PTL DEF Spec

\* The filter of key_driver_scan: nothing shorter than it changes last_key.
THEOREM BouncesFiltered == Spec => Debounced
<1>1. Init => IInv
  BY InitHolds
<1>2. IInv /\ [Next]_vars => IInv'
  BY Inductive
<1>3. IInv /\ [Next]_vars => [last_key' # last_key => steady' > FilterTime]_vars
  <2> SUFFICES ASSUME IInv, [Next]_vars, last_key' # last_key PROVE steady' > FilterTime
    OBVIOUS
  <2>1. CASE Scan
    <3>1. PICK v \in Values : ScanOf(v)
      BY <2>1, ScanPick
    <3>2. ~Changed(v) /\ ~Counted(v)
      BY DEF Changed, Counted, judged
    <3> QED BY <3>1, <3>2, SettledSteady DEF ScanOf, IInv
  <2>2. ~OtherScan /\ ~Wakeup /\ ~UNCHANGED vars
    BY DEF OtherScan, Wakeup, vars, judged
  <2> QED BY <2>1, <2>2 DEF Next, Timers
<1> QED BY <1>1, <1>2, <1>3, PTL DEF Spec, Debounced

\* key_driver_scan implements KeyEvents.
THEOREM ImplementsEvents == Spec => EventsSpec
<1>1. Init => IInv
  BY InitHolds
<1>2. IInv /\ [Next]_vars => IInv'
  BY Inductive
<1>3. Init => Promised!Start
  BY DEF Init, None, Promised!Start, Promised!None
<1>4. IInv /\ [Next]_vars => [Promised!Step]_(Promised!keyEvents)
  BY EventStep DEF IInv
<1> QED BY <1>1, <1>2, <1>3, <1>4, PTL DEF Spec, EventsSpec, Promised!Events
=============================================================================

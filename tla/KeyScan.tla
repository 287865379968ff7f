------------------------------- MODULE KeyScan -------------------------------
(***************************************************************************)
(* The scan of one key driver (key_driver.c): a timer calls it with a period, *)
(* it reads the key that is down and turns the values into events.  All       *)
(* drivers share is_key_active, which keeps the system from sleeping.         *)
(*                                                                         *)
(* Times are counted in scans.                                              *)
(***************************************************************************)
EXTENDS Naturals

CONSTANTS
  Keys,             \* what get_value returns of keys
  NoKey,            \* NO_KEY
  ClickOnly,        \* keys with BIT(7), or all of them with ALL_KEY_EVENT_CLICK_ONLY
  FilterTime,       \* filter_time
  LongTime,         \* long_time
  HoldTime,         \* hold_time
  ClickDelayTime,   \* click_delay_time
  ActiveTime,       \* 35
  Others,           \* drivers scanned besides, with the same period
  MaxClicks         \* bound: presses of a key with no pause

\* The counters are u8.  MOUSE_KEY_SCAN_MODE, where long_time is hold_time, is left out.
ASSUME KeyScanAssumption ==
  /\ NoKey \notin Keys /\ Keys # {} /\ ClickOnly \subseteq Keys
  /\ FilterTime \in 0..255 /\ ClickDelayTime \in 0..254
  /\ LongTime \in 2..255 /\ HoldTime \in 0..255 /\ LongTime < HoldTime
  /\ ActiveTime \in 0..255 /\ Others \in Nat /\ MaxClicks \in 1..255

VARIABLES
  value,             \* cur_key_value of the last scan
  steady,            \* history: scans in a row with that value
  filter_value,
  filter_cnt,
  last_key,
  press_cnt,
  click_cnt,
  click_delay_cnt,
  notify_value,
  is_key_active,
  due,               \* other drivers still to be scanned in this period
  out                \* the event the last scan notified

filter == <<filter_value, filter_cnt>>
judged == <<last_key, press_cnt, click_cnt, click_delay_cnt, notify_value>>
vars == <<value, steady, filter, judged, is_key_active, due, out>>

Values == Keys \cup {NoKey}
None == [e |-> "none", k |-> NoKey]

\* Which click is reported.
ClickEvent ==
  IF notify_value \in ClickOnly THEN "CLICK"
  ELSE IF click_cnt >= 5 THEN "FIRTH_CLICK"
  ELSE <<"CLICK", "DOUBLE_CLICK", "TRIPLE_CLICK", "FOURTH_CLICK">>[click_cnt]

\* _notify; every path ends with _scan_end, last_key = cur_key_value.
Notify(e, k) == out' = [e |-> e, k |-> k] /\ click_cnt' = 0 /\ notify_value' = NoKey
Silent == out' = None
-----------------------------------------------------------------------------
(* The filter: a value counts once it was read FilterTime times more.         *)

\* Mutant: the count goes on over another value.
ChangedKept(v) ==
  /\ v # filter_value /\ FilterTime # 0
  /\ filter_value' = v /\ Silent /\ UNCHANGED <<judged, filter_cnt>>
Changed(v) ==
  /\ v # filter_value /\ FilterTime # 0
  /\ filter_value' = v /\ filter_cnt' = 0
  /\ Silent /\ UNCHANGED judged

Same(v) == v = filter_value \/ FilterTime = 0

Counted(v) ==
  /\ Same(v) /\ filter_cnt < FilterTime
  /\ filter_cnt' = filter_cnt + 1
  /\ Silent /\ UNCHANGED <<filter_value, judged>>

Settled(v) == Same(v) /\ filter_cnt >= FilterTime /\ UNCHANGED filter
-----------------------------------------------------------------------------
(* What a settled value means.                                              *)

Released(v) ==
  /\ v # last_key /\ v = NoKey /\ last_key' = v
  /\ IF press_cnt >= LongTime
     THEN Notify("UP", last_key) /\ UNCHANGED <<press_cnt, click_delay_cnt>>
     ELSE click_delay_cnt' = 1 /\ Silent /\ UNCHANGED <<press_cnt, click_cnt, notify_value>>

\* Also from one key to another: press_cnt starts anew.
\* Mutant: press_cnt goes on.
PressedOn(v) ==
  /\ v # last_key /\ v # NoKey /\ last_key' = v
  /\ v # notify_value => click_cnt' = 1 /\ notify_value' = v
  /\ v = notify_value => click_cnt < MaxClicks /\ click_cnt' = click_cnt + 1 /\ UNCHANGED notify_value
  /\ Silent /\ UNCHANGED <<press_cnt, click_delay_cnt>>
Pressed(v) ==
  /\ v # last_key /\ v # NoKey /\ last_key' = v
  /\ press_cnt' = 1
  /\ v # notify_value => click_cnt' = 1 /\ notify_value' = v
  /\ v = notify_value => click_cnt < MaxClicks /\ click_cnt' = click_cnt + 1 /\ UNCHANGED notify_value
  /\ Silent /\ UNCHANGED click_delay_cnt

Idle(v) == v = last_key /\ v = NoKey /\ click_cnt = 0 /\ Silent /\ UNCHANGED judged

Waiting == click_delay_cnt <= ClickDelayTime /\ notify_value \notin ClickOnly
Pending(v) == v = last_key /\ v = NoKey /\ click_cnt > 0 /\ UNCHANGED <<last_key, press_cnt>>
\* Mutant: the delay does not pass.
WaitOn(v) == Pending(v) /\ Waiting /\ Silent /\ UNCHANGED <<click_delay_cnt, click_cnt, notify_value>>
Wait(v) ==
  /\ Pending(v) /\ Waiting
  /\ click_delay_cnt' = click_delay_cnt + 1
  /\ Silent /\ UNCHANGED <<click_cnt, notify_value>>
Clicked(v) ==
  /\ Pending(v) /\ ~Waiting
  /\ Notify(ClickEvent, notify_value)
  /\ UNCHANGED click_delay_cnt

\* Mutant: HOLD does not bring press_cnt back.
HeldOnce(v) ==
  /\ v = last_key /\ v # NoKey /\ UNCHANGED <<last_key, click_delay_cnt>>
  /\ press_cnt' = IF press_cnt >= HoldTime THEN press_cnt ELSE press_cnt + 1
  /\ \/ press_cnt + 1 = LongTime /\ Notify("LONG", v)
     \/ press_cnt + 1 = HoldTime /\ Notify("HOLD", v)
     \/ press_cnt + 1 \notin {LongTime, HoldTime} /\ Silent /\ UNCHANGED <<click_cnt, notify_value>>
Held(v) ==
  /\ v = last_key /\ v # NoKey /\ UNCHANGED <<last_key, click_delay_cnt>>
  /\ press_cnt' = IF press_cnt + 1 = HoldTime THEN LongTime ELSE press_cnt + 1
  /\ \/ press_cnt + 1 = LongTime /\ Notify("LONG", v)
     \/ press_cnt + 1 = HoldTime /\ Notify("HOLD", v)
     \/ press_cnt + 1 \notin {LongTime, HoldTime} /\ Silent /\ UNCHANGED <<click_cnt, notify_value>>

Judged(v) == Settled(v) /\ (Released(v) \/ Pressed(v) \/ Idle(v) \/ Wait(v) \/ Clicked(v) \/ Held(v))
-----------------------------------------------------------------------------
\* is_key_active after a scan that read v.
Less(n) == IF n > 0 THEN n - 1 ELSE 0
\* Mutant: set by a change of the value only.
ActiveOnce(v) ==
  is_key_active' = IF v # NoKey /\ v # value THEN ActiveTime ELSE Less(is_key_active)
Active(v) == is_key_active' = IF v # NoKey THEN ActiveTime ELSE Less(is_key_active)

\* key_driver_scan
Scan ==
  \E v \in Values :
    /\ due = 0 /\ due' = Others
    /\ value' = v
    /\ steady' = IF v # value THEN 1 ELSE IF steady <= FilterTime THEN steady + 1 ELSE steady
    /\ Active(v)
    /\ Changed(v) \/ Counted(v) \/ Judged(v)

\* The scan of another driver.
OtherScan ==
  /\ due > 0 /\ due' = due - 1
  /\ \E v \in Values : Active(v)
  /\ UNCHANGED <<value, steady, filter, judged, out>>

\* key_active_set, the callback of a wakeup pin
Wakeup ==
  /\ is_key_active' = ActiveTime
  /\ UNCHANGED <<value, steady, filter, judged, due, out>>

\* The structures are static: what is not initialised is 0, the value of a key.
Init ==
  /\ value = NoKey /\ steady = 0
  /\ filter_value \in Keys /\ notify_value = filter_value
  /\ filter_cnt = 0 /\ last_key = NoKey
  /\ press_cnt = 0 /\ click_cnt = 0 /\ click_delay_cnt = 0
  /\ is_key_active = 0 /\ due = 0 /\ out = None

Timers == Scan \/ OtherScan
Next == Timers \/ Wakeup

Spec == Init /\ [][Next]_vars /\ WF_vars(Timers)
-----------------------------------------------------------------------------
(* Properties.                                                              *)

\* The counters keep to their ranges and fit in u8.
TypeOK ==
  /\ value \in Values /\ steady \in 0..(FilterTime + 1)
  /\ filter_value \in Values /\ filter_cnt \in 0..FilterTime
  /\ last_key \in Values /\ notify_value \in Values
  /\ press_cnt \in 0..(HoldTime - 1) /\ click_cnt \in 0..MaxClicks
  /\ click_delay_cnt \in 0..(ClickDelayTime + 1)
  /\ is_key_active \in 0..ActiveTime /\ due \in 0..Others

\* A key counts as pressed or released only after it was read alike in more than
\* FilterTime scans running: a shorter bounce changes nothing.
Debounced == [][last_key' # last_key => steady' > FilterTime]_vars

\* The scan does what KeyEvents says, whatever the timings: HOLD and UP follow the
\* LONG of the same press, a press that went LONG is no click, a click reports as
\* many presses of its key as there were since the last event.
Promised == INSTANCE KeyEvents WITH
  held <- last_key, long <- last_key # NoKey /\ press_cnt >= LongTime,
  clicked <- notify_value, count <- click_cnt
EventsSpec == Promised!Events

\* While a key is down or clicks wait to be reported, key_idle_query does not let
\* the system sleep; ActiveTime must be long enough for that.
LongEnough == (Others + 1) * (FilterTime + ClickDelayTime + 3) <= ActiveTime
Awake == LongEnough /\ (last_key # NoKey \/ click_cnt > 0) => is_key_active > 0

\* Once no key is down any more, the scan comes to rest with no click left.
Reported == <>[](value = NoKey) => <>[](last_key = NoKey /\ click_cnt = 0)

\* A key that is kept down is reported again and again.
Repeats == \A k \in Keys : <>[](value = k) => []<>(out = [e |-> "HOLD", k |-> k])
=============================================================================

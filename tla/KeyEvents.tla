------------------------------ MODULE KeyEvents ------------------------------
(***************************************************************************)
(* What a scanned key means to the application: presses, told apart from     *)
(* long presses, and the clicks counted until one event reports them.        *)
(* Nothing here depends on time.                                            *)
(***************************************************************************)
EXTENDS Naturals

CONSTANTS
  Keys,        \* values of keys
  NoKey,       \* NO_KEY
  ClickOnly    \* keys that report every click alike

VARIABLES
  held,      \* the key held down, or NoKey
  long,      \* LONG was reported of it
  clicked,   \* the key last clicked, not reported yet
  count,     \* how many clicks of it
  out        \* the event the last step reported, or None

keyEvents == <<held, long, clicked, count, out>>

None == [e |-> "none", k |-> NoKey]
Report(e, k) == out' = [e |-> e, k |-> k] /\ clicked' = NoKey /\ count' = 0
Silent == out' = None

\* Clicks are told apart up to five.
ClickEvent(k, n) ==
  CASE n = 1 \/ k \in ClickOnly -> "CLICK"
    [] n = 2 /\ k \notin ClickOnly -> "DOUBLE_CLICK"
    [] n = 3 /\ k \notin ClickOnly -> "TRIPLE_CLICK"
    [] n = 4 /\ k \notin ClickOnly -> "FOURTH_CLICK"
    [] OTHER -> "FIRTH_CLICK"

Start == held = NoKey /\ long = FALSE /\ clicked \in Keys /\ count = 0 /\ out = None

\* A press, also one that slides over from another key.
Down(k) ==
  /\ k # held /\ held' = k /\ long' = FALSE
  /\ clicked' = k /\ count' = IF clicked = k THEN count + 1 ELSE 1
  /\ Silent

\* The end of a press that was not long; it stays to be reported with the clicks.
Lift == held # NoKey /\ ~long /\ held' = NoKey /\ Silent /\ UNCHANGED <<long, clicked, count>>

\* The end of a long one.
Up == held # NoKey /\ long /\ held' = NoKey /\ long' = FALSE /\ Report("UP", held)

Long == held # NoKey /\ ~long /\ long' = TRUE /\ Report("LONG", held) /\ UNCHANGED held
Hold == held # NoKey /\ long /\ Report("HOLD", held) /\ UNCHANGED <<held, long>>

Click ==
  /\ held = NoKey /\ count > 0
  /\ Report(ClickEvent(clicked, count), clicked)
  /\ UNCHANGED <<held, long>>

Quiet == Silent /\ UNCHANGED <<held, long, clicked, count>>

Step == (\E k \in Keys : Down(k)) \/ Lift \/ Up \/ Long \/ Hold \/ Click \/ Quiet

Events == Start /\ [][Step]_keyEvents
=============================================================================

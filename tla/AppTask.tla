------------------------------- MODULE AppTask -------------------------------
(***************************************************************************)
(* Modes of the soundbox application and the switches between them           *)
(* (app_task_switch.c).  A mode is the loop of one task, app_core; a switch   *)
(* names the next mode, and the loop leaves once it has seen it.             *)
(***************************************************************************)
EXTENDS Naturals, Sequences

CONSTANTS
  TaskList,   \* app_task_list
  Music, Bt   \* APP_MUSIC_TASK, APP_BT_TASK

Tasks == {TaskList[i] : i \in DOMAIN TaskList}
NoTask == "0"

ASSUME TaskAssumption ==
  /\ TaskList \in Seq(Tasks)
  /\ Music \in Tasks /\ Bt \in Tasks /\ NoTask \notin Tasks /\ Music # Bt

VARIABLES
  curr,    \* app_curr_task
  next     \* app_next_task

task == <<curr, next>>

\* app_task_switch_to's checks: music needs a valid device, Bluetooth may refuse to leave.
CanSwitch(t, online, btFree) ==
  /\ t # curr
  /\ t = Music => online
  /\ curr = Bt => btFree

SwitchTo(t) == next' = t /\ UNCHANGED curr

\* app_task_switch_next: the modes behind the current one, in their order.
Place == CHOOSE i \in DOMAIN TaskList : TaskList[i] = curr
Behind(k) == TaskList[((Place + k - 1) % Len(TaskList)) + 1]
NextIs(t, online, btFree) ==
  \E k \in 1..(Len(TaskList) - 1) :
    /\ t = Behind(k)
    /\ CanSwitch(t, online, btFree)
    /\ \A j \in 1..(k - 1) : ~CanSwitch(Behind(j), online, btFree)

TaskInit == curr \in Tasks \ {Music} /\ next = NoTask
=============================================================================

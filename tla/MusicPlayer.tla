----------------------------- MODULE MusicPlayer -----------------------------
(***************************************************************************)
(* The music mode of the soundbox application (music.c, music_player.c), with *)
(* the device list and the switching of modes.                               *)
(*                                                                         *)
(* One task, app_core, takes key and device messages from one queue.  A      *)
(* handler may have to scan a device for files; while it does, a callback    *)
(* takes messages from that queue too, and may break the scan.  The decoder  *)
(* posts the end of a file; a handler that fails posts itself the next key.  *)
(***************************************************************************)
EXTENDS DevManager, AppTask

CONSTANTS
  Files,         \* music files on each device
  Bad,           \* those that the decoder cannot open
  CycleAll,      \* cycle_mode is FCYCLE_ALL
  WaitReports,   \* audio_decoder_task_add_wait hands on the error of a start
  MountFails,    \* a device may not mount, or go before it is mounted
  ModeKeyDrops,  \* KEY_CHANGE_MODE may be passed over (start-up, the smartbox app)
  UserKeys,      \* keys the user presses, and CALL
  MaxInputs,     \* bound: plugs, presses and ends of files
  MaxQueue       \* bound: messages waiting when the user presses a key

VARIABLES
  queue,    \* messages to app_core
  pc,       \* where app_core is: the loop, a scan, a select, err_deal, leaving
  job,      \* the file a scan or a select is for
  err,      \* the error err_deal is called with
  dev,      \* music_player->dev, NULL outside music mode
  fsn,      \* music_player->fsn: the device scanned, or NULL
  stale,    \* that device was unmounted since
  cur,      \* file_counter of the scan
  dec,      \* music_player_get_play_status
  ended,    \* the decoder has posted the end of its file
  errs,     \* file_err_counter
  back,     \* file_play_direct is 1
  brk,      \* scandisk_break
  tone,     \* the tone of the mode is playing
  port,     \* devices physically present
  told,     \* devices present as last reported
  inputs    \* plugs, presses and ends of files so far; devices there at power-on

player == <<dev, fsn, stale, cur, dec, ended>>
counters == <<errs, back, brk>>
env == <<port, told, inputs>>
vars == <<mgr, task, queue, pc, job, err, player, counters, tone, env>>
-----------------------------------------------------------------------------
(* Messages.                                                                *)

Key(k) == [k |-> k]
In(l) == [k |-> "IN", l |-> l]
Out(l) == [k |-> "OUT", l |-> l]
\* The end of a file: its read error, and whether its decoder is the latest.
End(r, latest) == [k |-> "END", read |-> r, latest |-> latest]

\* CALL is no key but a Bluetooth event that wants Bluetooth mode (a call, music):
\* one that bt_background_event_handler_filter accepts.
Keys == {"START", "QUIT", "DEC_ERR", "FIRST", "AUTO_NEXT_DEV", "NEXT", "PREV", "CHANGE_DEV",
         "CHANGE_MODE", "PP", "FOLDER", "NUM", "CALL"}
Selects == {"first", "last", "next", "prev", "auto", "any", "num", "bp", "stale"}
Errors == {"NULL", "DECODE_FAIL", "DEV_NOFOUND", "FSCAN", "DEV_READ", "DEV_OFFLINE",
           "FILE_NOFOUND", "PARM", "FILE_READ", "NO_RAM"}
Messages == {Key(k) : k \in Keys} \cup {In(l) : l \in Logos} \cup {Out(l) : l \in Logos}
              \cup {End(r, x) : r \in 0..2, x \in BOOLEAN}

ASSUME MusicAssumption ==
  /\ Files \in [Logos -> Nat]
  /\ Bad \in [Logos -> SUBSET Nat]
  /\ CycleAll \in BOOLEAN /\ WaitReports \in BOOLEAN /\ MountFails \in BOOLEAN
  /\ ModeKeyDrops \in BOOLEAN
  /\ UserKeys \subseteq Keys
  /\ MaxInputs \in Nat /\ MaxQueue \in Nat

IsKey(m) == m.k \notin {"IN", "OUT", "CALL"}
\* magic_cnt moves on when a decoder is created.
Aged(q) == [i \in DOMAIN q |-> IF q[i].k = "END" THEN End(q[i].read, FALSE) ELSE q[i]]
\* sys_event_clear, app_task_clear_key_msg
NoKeys(q) ==
  LET kept == {i \in DOMAIN q : ~IsKey(q[i])}
      At(n) == CHOOSE i \in kept : Cardinality({j \in kept : j < i}) = n - 1
  IN [n \in 1..Cardinality(kept) |-> q[At(n)]]

FileTotal == IF fsn = Null THEN 0 ELSE Files[fsn]
Playing == dec \in {"play", "pause"}
-----------------------------------------------------------------------------
(* music_player_stop, and what a handler does next.                         *)

\* Mutant: the decoder is left running.
StopDecoderLeft == UNCHANGED <<dec, ended>>
StopDecoder == dec' = "stop" /\ ended' = FALSE
\* Mutant: the scan is kept.
ReleaseKept == UNCHANGED <<fsn, stale, cur>>
Release == fsn' = Null /\ stale' = FALSE /\ cur' = 0
Keep == UNCHANGED <<fsn, stale, cur>>

Return == pc' = "loop" /\ err' = "NULL" /\ job' = "first"
Fail(e) == pc' = "err" /\ err' = e /\ job' = "first"
Start(stage, sel) == pc' = stage /\ err' = "NULL" /\ job' = sel
Leave == pc' = "exit" /\ err' = "NULL" /\ job' = "first"

\* music_player_play_*(NULL): the current device, with the scan there is.
PlayHere(sel) ==
  /\ StopDecoder /\ Keep /\ UNCHANGED dev
  /\ \/ dev \notin Valid(node) /\ Fail("DEV_OFFLINE")
     \/ dev \in Valid(node) /\ fsn = Null /\ Fail("FSCAN")
     \/ dev \in Valid(node) /\ fsn # Null /\ Start("select", sel)

\* music_player_play_*(logo): another device, scanned anew.
PlayOn(l, sel) ==
  LET d == FindSpec(node, l)
  IN /\ StopDecoder /\ Release
     /\ dev' = d
     /\ IF d = Null THEN Fail("DEV_NOFOUND") ELSE Start("scan", sel)

Play(l, sel) == IF l = Null THEN PlayHere(sel) ELSE PlayOn(l, sel)

\* music_player_play_by_number: no new scan if l is the current device.
PlayNumber(l) == IF l = Null \/ l = LogoOf(node, dev) THEN PlayHere("num") ELSE PlayOn(l, "num")

\* breakpoint_vm_read, then the file it names, if it still fits, or the first.
Resume(l) == \E sel \in IF l = Null THEN {"first"} ELSE {"first", "bp", "stale"} : Play(l, sel)

\* music_player_get_dev_flit
Flit(d) == IF dev \in Valid(node) /\ Total(node) > 1 THEN LogoOf(node, d) ELSE Null
NextDev == FindNext(node, list, recent, dev)
PrevDev == FindPrev(node, list, recent, dev)
AllDevices == CycleAll /\ Total(node) > 1
-----------------------------------------------------------------------------
(* music_key_event_opr.                                                     *)

Quiet == UNCHANGED player /\ Return      \* a handler that plays nothing new

OnStart ==
  LET l == LogoOf(node, FindActive(node, recent))
  IN IF dec = "play" /\ l # Null /\ l = LogoOf(node, dev) THEN Quiet ELSE Resume(l)

\* music_player_play_auto_next, from the last file on to the next device.
OnEndNormal ==
  LET l == Flit(NextDev)
  IN IF AllDevices /\ cur >= FileTotal /\ l # Null THEN PlayOn(l, "first") ELSE PlayHere("auto")

\* music_player_end_deal
OnEnd(m) ==
  \/ m.read = 0 /\ OnEndNormal
  \/ m.read # 0 /\ ~m.latest /\ Quiet
  \/ m.read = 1 /\ m.latest /\ UNCHANGED player /\ Fail("FILE_READ")
  \/ m.read = 2 /\ m.latest /\ UNCHANGED player /\ Fail("DEV_READ")

OnNext ==
  IF AllDevices /\ cur >= FileTotal THEN Play(Flit(NextDev), "first") ELSE PlayHere("next")
OnPrev ==
  IF AllDevices /\ cur = 1 THEN Play(Flit(PrevDev), "last") ELSE PlayHere("prev")

OnNextDev ==
  LET l == LogoOf(node, NextDev)
  IN IF l = Null THEN Quiet ELSE Resume(l)

OnPP ==
  /\ dec' = (IF dec = "play" THEN "pause" ELSE IF dec = "pause" THEN "play" ELSE dec)
  /\ UNCHANGED <<dev, fsn, stale, cur, ended>>
  /\ Return

OnKey(m) ==
  \/ m.k = "START" /\ OnStart
  \/ m.k = "END" /\ OnEnd(m)
  \/ m.k = "DEC_ERR" /\ UNCHANGED player /\ Fail("DECODE_FAIL")
  \/ m.k = "FIRST" /\ PlayHere("first")
  \/ m.k = "NEXT" /\ OnNext
  \/ m.k = "PREV" /\ OnPrev
  \/ m.k \in {"AUTO_NEXT_DEV", "CHANGE_DEV"} /\ OnNextDev
  \/ m.k = "FOLDER" /\ PlayHere("any")
  \/ m.k = "NUM" /\ PlayNumber(LogoOf(node, FindActive(node, recent)))
  \/ m.k = "PP" /\ OnPP

\* The message at the head of the queue, when app_core waits for it.
Taken(m) == pc = "loop" /\ queue # <<>> /\ m = Head(queue)

TakeKey ==
  \E m \in Messages :
    /\ Taken(m) /\ curr = Music
    /\ OnKey(m)
    /\ queue' = Tail(queue)
    /\ back' = (IF m.k = "NEXT" THEN FALSE ELSE IF m.k = "PREV" THEN TRUE ELSE back)
    /\ UNCHANGED <<mgr, task, errs, brk, tone, env>>

\* KEY_MUSIC_PLAYER_QUIT and KEY_CHANGE_MODE switch to the next mode that will do;
\* the latter may be passed over.
TakeSwitch ==
  \E m \in {Key("QUIT"), Key("CHANGE_MODE")}, btFree, heeded \in BOOLEAN :
    /\ Taken(m) /\ (m.k = "QUIT" => curr = Music)
    /\ ~heeded => ModeKeyDrops /\ m.k = "CHANGE_MODE"
    /\ IF heeded /\ \E t \in Tasks : NextIs(t, Total(node) > 0, btFree)
       THEN Leave /\ \E t \in Tasks : NextIs(t, Total(node) > 0, btFree) /\ SwitchTo(t)
       ELSE Return /\ UNCHANGED task
    /\ queue' = Tail(queue)
    /\ UNCHANGED <<mgr, player, counters, tone, env>>

\* bt_background_event_handler: off to Bluetooth mode, where the event comes again.
TakeCall ==
  /\ Taken(Key("CALL")) /\ curr # Bt
  /\ Leave /\ SwitchTo(Bt)
  /\ queue' = Append(Tail(queue), Key("CALL"))
  /\ UNCHANGED <<mgr, player, counters, tone, env>>
-----------------------------------------------------------------------------
(* Devices coming and going: music_sys_event_handler, then                  *)
(* app_common_device_event_handler and dev_status_event_filter.             *)

CanMount(l) == l \in port
MayFail(l) == MountFails \/ ~CanMount(l)

\* A device that is listed, or that usb_host_mount refuses, changes nothing.
StaysOut(l) ==
  /\ Listed(node, l) \/ MayFail(l)
  /\ Quiet /\ queue' = Tail(queue)
  /\ UNCHANGED <<mgr, task>>

\* One that does not mount gets an entry all the same.
ComesInvalid(l) ==
  /\ ~Listed(node, l) /\ MayFail(l)
  /\ \E a \in Addr : node[a] = Free /\ AddAt(a, l, FALSE)
  /\ Quiet /\ queue' = Tail(queue)
  /\ UNCHANGED task

\* music_task_dev_online_start: stop, and play the newest device, in music mode
\* if the switch is made (not by a PC, within the start-up time or on the charger).
ComesIn(l) ==
  /\ ~Listed(node, l) /\ CanMount(l)
  /\ \E a \in Addr : node[a] = Free /\ AddAt(a, l, TRUE)
  /\ StopDecoder /\ Release /\ UNCHANGED dev
  /\ queue' = Append(Tail(queue), Key("START"))
  /\ \/ CanSwitch(Music, TRUE, TRUE) /\ Leave /\ SwitchTo(Music)
     \/ Return /\ UNCHANGED task

TakeIn ==
  \E l \in Logos :
    /\ Taken(In(l))
    /\ StaysOut(l) \/ ComesInvalid(l) \/ ComesIn(l)
    /\ UNCHANGED <<counters, tone, env>>

\* The scan handle of a device that is unmounted stays, but leads nowhere.
Lost(d) == fsn # Null /\ dev = d

TakeOut ==
  \E l \in Logos :
    /\ Taken(Out(l))
    /\ IF LogoOf(node, dev) = l
       THEN /\ StopDecoder /\ Release
            /\ queue' = Append(Tail(queue), Key("START"))
       ELSE /\ queue' = Tail(queue)
            /\ stale' = (stale \/ (Listed(node, l) /\ \E a \in Addr : node[a].logo = l /\ Lost(a)))
            /\ UNCHANGED <<fsn, cur, dec, ended>>
    /\ Del(l)
    /\ Return
    /\ UNCHANGED <<task, dev, counters, tone, env>>
-----------------------------------------------------------------------------
(* music_player_scandisk_break: a scan or a select looks at the queue.      *)

Breaks(m) ==
  \/ m.k = "IN"
  \/ m.k = "OUT" /\ LogoOf(node, dev) = m.l
  \/ m.k \in {"CHANGE_MODE", "CALL"}

\* A message that breaks the scan goes to the end of the queue.  A device that
\* goes away and is not scanned is removed at once; other messages are gone.
Poll ==
  \E m \in Messages :
    /\ pc \in {"scan", "select"} /\ queue # <<>> /\ m = Head(queue)
    /\ IF Breaks(m)
       THEN /\ queue' = Append(Tail(queue), m)
            /\ brk' = TRUE
            /\ Fail(IF pc = "scan" THEN "FSCAN" ELSE "FILE_NOFOUND")
            /\ UNCHANGED mgr
       ELSE /\ queue' = Tail(queue)
            /\ IF m.k = "OUT" THEN Del(m.l) ELSE UNCHANGED mgr
            /\ UNCHANGED <<pc, job, err, brk>>
    /\ UNCHANGED <<task, player, errs, back, tone, env>>

\* fscan_interrupt comes to its end: files, or none.
ScanDone ==
  /\ pc = "scan"
  /\ LET l == LogoOf(node, dev)
     IN IF l \in port /\ Files[l] > 0
        THEN /\ fsn' = l /\ stale' = FALSE /\ cur' = 0
             /\ IF job = "stale" THEN Fail("PARM") ELSE Start("select", job)
        ELSE Keep /\ Fail("FSCAN")
  /\ UNCHANGED <<mgr, task, queue, dev, dec, ended, counters, tone, env>>

\* Mutant: no way round from the first file to the last.
SelectedUnturned(sel) ==
  CASE sel = "first" -> {1}
    [] sel = "prev" -> {cur - 2}
    [] OTHER -> 1..FileTotal

\* file_manager_select: the file asked for.
Selected(sel) ==
  LET n == FileTotal IN
  CASE sel = "first" -> {1}
    [] sel = "last" -> {n}
    [] sel \in {"next", "auto"} -> {(cur % n) + 1}
    [] sel = "prev" -> {IF cur <= 1 THEN n ELSE cur - 1}
    [] sel = "num" -> 1..(n + 1)
    [] OTHER -> 1..n

\* Then music_player_decode_start, and dev_manager_set_active if it went well.
SelectDone ==
  /\ pc = "select"
  /\ \E f \in Selected(job) :
       LET good == f \notin Bad[fsn] IN
       IF fsn \in port /\ f <= FileTotal
       THEN /\ cur' = f
            /\ \/ \* file_dec_create fails
                  dec' = "stop" /\ Fail("NO_RAM") /\ UNCHANGED <<queue, recent, errs>>
               \/ /\ dec' = IF good THEN "play" ELSE "stop"
                  /\ queue' = IF good THEN Aged(queue) ELSE Append(Aged(queue), Key("DEC_ERR"))
                  /\ IF good \/ ~WaitReports
                     THEN SetActive(dev) /\ errs' = 0 /\ Return
                     ELSE Fail("DECODE_FAIL") /\ UNCHANGED <<recent, errs>>
       ELSE Fail("FILE_NOFOUND") /\ UNCHANGED <<queue, cur, dec, recent, errs>>
  /\ UNCHANGED <<node, list, task, dev, fsn, stale, ended, back, brk, tone, env>>
-----------------------------------------------------------------------------
(* music_player_err_deal.                                                   *)

\* Mutant: nothing is posted.
PostNothing(k) == UNCHANGED queue
Post(k) == queue' = Append(queue, Key(k))
\* Mutant: music mode is not left, but started again.
PostStart(n, k) == Post(IF Total(n) = 0 THEN "START" ELSE k)
\* Another device, or leave music mode, when nothing is left to play on n.
PostIfAny(n, k) == Post(IF Total(n) = 0 THEN "QUIT" ELSE k)

\* A file that cannot be decoded: the next one, or after as many as there are
\* files, the next device.
DealDecode ==
  /\ err = "DECODE_FAIL"
  /\ IF errs >= FileTotal
     THEN /\ errs' = 0
          /\ node' = Marked(node, dev, "invalid")
          /\ PostIfAny(node', "AUTO_NEXT_DEV")
     ELSE /\ errs' = errs + 1
          /\ Post(IF back THEN "PREV" ELSE "NEXT")
          /\ UNCHANGED node
  /\ UNCHANGED <<player, brk>>

\* Mutant: the flag is not cleared.
DealBreakSet ==
  /\ err \in {"FSCAN", "FILE_NOFOUND"} /\ brk
  /\ errs' = 0
  /\ UNCHANGED <<node, queue, player, brk>>

DealBreak ==
  /\ err \in {"FSCAN", "FILE_NOFOUND"} /\ brk
  /\ brk' = FALSE /\ errs' = 0
  /\ UNCHANGED <<node, queue, player>>

\* A device without files becomes invalid; one that does not read, or was lost,
\* is unmounted.
DealDevice ==
  /\ err \in {"FSCAN", "DEV_READ", "DEV_OFFLINE"} /\ ~(err = "FSCAN" /\ brk)
  /\ LET online == dev \in Valid(node)
     IN /\ node' = IF ~online THEN node
                   ELSE Marked(node, dev, IF err = "FSCAN" THEN "invalid" ELSE "failed")
        /\ IF online THEN StopDecoder ELSE UNCHANGED <<dec, ended>>
        /\ stale' = (stale \/ (online /\ err # "FSCAN" /\ fsn # Null))
  /\ PostIfAny(node', "AUTO_NEXT_DEV")
  /\ errs' = 0
  /\ UNCHANGED <<dev, fsn, cur, brk>>

DealOther ==
  /\ \/ err = "DEV_NOFOUND" /\ PostIfAny(node, "START")
     \/ /\ err = "PARM" \/ (err = "FILE_NOFOUND" /\ ~brk)
        /\ IF dev \in Valid(node) /\ FileTotal > 0 THEN Post("FIRST")
           ELSE PostIfAny(node, "AUTO_NEXT_DEV")
     \/ err = "FILE_READ" /\ Post("NEXT")
     \/ err = "NO_RAM" /\ Post("QUIT")
  /\ errs' = 0
  /\ UNCHANGED <<node, player, brk>>

ErrDeal ==
  /\ pc = "err"
  /\ DealDecode \/ DealBreak \/ DealDevice \/ DealOther
  /\ Return
  /\ UNCHANGED <<list, recent, task, back, tone, env>>
-----------------------------------------------------------------------------
(* Modes.                                                                   *)

\* app_task_exitting, music_task_close, the loop of modes, music_task_start.
Exit ==
  /\ pc = "exit"
  /\ curr' = next /\ next' = NoTask
  /\ queue' = NoKeys(queue)
  /\ dev' = Null /\ StopDecoder /\ Release
  /\ errs' = 0 /\ back' = FALSE /\ brk' = FALSE
  /\ tone' = (next = Music)
  /\ Return
  /\ UNCHANGED <<mgr, env>>

\* music_tone_play_end_callback
ToneEnd ==
  /\ tone /\ tone' = FALSE
  /\ queue' = Append(queue, Key("START"))
  /\ UNCHANGED <<mgr, task, pc, job, err, player, counters, env>>

\* Another mode passes over the keys of music mode; Bluetooth mode takes a call.
PassOver ==
  /\ pc = "loop" /\ curr # Music /\ queue # <<>>
  /\ Head(queue).k \notin {"IN", "OUT", "CHANGE_MODE"}
  /\ Head(queue).k = "CALL" => curr = Bt
  /\ queue' = Tail(queue)
  /\ UNCHANGED <<mgr, task, pc, job, err, player, counters, tone, env>>
-----------------------------------------------------------------------------
(* The decoder, the devices and the user.                                   *)

Input == inputs < MaxInputs /\ inputs' = inputs + 1

\* The end of a file, or a read error: of the device if it is gone.
FileEnds ==
  /\ dec = "play" /\ ~ended /\ ended' = TRUE
  /\ \/ Input /\ \E r \in 0..2 : queue' = Append(queue, End(r, TRUE))
     \/ fsn \notin port /\ queue' = Append(queue, End(2, TRUE)) /\ UNCHANGED inputs
  /\ UNCHANGED <<mgr, task, pc, job, err, dev, fsn, stale, cur, dec, counters, tone, port, told>>

Plug ==
  /\ Input /\ port = told
  /\ \E l \in Logos :
       \/ l \notin port /\ port' = port \cup {l}
       \/ l \in port /\ port' = port \ {l} /\ (MountFails \/ In(l) \notin {queue[i] : i \in DOMAIN queue})
  /\ UNCHANGED <<mgr, task, queue, pc, job, err, player, counters, tone, told>>

\* The driver of the device reports what it sees.
Detect ==
  /\ \E l \in Logos :
       \/ l \in port \ told /\ told' = told \cup {l} /\ queue' = Append(queue, In(l))
       \/ l \in told \ port /\ told' = told \ {l} /\ queue' = Append(queue, Out(l))
  /\ UNCHANGED <<mgr, task, pc, job, err, player, counters, tone, port, inputs>>

Press ==
  /\ Input /\ Len(queue) < MaxQueue
  /\ \E k \in UserKeys :
       /\ curr # Music => k = "CHANGE_MODE"
       /\ queue' = Append(queue, Key(k))
  /\ UNCHANGED <<mgr, task, pc, job, err, player, counters, tone, port, told>>

Init ==
  /\ DevInit /\ TaskInit
  /\ queue = <<>> /\ pc = "loop" /\ job = "first" /\ err = "NULL"
  /\ dev = Null /\ fsn = Null /\ stale = FALSE /\ cur = 0 /\ dec = "stop" /\ ended = FALSE
  /\ errs = 0 /\ back = FALSE /\ brk = FALSE /\ tone = FALSE
  /\ port \in {p \in SUBSET Logos : Cardinality(p) <= MaxInputs} /\ told = {}
  /\ inputs = Cardinality(port)

AppCore == TakeKey \/ TakeSwitch \/ TakeCall \/ TakeIn \/ TakeOut \/ PassOver \/ Poll
             \/ ScanDone \/ SelectDone \/ ErrDeal \/ Exit

Next == AppCore \/ ToneEnd \/ FileEnds \/ Plug \/ Detect \/ Press

Spec == Init /\ [][Next]_vars /\ WF_vars(AppCore) /\ WF_vars(ToneEnd) /\ WF_vars(Detect)
-----------------------------------------------------------------------------
(* Properties.                                                              *)

\* Every variable keeps to its range; the bound on the inputs holds.
TypeOK ==
  /\ node \in Nodes /\ list \in Seq(Addr) /\ recent \in Seq(Addr)
  /\ curr \in Tasks /\ next \in Tasks \cup {NoTask}
  /\ queue \in Seq(Messages)
  /\ pc \in {"loop", "scan", "select", "err", "exit"} /\ job \in Selects /\ err \in Errors
  /\ dev \in Addr \cup {Null} /\ fsn \in Logos \cup {Null} /\ stale \in BOOLEAN /\ cur \in Nat
  /\ dec \in {"stop", "play", "pause"} /\ ended \in BOOLEAN
  /\ errs \in Nat /\ back \in BOOLEAN /\ brk \in BOOLEAN /\ tone \in BOOLEAN
  /\ port \in SUBSET Logos /\ told \in SUBSET Logos
  /\ inputs \in 0..MaxInputs

\* A device has one entry however often it is reported, and the list and the order
\* of activity hold the same entries: dev_manager_add refuses the names there are,
\* also those that did not mount.
Registered ==
  /\ \A a, b \in Addr : node[a].st # "free" /\ node[a].logo = node[b].logo => a = b
  /\ \A q \in {list, recent} :
       /\ Len(q) = Cardinality({q[i] : i \in DOMAIN q})
       /\ {q[i] : i \in DOMAIN q} = {a \in Addr : node[a].st # "free"}

\* The decoder never plays on from a file system that was unmounted: the handlers
\* of unplugs and of errors stop it first, whatever they meet half way.
DecodesMounted == Playing => dev \in Mounted(node) /\ fsn = LogoOf(node, dev) /\ ~stale

\* The scan in music_player->fsn is one of the device in music_player->dev, as it
\* is mounted now, also when another entry has come to the same address: what
\* music_player_play_next and the like rely on.
ScanOfDevice == fsn # Null /\ dev \in Mounted(node) => fsn = LogoOf(node, dev) /\ ~stale

\* scandisk_break is not left set: a later error is not taken for a broken scan.
BreakDealt == brk => pc = "err" /\ err \in {"FSCAN", "FILE_NOFOUND"}

\* The device that plays is the active one, which START and the number keys go by:
\* no valid device was active later.  (Late errors of another device may have made
\* it invalid while it plays.)
PlaysActive == Playing /\ dev \in Valid(node) => dev = FindActive(node, recent)

\* Music mode does not go silent while a device is there to play: when all messages
\* are dealt with, a file plays or was paused.  (Where the mode key is always heeded:
\* one that breaks a scan and is then passed over leaves silence.)
Rests == curr = Music /\ pc = "loop" /\ queue = <<>> /\ ~tone /\ port = told
RestPlays == Rests /\ Total(node) > 0 => (dec = "play" /\ ~ended) \/ dec = "pause"

\* The messages that handlers post to themselves come to an end: no round of errors
\* and next files goes on for ever.  So it is where the error of a start is handed on
\* (WaitReports); where the start counts as a success and DEC_ERR follows, file_err_counter
\* is cleared each time, and a device of nothing but bad files is gone round for ever.
Drains == <>[](queue = <<>> /\ pc = "loop")
=============================================================================

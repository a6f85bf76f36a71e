------------------------------- MODULE WlanSta -------------------------------
(***************************************************************************)
(* The WLAN station of RT-Thread (wlan_mgnt.c) as this program uses it:    *)
(*                                                                         *)
(*   main     at boot: turns automatic reconnection on, scans, joins;      *)
(*   shell    the user's `wifi scan' and `wifi join', any number of times; *)
(*   work     the system workqueue (priority 23), which runs the one work  *)
(*            item of the automatic reconnection, started by a timer;      *)
(*   dispatch the thread of the RW007 module's packets (priority 8), whose *)
(*            handler is one step: no thread of the others preempts it.    *)
(*                                                                         *)
(* They share _sta_mgnt, one recursive mutex (mgnt_mutex) and the          *)
(* completes the dispatch signals.  A packet of the module is owed from    *)
(* the command that asks for it until it is handled or, on a bad bus,      *)
(* lost.  There is one network, with one access point.  The pairs of take  *)
(* and release that nest inside one call are seen by no other thread and   *)
(* are left out; what a call keeps, or releases once too often, is not.    *)
(***************************************************************************)
EXTENDS Integers, FiniteSets

CONSTANTS
  Users,    (* the threads that scan and join: "main", perhaps "shell"     *)
  BusFails, (* the bus of the module may go bad                            *)
  MayLose,  (* the packets a bad bus may lose                              *)
  HoldMax   (* bound: takes counted by the mutex (255 in the code)         *)

Answers == {"scanAnswer", "joinAnswer", "discAnswer"}
Events  == {"scanDone", "outcome", "disconnect"}
Packets == Answers \cup Events
Threads == Users \cup {"work"}
None    == "none"
Completes == {"scan", "join", "disc"}

ASSUME UsersAssumption == "main" \in Users /\ Users \subseteq {"main", "shell"}
ASSUME BusAssumption == BusFails \in BOOLEAN /\ MayLose \subseteq Packets
ASSUME HoldAssumption == HoldMax \in Nat /\ HoldMax >= 2

VARIABLES
  pc, job,     (* of each thread: where it is, what its command is         *)
  owner, hold, (* mgnt_mutex                                               *)
  connect, connecting, (* bits of _sta_mgnt.state                          *)
  named,       (* _sta_mgnt.info names the network                         *)
  cfg,         (* the network is saved (in memory: no flash operations)    *)
  timer,       (* reconnect_time runs                                      *)
  item,        (* the static work of rt_wlan_cyclic_check                  *)
  complete,    (* of each kind: none, waiting or signalled                 *)
  resp,        (* of each command: the response event, kept until received *)
  owed,        (* packets the module has yet to deliver                    *)
  spi, ap,     (* the bus is good; the access point is in range            *)
  mqtt,        (* the MQTT thread (priority 20): off, serving or spinning  *)
  leaked, late (* ghosts: who kept the mutex after a failed scan; an       *)
               (* answer came after its join had given up                  *)

threadVars == <<pc, job, leaked>>
mutexVars  == <<owner, hold>>
staVars    == <<connect, connecting, named, cfg>>
watchVars  == <<timer, item>>
moduleVars == <<complete, resp, owed>>
worldVars  == <<spi, ap, mqtt>>
vars == <<threadVars, mutexVars, staVars, watchVars, moduleVars, worldVars,
          late>>

(* Inside rt_wlan_connect, rt_wlan_connect_adv, rt_wlan_disconnect or      *)
(* rt_wlan_scan_with_info, with mgnt_mutex taken.                          *)
JoinPcs   == {"discAnswer", "discDone", "joinAnswer", "wait"}
InsidePcs == {"scanAnswer", "scanDone", "join"} \cup JoinPcs

TypeOK ==
  /\ pc \in [Threads -> {"boot", "idle", "enter", "lock"} \cup InsidePcs]
  /\ job \in [Threads -> {"scan", "join"}]
  /\ owner \in Threads \cup {None}
  /\ hold \in 0 .. HoldMax
  /\ (owner = None) <=> (hold = 0)
  /\ connect \in BOOLEAN /\ connecting \in BOOLEAN
  /\ named \in BOOLEAN /\ cfg \in BOOLEAN
  /\ timer \in BOOLEAN
  /\ item \in {"free", "delayed", "queued", "running"}
  /\ complete \in [Completes -> {"none", "waiting", "signalled"}]
  /\ resp \in [Completes -> {"none", "ok", "err"}]
  /\ owed \subseteq Packets
  /\ spi \in BOOLEAN /\ ap \in BOOLEAN
  /\ mqtt \in {"off", "serving", "spinning"}
  /\ leaked \subseteq Threads /\ late \in BOOLEAN

Init ==
  /\ pc = [t \in Threads |-> IF t = "main" THEN "boot" ELSE "idle"]
  /\ job = [t \in Threads |-> IF t = "main" THEN "scan" ELSE "join"]
  /\ owner = None /\ hold = 0
  /\ connect = FALSE /\ connecting = FALSE /\ named = FALSE /\ cfg = FALSE
  /\ timer = FALSE /\ item = "free"
  /\ complete = [c \in Completes |-> "none"]
  /\ resp = [c \in Completes |-> "none"]
  /\ owed = {}
  /\ spi = TRUE /\ ap \in BOOLEAN
  /\ mqtt = "off"
  /\ leaked = {} /\ late = FALSE

-----------------------------------------------------------------------------
(* The mutex, the scheduler and the commands.                              *)

CanTake(t) == owner \in {None, t}

(* A take at the maximal count fails.  The commands (MGNT_LOCK) go on all  *)
(* the same; rt_wlan_auto_connect_run looks at the result (TakeSucceeds).  *)
(* Bug: the count goes on.                                                 *)
Take_Bug(t) == owner' = t /\ hold' = hold + 1
Take(t) ==
  /\ owner' = t
  /\ hold' = IF hold < HoldMax THEN hold + 1 ELSE hold

TakeSucceeds(t) == CanTake(t) /\ (owner = t => hold < HoldMax)

(* n releases by t: those of a thread that is not the owner do nothing.    *)
Release(t, n) ==
  IF owner = t /\ hold > n
  THEN /\ owner' = owner
       /\ hold' = hold - n
  ELSE IF owner = t
  THEN owner' = None /\ hold' = 0
  ELSE UNCHANGED mutexVars

(* The workqueue (23) runs only while the MQTT thread (20) does not spin,  *)
(* unless it owns the mutex a user waits for and inherits the priority.    *)
(* Bug: the mutex does not lend the waiter's priority to its owner.        *)
CanRun_Bug(t) == t = "work" => mqtt # "spinning"
CanRun(t) ==
  t = "work" => \/ mqtt # "spinning"
                \/ owner = t /\ \E u \in Users : pc[u] = "lock"

Goto(t, p) == pc' = [pc EXCEPT ![t] = p]

(* The command of t returns after n releases of its own.  The work         *)
(* releases once more and clears its item; main goes on from its scan to   *)
(* its join, then draws for ever.                                          *)
(* Bug: the item of the automatic reconnection is never cleared.           *)
Finish_Bug(t, n) ==
  /\ Release(t, IF t = "work" THEN n + 1 ELSE n)
  /\ UNCHANGED item
  /\ Goto(t, IF t = "main" /\ job[t] = "scan" THEN "enter" ELSE "idle")
  /\ job' = [job EXCEPT ![t] = "join"]
Finish(t, n) ==
  /\ Release(t, IF t = "work" THEN n + 1 ELSE n)
  /\ item' = IF t = "work" THEN "free" ELSE item
  /\ Goto(t, IF t = "main" /\ job[t] = "scan" THEN "enter" ELSE "idle")
  /\ job' = [job EXCEPT ![t] = "join"]

Continue(t, p) == Goto(t, p) /\ UNCHANGED <<job, mutexVars, item>>

(* A wait of ten seconds ends without the packet only on a bad bus, or     *)
(* when the packet is no longer to come.                                   *)
MayTimeOut(p) == ~spi \/ p \notin owed

Create(c) == complete' = [complete EXCEPT ![c] = "waiting"]
Delete(cs) ==
  complete' = [c \in Completes |-> IF c \in cs THEN "none" ELSE complete[c]]

Ask(ps) == owed' = owed \cup ps

-----------------------------------------------------------------------------
(* wlan_connect_thread_entry, in main: reconnection on, then the commands. *)
Boot ==
  /\ pc["main"] = "boot"
  /\ Goto("main", "lock")
  /\ timer' = TRUE
  /\ UNCHANGED <<job, leaked, mutexVars, staVars, item, moduleVars, worldVars,
                 late>>

(* The user enters a command in the shell, which waits for its end.        *)
Command(u, j) ==
  /\ u # "main" /\ pc[u] = "idle" /\ pc["main"] = "idle"
  /\ job' = [job EXCEPT ![u] = j]
  /\ Goto(u, IF j = "join" THEN "enter" ELSE "lock")
  /\ UNCHANGED <<leaked, mutexVars, staVars, watchVars, moduleVars, worldVars,
                 late>>

(* rt_wlan_connect looks at the state before it takes the mutex.           *)
Enter(t) ==
  /\ pc[t] = "enter" /\ CanRun(t)
  /\ IF connect /\ named THEN Finish(t, 0) ELSE Continue(t, "lock")
  /\ UNCHANGED <<leaked, staVars, timer, moduleVars, worldVars, late>>

(* MGNT_LOCK, then rt_wlan_scan_with_info: create the complete and command *)
(* the scan.                                                               *)
Lock(t) ==
  /\ pc[t] = "lock" /\ CanRun(t) /\ CanTake(t)
  /\ Take(t) /\ Goto(t, "scanAnswer")
  /\ Create("scan") /\ Ask({"scanAnswer", "scanDone"})
  /\ UNCHANGED <<job, leaked, staVars, watchVars, resp, worldVars, late>>

(* Without memory rt_wlan_complete_create releases the mutex once more     *)
(* than was taken for it.  In a join that pays for the release             *)
(* rt_wlan_connect forgets when the scan fails; in a scan it is one taken  *)
(* earlier, if there is one.                                               *)
LockWithoutMemory(t) ==
  /\ pc[t] = "lock" /\ CanRun(t) /\ CanTake(t)
  /\ Finish(t, IF job[t] = "scan" THEN 1 ELSE 0)
  /\ UNCHANGED <<leaked, staVars, timer, moduleVars, worldVars, late>>

(* The scan fails: rt_wlan_connect returns at once and keeps the mutex.    *)
(* Bug: rt_wlan_connect leaves the complete of the scan to be signalled.   *)
ScanFails_Bug(t) ==
  /\ UNCHANGED complete
  /\ Finish(t, IF job[t] = "scan" THEN 1 ELSE 0)
  /\ leaked' = IF job[t] = "scan" THEN leaked ELSE leaked \cup {t}
ScanFails(t) ==
  /\ Delete({"scan"})
  /\ Finish(t, IF job[t] = "scan" THEN 1 ELSE 0)
  /\ leaked' = IF job[t] = "scan" THEN leaked ELSE leaked \cup {t}

(* spi_set_data of the scan takes whatever response event is set, be it    *)
(* the late one of an earlier scan.                                        *)
ScanAnswered(t) ==
  /\ pc[t] = "scanAnswer" /\ CanRun(t)
  /\ \/ /\ resp["scan"] = "ok"
        /\ Continue(t, "scanDone")
        /\ UNCHANGED <<complete, leaked>>
     \/ /\ \/ resp["scan"] = "err"
           \/ resp["scan"] = "none" /\ MayTimeOut("scanAnswer")
        /\ ScanFails(t)
  /\ resp' = [resp EXCEPT !["scan"] = "none"]
  /\ UNCHANGED <<staVars, timer, owed, worldVars, late>>

(* The scan is done.  A join goes on if the network was among the reports, *)
(* which another thread (priority 15) handles, perhaps too late.           *)
Scanned(t, found) ==
  /\ pc[t] = "scanDone" /\ CanRun(t) /\ complete["scan"] = "signalled"
  /\ found => job[t] = "join"
  /\ Delete({"scan"})
  /\ IF found THEN Continue(t, "join") ELSE Finish(t, 1)
  /\ UNCHANGED <<leaked, staVars, timer, resp, owed, worldVars, late>>

ScanTimesOut(t) ==
  /\ pc[t] = "scanDone" /\ CanRun(t)
  /\ complete["scan"] = "waiting" /\ MayTimeOut("scanDone")
  /\ ScanFails(t)
  /\ UNCHANGED <<staVars, timer, resp, owed, worldVars, late>>

-----------------------------------------------------------------------------
(* rt_wlan_connect after its scan.                                         *)

(* rt_wlan_connect_adv saves the network, then commands the join.          *)
SendJoin(t) ==
  /\ Continue(t, "joinAnswer")
  /\ named' = TRUE /\ connecting' = TRUE
  /\ Ask({"joinAnswer", "outcome"})

(* The link may have come up since Enter: then the join waits for an event *)
(* that has been, or drops a link whose network is not named.              *)
Join(t) ==
  /\ pc[t] = "join" /\ CanRun(t)
  /\ \/ /\ connect /\ named
        /\ Create("join") /\ Continue(t, "wait")
        /\ UNCHANGED <<staVars, owed>>
     \/ /\ connect /\ ~named
        /\ complete' = [complete EXCEPT !["join"] = "waiting",
                                        !["disc"] = "waiting"]
        /\ Ask({"discAnswer", "disconnect"})
        /\ Continue(t, "discAnswer") /\ UNCHANGED staVars
     \/ /\ ~connect
        /\ Create("join") /\ SendJoin(t) /\ UNCHANGED <<connect, cfg>>
  /\ UNCHANGED <<leaked, timer, resp, worldVars, late>>

(* Neither complete, of the join or of the disconnect, can be created.     *)
JoinWithoutMemory(t) ==
  /\ pc[t] = "join" /\ CanRun(t)
  /\ Finish(t, 2)
  /\ UNCHANGED <<leaked, staVars, timer, moduleVars, worldVars, late>>

(* rt_wlan_disconnect.                                                     *)
DiscAnswered(t) ==
  /\ pc[t] = "discAnswer" /\ CanRun(t)
  /\ \/ resp["disc"] = "ok" /\ Continue(t, "discDone") /\ UNCHANGED complete
     \/ /\ \/ resp["disc"] = "err"
           \/ resp["disc"] = "none" /\ MayTimeOut("discAnswer")
        /\ Delete({"join", "disc"}) /\ Finish(t, 1)
  /\ resp' = [resp EXCEPT !["disc"] = "none"]
  /\ UNCHANGED <<leaked, staVars, timer, owed, worldVars, late>>

Disconnected(t) ==
  /\ pc[t] = "discDone" /\ CanRun(t)
  /\ \/ /\ complete["disc"] = "signalled"
        /\ Delete({"disc"}) /\ SendJoin(t)
        /\ UNCHANGED <<connect, cfg>>
     \/ /\ complete["disc"] = "waiting" /\ MayTimeOut("disconnect")
        /\ Delete({"join", "disc"}) /\ Finish(t, 1)
        /\ UNCHANGED <<staVars, owed>>
  /\ UNCHANGED <<leaked, timer, resp, worldVars, late>>

(* The module takes the join, or the join gives up and forgets the name of *)
(* the network, although its answer and its outcome may still come.        *)
(* Bug: a join that gives up leaves the state connecting.                  *)
JoinAnswered_Bug(t) ==
  /\ pc[t] = "joinAnswer" /\ CanRun(t)
  /\ \/ /\ resp["join"] = "ok" /\ Continue(t, "wait")
        /\ UNCHANGED <<complete, staVars, late>>
     \/ /\ \/ resp["join"] = "err"
           \/ resp["join"] = "none" /\ MayTimeOut("joinAnswer")
        /\ named' = FALSE
        /\ late' = (late \/ owed \cap {"joinAnswer", "outcome"} # {})
        /\ Delete({"join"}) /\ Finish(t, 1)
        /\ UNCHANGED <<connect, connecting, cfg>>
  /\ resp' = [resp EXCEPT !["join"] = "none"]
  /\ UNCHANGED <<leaked, timer, owed, worldVars>>
JoinAnswered(t) ==
  /\ pc[t] = "joinAnswer" /\ CanRun(t)
  /\ \/ /\ resp["join"] = "ok" /\ Continue(t, "wait")
        /\ UNCHANGED <<complete, staVars, late>>
     \/ /\ \/ resp["join"] = "err"
           \/ resp["join"] = "none" /\ MayTimeOut("joinAnswer")
        /\ named' = FALSE /\ connecting' = FALSE
        /\ late' = (late \/ owed \cap {"joinAnswer", "outcome"} # {})
        /\ Delete({"join"}) /\ Finish(t, 1)
        /\ UNCHANGED <<connect, cfg>>
  /\ resp' = [resp EXCEPT !["join"] = "none"]
  /\ UNCHANGED <<leaked, timer, owed, worldVars>>

(* The outcome, either one, or ten seconds ends the join.                  *)
(* Bug: a join whose wait ends does not release the mutex.                 *)
Joined_Bug(t) ==
  /\ pc[t] = "wait" /\ CanRun(t)
  /\ complete["join"] = "waiting" => MayTimeOut("outcome")
  /\ Delete({"join"}) /\ Finish(t, 0)
  /\ UNCHANGED <<leaked, staVars, timer, resp, owed, worldVars, late>>
Joined(t) ==
  /\ pc[t] = "wait" /\ CanRun(t)
  /\ complete["join"] = "waiting" => MayTimeOut("outcome")
  /\ Delete({"join"}) /\ Finish(t, 1)
  /\ UNCHANGED <<leaked, staVars, timer, resp, owed, worldVars, late>>

-----------------------------------------------------------------------------
(* The automatic reconnection.                                             *)

DoConnect == pc["main"] # "boot" /\ ~connect /\ ~connecting

(* rt_wlan_cyclic_check, every two seconds: submit the work, for in 1 s.   *)
TimerFires ==
  /\ timer /\ DoConnect /\ item = "free"
  /\ item' = "delayed"
  /\ UNCHANGED <<threadVars, mutexVars, staVars, timer, moduleVars, worldVars,
                 late>>

DelayExpires ==
  /\ item = "delayed"
  /\ item' = "queued"
  /\ UNCHANGED <<threadVars, mutexVars, staVars, timer, moduleVars, worldVars,
                 late>>

(* rt_wlan_auto_connect_run takes the mutex without waiting.  Whichever    *)
(* way it ends it releases it: that undoes its own take, or, when that has *)
(* failed, one of an earlier command, if it owns any.                      *)
(* Bug: a link that is up is no reason to give up.                         *)
AutoRun_Bug ==
  /\ pc["work"] = "idle" /\ item = "queued" /\ CanRun("work")
  /\ \/ /\ TakeSucceeds("work") /\ cfg /\ ~connecting
        /\ Take("work") /\ Goto("work", "enter") /\ item' = "running"
     \/ /\ TakeSucceeds("work") /\ ~(cfg /\ ~connecting)
        /\ item' = "free" /\ UNCHANGED <<pc, mutexVars>>
     \/ /\ ~TakeSucceeds("work")
        /\ Release("work", 1) /\ item' = "free" /\ UNCHANGED pc
  /\ UNCHANGED <<job, leaked, staVars, timer, moduleVars, worldVars, late>>
AutoRun ==
  /\ pc["work"] = "idle" /\ item = "queued" /\ CanRun("work")
  /\ \/ /\ TakeSucceeds("work") /\ DoConnect /\ cfg
        /\ Take("work") /\ Goto("work", "enter") /\ item' = "running"
     \/ /\ TakeSucceeds("work") /\ ~(DoConnect /\ cfg)
        /\ item' = "free" /\ UNCHANGED <<pc, mutexVars>>
     \/ /\ ~TakeSucceeds("work")
        /\ Release("work", 1) /\ item' = "free" /\ UNCHANGED pc
  /\ UNCHANGED <<job, leaked, staVars, timer, moduleVars, worldVars, late>>

-----------------------------------------------------------------------------
(* rt_wlan_event_dispatch, on the packets of the module.                   *)

Deliver(p) == p \in owed /\ owed' = owed \ {p}
Signal(c) ==
  complete' = IF complete[c] = "waiting"
              THEN [complete EXCEPT ![c] = "signalled"] ELSE complete

CommandOf(p) ==
  CASE p = "scanAnswer" -> "scan" [] p = "joinAnswer" -> "join"
    [] p = "discAnswer" -> "disc"

(* A response event; the module refuses a command only on a bad bus, and   *)
(* a join it refuses has no outcome.                                       *)
EvAnswer(p, r) ==
  /\ p \in owed
  /\ r = "err" => ~spi
  /\ owed' = IF p = "joinAnswer" /\ r = "err"
             THEN owed \ {p, "outcome"} ELSE owed \ {p}
  /\ resp' = [resp EXCEPT ![CommandOf(p)] = r]
  /\ UNCHANGED <<threadVars, mutexVars, staVars, watchVars, complete,
                 worldVars, late>>

EvScanDone ==
  /\ Deliver("scanDone") /\ Signal("scan")
  /\ UNCHANGED <<threadVars, mutexVars, staVars, watchVars, resp, worldVars,
                 late>>

(* RT_WLAN_DEV_EVT_CONNECT and _CONNECT_FAIL.  The network is saved if it  *)
(* still has its name.                                                     *)
EvOutcome(ok) ==
  /\ Deliver("outcome") /\ Signal("join")
  /\ ok => ap
  /\ connect' = ok /\ connecting' = FALSE
  /\ timer' = ~ok
  /\ cfg' = (cfg \/ (ok /\ named))
  /\ UNCHANGED <<threadVars, mutexVars, named, item, resp, worldVars, late>>

(* RT_WLAN_DEV_EVT_DISCONNECT: the access point is gone, or the command.   *)
(* Bug: the timer is not started.                                          *)
EvDrop_Bug ==
  /\ \/ Deliver("disconnect")
     \/ connect /\ ~ap /\ UNCHANGED owed
  /\ Signal("disc")
  /\ connect' = FALSE
  /\ UNCHANGED <<threadVars, mutexVars, connecting, named, cfg, timer, item,
                 resp, worldVars, late>>
EvDrop ==
  /\ \/ Deliver("disconnect")
     \/ connect /\ ~ap /\ UNCHANGED owed
  /\ Signal("disc")
  /\ connect' = FALSE
  /\ timer' = TRUE
  /\ UNCHANGED <<threadVars, mutexVars, connecting, named, cfg, item, resp,
                 worldVars, late>>

(* What the program does not decide: the bus, the access point, lost       *)
(* packets, and whether the MQTT client gets through at its start.         *)
Lose(p) ==
  /\ p \in owed \cap MayLose /\ ~spi
  /\ owed' = owed \ {p}
  /\ UNCHANGED <<threadVars, mutexVars, staVars, watchVars, complete, resp,
                 worldVars, late>>

BusChanges ==
  /\ BusFails
  /\ spi' = ~spi
  /\ UNCHANGED <<threadVars, mutexVars, staVars, watchVars, moduleVars, ap,
                 mqtt, late>>

AccessPointChanges ==
  /\ ap' = ~ap
  /\ UNCHANGED <<threadVars, mutexVars, staVars, watchVars, moduleVars, spi,
                 mqtt, late>>

(* mqtt_main: without a connection IOT_MQTT_Yield has no client and returns *)
(* at once, for ever.  Without an AHT10 the thread is never started.       *)
MqttStarts ==
  /\ pc["main"] = "idle" /\ mqtt = "off"
  /\ mqtt' \in IF connect THEN {"serving", "spinning"} ELSE {"spinning"}
  /\ UNCHANGED <<threadVars, mutexVars, staVars, watchVars, moduleVars, spi,
                 ap, late>>

-----------------------------------------------------------------------------
ThreadStep(t) ==
  \/ Enter(t)
  \/ Lock(t) \/ LockWithoutMemory(t)
  \/ ScanAnswered(t)
  \/ \E found \in BOOLEAN : Scanned(t, found)
  \/ ScanTimesOut(t)
  \/ Join(t) \/ JoinWithoutMemory(t)
  \/ DiscAnswered(t) \/ Disconnected(t)
  \/ JoinAnswered(t) \/ Joined(t)

ModuleStep ==
  \/ \E p \in Answers, r \in {"ok", "err"} : EvAnswer(p, r)
  \/ EvScanDone
  \/ \E ok \in BOOLEAN : EvOutcome(ok)
  \/ EvDrop

Environment ==
  \/ \E p \in Packets : Lose(p)
  \/ BusChanges \/ AccessPointChanges
  \/ MqttStarts

Next ==
  \/ Boot
  \/ \E u \in Users, j \in {"scan", "join"} : Command(u, j)
  \/ \E t \in Threads : ThreadStep(t)
  \/ TimerFires \/ DelayExpires \/ AutoRun
  \/ ModuleStep
  \/ Environment

Spec == Init /\ [][Next]_vars

(* The scheduler runs every thread that may run; the timers fire; the      *)
(* module answers.  The mutex is handed to the thread that waits.  With    *)
(* memory and an access point in range, one of the work's scans in the end *)
(* finds it and one of its joins gets through.                             *)
Fairness ==
  /\ WF_vars(Boot)
  /\ \A t \in Threads : WF_vars(ThreadStep(t)) /\ SF_vars(Lock(t))
  /\ SF_vars(Scanned("work", TRUE)) /\ SF_vars(Join("work"))
  /\ WF_vars(TimerFires) /\ WF_vars(DelayExpires) /\ WF_vars(AutoRun)
  /\ \A p \in Answers : WF_vars(EvAnswer(p, "ok"))
  /\ WF_vars(EvScanDone) /\ WF_vars(EvDrop)
  /\ WF_vars(\E ok \in BOOLEAN : EvOutcome(ok)) /\ SF_vars(EvOutcome(TRUE))

FairSpec == Spec /\ Fairness

-----------------------------------------------------------------------------
Inside(t) == pc[t] \in InsidePcs

(* Whoever commands the module or waits for it owns mgnt_mutex: although   *)
(* rt_wlan_complete_create releases it too often and a failed scan too     *)
(* seldom, no two calls are ever under way, and none shares its completes. *)
OneCallAtATime ==
  /\ \A t \in Threads : Inside(t) => owner = t
  /\ \A c \in Completes : complete[c] # "none" => \E t \in Threads : Inside(t)

(* A thread that is back from its command has kept the mutex only if the   *)
(* scan of one of its joins failed (wlan_mgnt.c:925-929).                  *)
KeptOnlyAfterFailedScan ==
  \A t \in Threads : pc[t] = "idle" /\ owner = t => t \in leaked

(* While the station is down the reconnection timer runs: only CONNECT     *)
(* stops it, and DISCONNECT and CONNECT_FAIL both start it, whatever order *)
(* they come in.                                                           *)
DownIsWatched == pc["main"] # "boot" /\ ~connect => timer

(* The bit that makes every later attempt give up does not outlive the     *)
(* join: a module whose answers are in time still owes its outcome.        *)
ConnectingEnds ==
  connecting /\ ~late /\ "outcome" \notin MayLose =>
    \/ "outcome" \in owed
    \/ \E t \in Threads : pc[t] = "joinAnswer"

(* The reconnection never drops a link that is up, unless an answer came   *)
(* after its join had given up.                                            *)
KeepsGoodLink ==
  [][connect /\ "disconnect" \notin owed /\ "disconnect" \in owed'
       => late \/ \E u \in Users : pc[u] = "join"]_vars

(* The promise of the abstract reconnection.  Its work item and the thread *)
(* that runs it are two pieces of state, set by different threads; the     *)
(* link changes under an attempt at any place.                             *)
Attempt ==
  CASE item = "free" /\ pc["work"] = "idle"                   -> "none"
    [] item \in {"delayed", "queued"} /\ pc["work"] = "idle" -> "waiting"
    [] item = "running" /\ pc["work"] # "idle"               -> "running"
    [] OTHER                                                 -> "lost"

Watch == INSTANCE StaWatch WITH
  link    <- connect,
  armed   <- timer,
  attempt <- Attempt

KeepsWatch == Watch!Spec

(* A user's command gets the mutex, even while the MQTT thread spins, if   *)
(* no failed scan has kept it: its owner inherits the user's priority.     *)
LockIsGranted ==
  \A u \in Users :
    pc[u] = "lock" ~> (pc[u] # "lock" \/ leaked # {})

(* The one work item is given back, whichever way the attempt ends, so     *)
(* that the timer can submit it again.                                     *)
WorkIsRecycled == item # "free" ~> (item = "free" \/ mqtt = "spinning")

Served ==
  /\ ap /\ spi /\ cfg /\ ~late
  /\ mqtt # "spinning"
  /\ owner \notin Users /\ \A u \in Users : pc[u] = "idle"

(* A saved network in range is joined again by the work alone, however it  *)
(* was lost, if the bus is good and nobody keeps the mutex.                *)
Reconnects == <>[]Served => []<>connect

(* README.md:25: it connects at boot, and tries again when the link is     *)
(* lost ("wifi断开自动尝试重连").                                                *)
Attempting == \E t \in Threads : Inside(t)
TriesAgain == cfg /\ ~connect ~> (connect \/ Attempting)
=============================================================================

--------------------------- MODULE WlanSta_proofs ---------------------------
(***************************************************************************)
(* The invariants of WlanSta for every value of its constants: with or     *)
(* without the shell, on any bus, whatever packets it loses and however    *)
(* far the mutex counts.                                                   *)
(*                                                                         *)
(* The argument is that of a lock, made longer by the calls that release   *)
(* it too often or not at all.  Owned says who has it; Signals, that every *)
(* complete is that of the owner, so that its place tells which there are; *)
(* Counted, that only a failed scan leaves a take behind; Answered and     *)
(* Named, what is known of the module's packets until one is late.         *)
(***************************************************************************)
EXTENDS WlanSta, TLAPS

(* The work takes the mutex before it enters rt_wlan_connect.              *)
WorkPcs == {"enter", "lock"} \cup InsidePcs

Owned ==
  /\ \A t \in Threads : pc[t] \in InsidePcs => owner = t
  /\ pc["work"] \in WorkPcs => owner = "work"

Signals ==
  /\ complete["scan"] # "none" =>
       owner # None /\ pc[owner] \in {"scanAnswer", "scanDone"}
  /\ complete["join"] # "none" => owner # None /\ pc[owner] \in JoinPcs
  /\ complete["disc"] # "none" =>
       owner # None /\ pc[owner] \in {"discAnswer", "discDone"}

(* The takes a thread owes at its place, those of a failed scan aside.     *)
Levels(t) ==
  (IF t = "work" /\ pc[t] \in WorkPcs THEN 1 ELSE 0)
  + (IF pc[t] \in InsidePcs THEN 1 ELSE 0)

Counted ==
  \A t \in Threads : owner = t /\ t \notin leaked => hold <= Levels(t)

(* Until an answer is late, an answer to a join finds the join, and a join *)
(* the module has taken still has its outcome to come.                     *)
Answered ==
  ~late =>
    /\ "joinAnswer" \in owed \/ resp["join"] # "none" =>
         owner # None /\ pc[owner] = "joinAnswer"
    /\ "joinAnswer" \in owed => resp["join"] = "none"
    /\ connecting /\ "outcome" \notin MayLose =>
         "outcome" \in owed \/ resp["join"] = "err"

(* Until then, an outcome finds the name of its network, and the work on   *)
(* its way to a join is not overtaken by a link without a name.            *)
Named ==
  ~late =>
    /\ "outcome" \in owed => named
    /\ connect /\ pc["work"] \in WorkPcs \ JoinPcs => named

-----------------------------------------------------------------------------
(* The steps the actions are made of.                                      *)

LEMMA WorkIsThread == "work" \in Threads /\ "main" \in Threads
                        /\ "work" \notin Users /\ None \notin Threads
  BY UsersAssumption DEF Threads, None

(* m releases by t, as counted.                                            *)
Released(t, m) ==
  /\ owner # t => UNCHANGED mutexVars
  /\ owner = t =>
       /\ owner' \in {t, None}
       /\ hold' \in 0 .. HoldMax
       /\ owner' = None <=> hold' = 0
       /\ hold <= m => owner' = None
       /\ owner' = t => hold' = hold - m

LEMMA ReleaseEffect ==
  ASSUME TypeOK, NEW t \in Threads, NEW m \in Nat, Release(t, m)
  PROVE  Released(t, m)
  BY WorkIsThread, HoldAssumption DEF TypeOK, Release, Released, mutexVars

LEMMA ReleaseTypes ==
  ASSUME TypeOK, NEW t \in Threads, NEW m \in Nat, Release(t, m)
  PROVE  /\ owner' \in Threads \cup {None} /\ hold' \in 0 .. HoldMax
         /\ owner' = None <=> hold' = 0
  BY ReleaseEffect DEF TypeOK, Released, mutexVars

(* A command that ends.                                                    *)
LEMMA FinishEffect ==
  ASSUME TypeOK, NEW t \in Threads, NEW n \in Nat, Finish(t, n)
  PROVE  /\ \E p \in {"idle", "enter"} :
              pc' = [pc EXCEPT ![t] = p] /\ (p = "enter" => t = "main")
         /\ job' = [job EXCEPT ![t] = "join"]
         /\ Released(t, IF t = "work" THEN n + 1 ELSE n)
         /\ owner' \in Threads \cup {None} /\ hold' \in 0 .. HoldMax
         /\ owner' = None <=> hold' = 0
         /\ item' \in {"free", item}
<1>1. (IF t = "work" THEN n + 1 ELSE n) \in Nat
  OBVIOUS
<1>2. Release(t, IF t = "work" THEN n + 1 ELSE n)
  BY DEF Finish
<1> QED
  BY <1>1, <1>2, ReleaseEffect, ReleaseTypes DEF Finish, Goto

LEMMA TakeEffect ==
  ASSUME TypeOK, NEW t \in Threads, CanTake(t), Take(t)
  PROVE  /\ owner' = t /\ hold' \in 1 .. HoldMax /\ hold' <= hold + 1
         /\ owner \in {None, t}
  BY HoldAssumption DEF TypeOK, CanTake, Take

(* What the work does to the mutex: a take of its own, nothing in sum, or, *)
(* after a take that failed, one release.                                  *)
LEMMA AutoRunEffect ==
  ASSUME TypeOK, AutoRun
  PROVE  /\ pc["work"] = "idle" /\ UNCHANGED <<job, leaked>>
         /\ \/ CanTake("work") /\ Take("work") /\ Goto("work", "enter")
            \/ UNCHANGED <<pc, mutexVars>>
            \/ /\ UNCHANGED pc /\ Released("work", 1)
               /\ owner' \in Threads \cup {None} /\ hold' \in 0 .. HoldMax
               /\ owner' = None <=> hold' = 0
<1>1. CASE TakeSucceeds("work")
  BY <1>1 DEF AutoRun, TakeSucceeds
<1>2. CASE ~TakeSucceeds("work")
  BY <1>2, WorkIsThread, ReleaseEffect, ReleaseTypes DEF AutoRun
<1> QED
  BY <1>1, <1>2

-----------------------------------------------------------------------------
(* Types.                                                                  *)

LEMMA ThreadTypes ==
  ASSUME TypeOK, NEW t \in Threads, ThreadStep(t)
  PROVE  TypeOK'
<1> USE WorkIsThread
    DEF TypeOK, InsidePcs, JoinPcs, Completes, Goto, Continue, Create, Delete,
        Ask, Packets, Answers, Events, mutexVars, staVars, moduleVars,
        worldVars
<1>1. CASE Enter(t)
  BY <1>1, FinishEffect DEF Enter
<1>2. CASE Lock(t)
  <2>1. owner' = t /\ hold' \in 1 .. HoldMax
    BY <1>2, TakeEffect DEF Lock
  <2>2. complete' \in [Completes -> {"none", "waiting", "signalled"}]
    BY <1>2 DEF Lock
  <2>3. pc' \in [Threads -> {"boot", "idle", "enter", "lock"} \cup InsidePcs]
    BY <1>2 DEF Lock
  <2> QED
    BY <1>2, <2>1, <2>2, <2>3 DEF Lock, watchVars
<1>3. CASE LockWithoutMemory(t)
  BY <1>3, FinishEffect DEF LockWithoutMemory
<1>4. CASE ScanAnswered(t)
  BY <1>4, FinishEffect DEF ScanAnswered, ScanFails
<1>5. CASE \E found \in BOOLEAN : Scanned(t, found)
  BY <1>5, FinishEffect DEF Scanned
<1>6. CASE ScanTimesOut(t)
  BY <1>6, FinishEffect DEF ScanTimesOut, ScanFails
<1>7. CASE Join(t)
  <2>1. complete' \in [Completes -> {"none", "waiting", "signalled"}]
    BY <1>7 DEF Join
  <2>2. pc' \in [Threads -> {"boot", "idle", "enter", "lock"} \cup InsidePcs]
    BY <1>7 DEF Join, SendJoin
  <2>3. /\ UNCHANGED <<job, leaked, mutexVars, watchVars, resp, worldVars,
                       late, connect, cfg>>
        /\ owed' \subseteq Packets
        /\ connecting' \in BOOLEAN /\ named' \in BOOLEAN
    BY <1>7 DEF Join, SendJoin, watchVars
  <2> QED
    BY <2>1, <2>2, <2>3 DEF watchVars
<1>8. CASE JoinWithoutMemory(t)
  BY <1>8, FinishEffect DEF JoinWithoutMemory
<1>9. CASE DiscAnswered(t)
  BY <1>9, FinishEffect DEF DiscAnswered
<1>10. CASE Disconnected(t)
  <2>1. complete' \in [Completes -> {"none", "waiting", "signalled"}]
    BY <1>10 DEF Disconnected
  <2>2. CASE Finish(t, 1) /\ UNCHANGED <<staVars, owed>>
    BY <1>10, <2>1, <2>2, FinishEffect DEF Disconnected
  <2>3. CASE SendJoin(t) /\ UNCHANGED <<connect, cfg>>
    <3>1. pc' \in [Threads -> {"boot", "idle", "enter", "lock"} \cup InsidePcs]
      BY <2>3 DEF SendJoin
    <3> QED
      BY <1>10, <2>1, <2>3, <3>1 DEF Disconnected, SendJoin
  <2> QED
    BY <1>10, <2>2, <2>3 DEF Disconnected
<1>11. CASE JoinAnswered(t)
  <2>1. /\ complete' \in [Completes -> {"none", "waiting", "signalled"}]
        /\ named' \in BOOLEAN /\ connecting' \in BOOLEAN
        /\ UNCHANGED <<connect, cfg>>
    <3>1. CASE UNCHANGED <<complete, staVars, late>>
      BY <3>1
    <3>2. CASE /\ named' = FALSE /\ connecting' = FALSE
               /\ Delete({"join"}) /\ UNCHANGED <<connect, cfg>>
      BY <3>2
    <3> QED
      BY <1>11, <3>1, <3>2 DEF JoinAnswered
  <2>5. /\ resp' \in [Completes -> {"none", "ok", "err"}]
        /\ UNCHANGED <<leaked, timer, owed, worldVars>>
    BY <1>11 DEF JoinAnswered
  <2>4. late' \in BOOLEAN
    <3>1. CASE UNCHANGED late
      BY <3>1
    <3>2. CASE late' = (late \/ owed \cap {"joinAnswer", "outcome"} # {})
      BY <3>2, Zenon
    <3> QED
      BY <1>11, <3>1, <3>2 DEF JoinAnswered
  <2>2. CASE Finish(t, 1)
    BY <2>1, <2>2, <2>4, <2>5, FinishEffect
  <2>3. CASE Continue(t, "wait")
    <3>1. pc' \in [Threads -> {"boot", "idle", "enter", "lock"} \cup InsidePcs]
      BY <2>3
    <3> QED
      BY <2>1, <2>3, <2>4, <2>5, <3>1
  <2> QED
    BY <1>11, <2>2, <2>3 DEF JoinAnswered
<1>12. CASE Joined(t)
  BY <1>12, FinishEffect DEF Joined
<1> QED
  BY <1>1, <1>2, <1>3, <1>4, <1>5, <1>6, <1>7, <1>8, <1>9, <1>10, <1>11,
     <1>12 DEF ThreadStep

(* The other steps.                                                        *)
Others ==
  \/ Boot
  \/ \E u \in Users, j \in {"scan", "join"} : Command(u, j)
  \/ TimerFires \/ DelayExpires \/ AutoRun
  \/ ModuleStep
  \/ Environment

LEMMA SignalTypes ==
  ASSUME TypeOK, NEW c \in Completes, Signal(c)
  PROVE  /\ complete' \in [Completes -> {"none", "waiting", "signalled"}]
         /\ \A d \in Completes : complete[d] = "none" <=> complete'[d] = "none"
  BY DEF TypeOK, Signal, Completes

LEMMA ModuleTypes ==
  ASSUME TypeOK, ModuleStep
  PROVE  TypeOK'
<1> USE DEF TypeOK, threadVars, mutexVars, staVars, watchVars, worldVars,
            Deliver
<1>1. ASSUME NEW p \in Answers, NEW r \in {"ok", "err"}, EvAnswer(p, r)
      PROVE  TypeOK'
  <2>1. resp' \in [Completes -> {"none", "ok", "err"}]
    BY <1>1 DEF EvAnswer
  <2> QED
    BY <1>1, <2>1 DEF EvAnswer
<1>2. CASE EvScanDone
  BY <1>2, SignalTypes DEF EvScanDone, Completes
<1>3. ASSUME NEW ok \in BOOLEAN, EvOutcome(ok) PROVE TypeOK'
  <2>1. complete' \in [Completes -> {"none", "waiting", "signalled"}]
    BY <1>3, SignalTypes DEF EvOutcome, Completes
  <2>2. connect' \in BOOLEAN /\ connecting' \in BOOLEAN /\ timer' \in BOOLEAN
    BY <1>3 DEF EvOutcome
  <2>3. cfg' \in BOOLEAN
    BY <1>3, Zenon DEF EvOutcome
  <2> QED
    BY <1>3, <2>1, <2>2, <2>3 DEF EvOutcome
<1>4. CASE EvDrop
  <2>1. complete' \in [Completes -> {"none", "waiting", "signalled"}]
    BY <1>4, SignalTypes DEF EvDrop, Completes
  <2>2. owed' \subseteq Packets
    BY <1>4 DEF EvDrop
  <2> QED
    BY <1>4, <2>1, <2>2 DEF EvDrop
<1> QED
  BY <1>1, <1>2, <1>3, <1>4 DEF ModuleStep

LEMMA OtherTypes ==
  ASSUME TypeOK, Others
  PROVE  TypeOK'
<1> USE WorkIsThread
    DEF TypeOK, threadVars, mutexVars, staVars, watchVars, moduleVars,
        worldVars, Goto
<1>1. CASE Boot
  BY <1>1 DEF Boot
<1>2. CASE \E u \in Users, j \in {"scan", "join"} : Command(u, j)
  BY <1>2 DEF Command, Threads
<1>3. CASE TimerFires
  BY <1>3 DEF TimerFires
<1>4. CASE DelayExpires
  BY <1>4 DEF DelayExpires
<1>5. CASE AutoRun
  <2>1. CASE CanTake("work") /\ Take("work")
    BY <1>5, <2>1, TakeEffect DEF AutoRun
  <2>2. CASE UNCHANGED <<pc, mutexVars>>
    BY <1>5, <2>2 DEF AutoRun
  <2>3. CASE /\ UNCHANGED pc
             /\ owner' \in Threads \cup {None} /\ hold' \in 0 .. HoldMax
             /\ owner' = None <=> hold' = 0
    BY <1>5, <2>3 DEF AutoRun
  <2> QED
    BY <1>5, <2>1, <2>2, <2>3, AutoRunEffect
<1>6. CASE \E p \in Packets : Lose(p)
  BY <1>6 DEF Lose
<1>7. CASE BusChanges
  BY <1>7 DEF BusChanges
<1>8. CASE AccessPointChanges
  BY <1>8 DEF AccessPointChanges
<1>9. CASE MqttStarts
  BY <1>9 DEF MqttStarts
<1> QED
  BY <1>1, <1>2, <1>3, <1>4, <1>5, <1>6, <1>7, <1>8, <1>9, ModuleTypes
     DEF Others, Environment

LEMMA InitTypes == Init => TypeOK
<1> SUFFICES ASSUME Init PROVE TypeOK
  OBVIOUS
<1>1. /\ pc \in [Threads -> {"boot", "idle", "enter", "lock"} \cup InsidePcs]
      /\ job \in [Threads -> {"scan", "join"}]
  BY DEF Init
<1>2. /\ complete \in [Completes -> {"none", "waiting", "signalled"}]
      /\ resp \in [Completes -> {"none", "ok", "err"}]
  BY DEF Init
<1>3. hold \in 0 .. HoldMax /\ owner = None
  BY HoldAssumption DEF Init
<1> QED
  BY <1>1, <1>2, <1>3 DEF Init, TypeOK

LEMMA NextCases == Next <=> Others \/ \E t \in Threads : ThreadStep(t)
  BY Zenon DEF Next, Others

(* Every reachable state has the types of TypeOK: the mutex is never       *)
(* counted past its maximum, nor without an owner.                         *)
THEOREM TypeCorrect == Spec => []TypeOK
<1>1. TypeOK /\ [Next]_vars => TypeOK'
  <2>1. ASSUME TypeOK, UNCHANGED vars PROVE TypeOK'
    BY <2>1 DEF TypeOK, vars, threadVars, mutexVars, staVars, watchVars,
       moduleVars, worldVars
  <2> QED
    BY <2>1, NextCases, OtherTypes, ThreadTypes
<1> QED
  BY <1>1, InitTypes, PTL DEF Spec

-----------------------------------------------------------------------------
(* The mutex.  A thread's step is of one of four kinds.                    *)

Begins(t) ==
  pc[t] = "enter" /\ Continue(t, "lock") /\ UNCHANGED <<complete, leaked>>

Locks(t) ==
  /\ pc[t] = "lock" /\ CanTake(t) /\ Take(t)
  /\ Goto(t, "scanAnswer") /\ Create("scan")
  /\ UNCHANGED leaked

GoesOn(t) ==
  /\ pc[t] \in InsidePcs
  /\ \E p \in InsidePcs :
       Continue(t, p) /\ (pc[t] \in JoinPcs => p \in JoinPcs)
  /\ UNCHANGED leaked

(* It ends with as many releases as it owes, or with a failed scan.        *)
Ends(t) ==
  /\ pc[t] \in WorkPcs
  /\ leaked \subseteq leaked'
  /\ \E n \in 0 .. 2 :
       /\ Finish(t, n)
       /\ \/ t \in leaked'
          \/ Levels(t) <= (IF t = "work" THEN n + 1 ELSE n)

LEMMA ThreadKinds ==
  ASSUME TypeOK, NEW t \in Threads, ThreadStep(t)
  PROVE  Begins(t) \/ Locks(t) \/ GoesOn(t) \/ Ends(t)
<1> USE DEF InsidePcs, JoinPcs, WorkPcs, Levels
<1>1. CASE Enter(t)
  BY <1>1 DEF Enter, Begins, Ends, moduleVars
<1>2. CASE Lock(t)
  BY <1>2 DEF Lock, Locks
<1>3. CASE LockWithoutMemory(t)
  BY <1>3 DEF LockWithoutMemory, Ends
<1>4. ASSUME ScanFails(t), pc[t] \in {"scanAnswer", "scanDone"} PROVE Ends(t)
  BY <1>4 DEF ScanFails, Ends
<1>5. CASE ScanAnswered(t)
  BY <1>4, <1>5 DEF ScanAnswered, GoesOn
<1>6. CASE \E found \in BOOLEAN : Scanned(t, found)
  BY <1>6 DEF Scanned, GoesOn, Ends
<1>7. CASE ScanTimesOut(t)
  BY <1>4, <1>7 DEF ScanTimesOut
<1>8. CASE Join(t)
  BY <1>8 DEF Join, SendJoin, GoesOn
<1>9. CASE JoinWithoutMemory(t)
  BY <1>9 DEF JoinWithoutMemory, Ends
<1>10. CASE DiscAnswered(t)
  BY <1>10 DEF DiscAnswered, GoesOn, Ends
<1>11. CASE Disconnected(t)
  BY <1>11 DEF Disconnected, SendJoin, GoesOn, Ends
<1>12. CASE JoinAnswered(t)
  BY <1>12 DEF JoinAnswered, GoesOn, Ends
<1>13. CASE Joined(t)
  BY <1>13 DEF Joined, Ends
<1> QED
  BY <1>1, <1>2, <1>3, <1>5, <1>6, <1>7, <1>8, <1>9, <1>10, <1>11, <1>12,
     <1>13 DEF ThreadStep

LockInv == TypeOK /\ Owned /\ Counted

LEMMA LockThread ==
  ASSUME LockInv, NEW t \in Threads, ThreadStep(t)
  PROVE  Owned' /\ Counted'
<1> USE WorkIsThread DEF LockInv, TypeOK, Owned, Counted, Levels, WorkPcs,
        InsidePcs, JoinPcs, Goto, mutexVars
<1>1. CASE Begins(t)
  BY <1>1 DEF Begins, Continue
<1>2. CASE Locks(t)
  BY <1>2, TakeEffect DEF Locks
<1>3. CASE GoesOn(t)
  BY <1>3 DEF GoesOn, Continue
<1>4. CASE Ends(t)
  <2>1. PICK n \in 0 .. 2 :
          /\ Finish(t, n)
          /\ \/ t \in leaked'
             \/ Levels(t) <= (IF t = "work" THEN n + 1 ELSE n)
    BY <1>4 DEF Ends
  <2>2. PICK p \in {"idle", "enter"} :
          pc' = [pc EXCEPT ![t] = p] /\ (p = "enter" => t = "main")
    BY <2>1, FinishEffect
  <2>3. Released(t, IF t = "work" THEN n + 1 ELSE n)
    BY <2>1, FinishEffect
  <2>4. leaked \subseteq leaked' /\ pc[t] \in WorkPcs
    BY <1>4 DEF Ends
  <2>5. Owned'
    BY <2>2, <2>3, <2>4 DEF Released
  <2>6. Counted'
    BY <2>1, <2>2, <2>3, <2>4 DEF Released
  <2> QED
    BY <2>5, <2>6
<1> QED
  BY <1>1, <1>2, <1>3, <1>4, ThreadKinds DEF LockInv

(* The module, the environment and the timers touch neither the threads    *)
(* nor the mutex.                                                          *)
LEMMA OtherKinds ==
  ASSUME Others
  PROVE  \/ UNCHANGED <<threadVars, mutexVars>>
         \/ Boot
         \/ \E u \in Users, j \in {"scan", "join"} : Command(u, j)
         \/ AutoRun
<1> USE DEF threadVars, mutexVars
<1>1. CASE TimerFires
  BY <1>1 DEF TimerFires
<1>2. CASE DelayExpires
  BY <1>2 DEF DelayExpires
<1>3. CASE ModuleStep
  BY <1>3 DEF ModuleStep, EvAnswer, EvScanDone, EvOutcome, EvDrop
<1>4. CASE Environment
  BY <1>4 DEF Environment, Lose, BusChanges, AccessPointChanges, MqttStarts
<1> QED
  BY <1>1, <1>2, <1>3, <1>4 DEF Others

LEMMA LockOthers ==
  ASSUME LockInv, Others
  PROVE  Owned' /\ Counted'
<1> USE WorkIsThread DEF LockInv, TypeOK, Owned, Counted, Levels, WorkPcs,
        InsidePcs, JoinPcs, Goto, threadVars, mutexVars
<1>1. CASE UNCHANGED <<threadVars, mutexVars>>
  BY <1>1
<1>2. CASE Boot
  BY <1>2 DEF Boot
<1>3. CASE \E u \in Users, j \in {"scan", "join"} : Command(u, j)
  BY <1>3 DEF Command, Threads
<1>4. CASE AutoRun
  <2>1. CASE CanTake("work") /\ Take("work") /\ Goto("work", "enter")
    <3>1. /\ owner' = "work" /\ hold' <= hold + 1 /\ owner \in {None, "work"}
          /\ hold' \in 1 .. HoldMax
      BY <2>1, TakeEffect
    <3>2. pc["work"] = "idle" /\ UNCHANGED leaked
      BY <1>4 DEF AutoRun
    <3> QED
      BY <2>1, <3>1, <3>2
  <2>2. CASE UNCHANGED <<pc, mutexVars>>
    BY <1>4, <2>2 DEF AutoRun
  <2>3. CASE UNCHANGED pc /\ Released("work", 1)
    <3>1. pc["work"] = "idle" /\ UNCHANGED leaked
      BY <1>4 DEF AutoRun
    <3> QED
      BY <2>3, <3>1 DEF Released
  <2> QED
    BY <1>4, <2>1, <2>2, <2>3, AutoRunEffect
<1> QED
  BY <1>1, <1>2, <1>3, <1>4, OtherKinds

LEMMA LockAlways == Spec => [](Owned /\ Counted)
<1>1. Init => Owned /\ Counted
  BY WorkIsThread
     DEF Init, Owned, Counted, WorkPcs, InsidePcs, JoinPcs
<1>2. TypeOK /\ Owned /\ Counted /\ [Next]_vars => (Owned /\ Counted)'
  <2>1. ASSUME Owned, Counted, UNCHANGED vars PROVE (Owned /\ Counted)'
    BY <2>1 DEF Owned, Counted, Levels, vars, threadVars, mutexVars
  <2> QED
    BY <2>1, NextCases, LockThread, LockOthers DEF LockInv
<1> QED
  BY <1>1, <1>2, TypeCorrect, PTL DEF Spec

(* A thread that is back from its command has kept the mutex only if the   *)
(* scan of one of its joins failed (wlan_mgnt.c:924-929); the releases on  *)
(* all the other ways out are enough.                                      *)
THEOREM KeptByFailedScanOnly == Spec => []KeptOnlyAfterFailedScan
<1>1. TypeOK /\ Counted => KeptOnlyAfterFailedScan
  <2> SUFFICES ASSUME TypeOK, Counted, NEW t \in Threads,
                      pc[t] = "idle", owner = t
               PROVE  t \in leaked
    BY DEF KeptOnlyAfterFailedScan
  <2>1. Levels(t) = 0
    BY DEF Levels, WorkPcs, InsidePcs, JoinPcs
  <2>2. hold # 0
    BY WorkIsThread DEF TypeOK
  <2> QED
    BY <2>1, <2>2 DEF Counted, TypeOK
<1> QED
  BY <1>1, TypeCorrect, LockAlways, PTL

-----------------------------------------------------------------------------
(* The completes.                                                          *)

LEMMA SignalsThread ==
  ASSUME LockInv, Signals, NEW t \in Threads, ThreadStep(t)
  PROVE  Signals'
<1> USE WorkIsThread DEF LockInv, TypeOK, Owned, Signals, WorkPcs,
        InsidePcs, JoinPcs, Goto, Continue, Create, Delete, Completes,
        mutexVars, moduleVars
<1>0. ASSUME NEW n \in Nat, Finish(t, n), pc[t] \in WorkPcs,
             \A c \in Completes : complete'[c] = "none" \/
                                  (complete'[c] = complete[c] /\ owner # t)
      PROVE  Signals'
  <2>1. PICK p \in {"idle", "enter"} : pc' = [pc EXCEPT ![t] = p]
    BY <1>0, FinishEffect
  <2>2. owner # t => owner' = owner
    BY <1>0, FinishEffect DEF Released
  <2> QED
    BY <1>0, <2>1, <2>2
<1>1. CASE Enter(t)
  BY <1>0, <1>1 DEF Enter
<1>2. CASE Lock(t)
  BY <1>2, TakeEffect DEF Lock
<1>3. CASE LockWithoutMemory(t)
  BY <1>0, <1>3 DEF LockWithoutMemory
<1>4. ASSUME ScanFails(t), pc[t] \in {"scanAnswer", "scanDone"} PROVE Signals'
  BY <1>0, <1>4 DEF ScanFails
<1>5. CASE ScanAnswered(t)
  BY <1>4, <1>5 DEF ScanAnswered
<1>6. CASE \E found \in BOOLEAN : Scanned(t, found)
  BY <1>0, <1>6 DEF Scanned
<1>7. CASE ScanTimesOut(t)
  BY <1>4, <1>7 DEF ScanTimesOut
<1>8. CASE Join(t)
  BY <1>8 DEF Join, SendJoin
<1>9. CASE JoinWithoutMemory(t)
  BY <1>0, <1>9 DEF JoinWithoutMemory
<1>10. CASE DiscAnswered(t)
  BY <1>0, <1>10 DEF DiscAnswered
<1>11. CASE Disconnected(t)
  BY <1>0, <1>11 DEF Disconnected, SendJoin
<1>12. CASE JoinAnswered(t)
  BY <1>0, <1>12 DEF JoinAnswered
<1>13. CASE Joined(t)
  BY <1>0, <1>13 DEF Joined
<1> QED
  BY <1>1, <1>2, <1>3, <1>5, <1>6, <1>7, <1>8, <1>9, <1>10, <1>11, <1>12,
     <1>13 DEF ThreadStep

(* The dispatch signals a complete that is waited for and creates none.    *)
LEMMA CompletesOfOthers ==
  ASSUME TypeOK, Others
  PROVE  \A c \in Completes : complete'[c] # "none" => complete[c] # "none"
<1> USE DEF threadVars, mutexVars, moduleVars
<1>1. CASE ModuleStep
  <2>1. ASSUME NEW p \in Answers, NEW r \in {"ok", "err"}, EvAnswer(p, r)
        PROVE  UNCHANGED complete
    BY <2>1 DEF EvAnswer
  <2>2. CASE EvScanDone
    BY <2>2, SignalTypes DEF EvScanDone, Completes
  <2>3. ASSUME NEW ok \in BOOLEAN, EvOutcome(ok)
        PROVE  \A c \in Completes :
                 complete'[c] # "none" => complete[c] # "none"
    BY <2>3, SignalTypes DEF EvOutcome, Completes
  <2>4. CASE EvDrop
    BY <2>4, SignalTypes DEF EvDrop, Completes
  <2> QED
    BY <1>1, <2>1, <2>2, <2>3, <2>4 DEF ModuleStep
<1>2. CASE Environment
  BY <1>2 DEF Environment, Lose, BusChanges, AccessPointChanges, MqttStarts
<1>3. CASE \E u \in Users, j \in {"scan", "join"} : Command(u, j)
  BY <1>3 DEF Command
<1>4. CASE Boot \/ TimerFires \/ DelayExpires \/ AutoRun
  BY <1>4 DEF Boot, TimerFires, DelayExpires, AutoRun
<1> QED
  BY <1>1, <1>2, <1>3, <1>4 DEF Others

LEMMA SignalsOthers ==
  ASSUME LockInv, Signals, Others
  PROVE  Signals'
<1> USE WorkIsThread, CompletesOfOthers
    DEF LockInv, TypeOK, Signals, JoinPcs, Goto, Completes, threadVars,
        mutexVars
<1>1. CASE UNCHANGED <<threadVars, mutexVars>>
  BY <1>1
<1>2. CASE Boot
  BY <1>2 DEF Boot
<1>3. CASE \E u \in Users, j \in {"scan", "join"} : Command(u, j)
  BY <1>3 DEF Command, Threads
<1>4. CASE AutoRun
  <2>1. CASE CanTake("work") /\ Take("work") /\ Goto("work", "enter")
    <3>1. owner' = "work" /\ owner \in {None, "work"}
      BY <2>1, TakeEffect
    <3>2. pc["work"] = "idle"
      BY <1>4 DEF AutoRun
    <3> QED
      BY <3>1, <3>2
  <2>2. CASE UNCHANGED <<pc, mutexVars>>
    BY <2>2
  <2>3. CASE UNCHANGED pc /\ Released("work", 1)
    <3>1. pc["work"] = "idle"
      BY <1>4 DEF AutoRun
    <3> QED
      BY <2>3, <3>1 DEF Released
  <2> QED
    BY <1>4, <2>1, <2>2, <2>3, AutoRunEffect
<1> QED
  BY <1>1, <1>2, <1>3, <1>4, OtherKinds

LEMMA SignalsAlways == Spec => []Signals
<1>1. Init => Signals
  BY DEF Init, Signals, Completes
<1>2. TypeOK /\ Owned /\ Counted /\ Signals /\ [Next]_vars => Signals'
  <2>1. ASSUME Signals, UNCHANGED vars PROVE Signals'
    BY <2>1 DEF Signals, vars, threadVars, mutexVars, moduleVars
  <2> QED
    BY <2>1, NextCases, SignalsThread, SignalsOthers DEF LockInv
<1> QED
  BY <1>1, <1>2, TypeCorrect, LockAlways, PTL DEF Spec

(* No two calls into the module are ever under way, and every complete is  *)
(* that of the one under way, although rt_wlan_complete_create and a join  *)
(* whose scan fails release the mutex too often and too seldom.            *)
THEOREM CallsDoNotOverlap == Spec => []OneCallAtATime
<1>1. TypeOK /\ Owned /\ Signals => OneCallAtATime
  <2> SUFFICES ASSUME TypeOK, Owned, Signals PROVE OneCallAtATime
    OBVIOUS
  <2>1. ASSUME NEW c \in Completes, complete[c] # "none"
        PROVE  \E t \in Threads : Inside(t)
    BY <2>1, WorkIsThread
       DEF TypeOK, Signals, Completes, Inside, InsidePcs, JoinPcs
  <2> QED
    BY <2>1 DEF OneCallAtATime, Owned, Inside
<1> QED
  BY <1>1, TypeCorrect, LockAlways, SignalsAlways, PTL

-----------------------------------------------------------------------------
(* While the station is down the reconnection timer runs, for ever: it     *)
(* cannot be left stopped by any order of CONNECT, CONNECT_FAIL and        *)
(* DISCONNECT (wlan_mgnt.c:579-662).                                       *)
THEOREM DownWatched == Spec => []DownIsWatched
<1>1. Init => DownIsWatched
  BY WorkIsThread DEF Init, DownIsWatched
<1>2. TypeOK /\ DownIsWatched /\ [Next]_vars => DownIsWatched'
  <2> SUFFICES ASSUME TypeOK, DownIsWatched, [Next]_vars PROVE DownIsWatched'
    OBVIOUS
  <2> USE WorkIsThread DEF DownIsWatched, TypeOK, Goto, Continue, staVars,
          watchVars, threadVars
  <2>1. ASSUME NEW t \in Threads, ThreadStep(t) PROVE DownIsWatched'
    <3>1. pc[t] # "boot"
      BY <2>1, ThreadKinds
         DEF Begins, Locks, GoesOn, Ends, WorkPcs, InsidePcs, JoinPcs
    <3>2. UNCHANGED <<connect, timer>>
      BY <2>1 DEF ThreadStep, Enter, Lock, LockWithoutMemory, ScanAnswered,
         Scanned, ScanTimesOut, Join, SendJoin, JoinWithoutMemory,
         DiscAnswered, Disconnected, JoinAnswered, Joined
    <3>3. pc'["main"] # "boot" => pc["main"] # "boot"
      BY <3>1, <2>1, ThreadKinds, FinishEffect
         DEF Begins, Locks, GoesOn, Ends, InsidePcs, JoinPcs
    <3> QED
      BY <3>2, <3>3
  <2>2. CASE Boot
    BY <2>2 DEF Boot
  <2>3. CASE \E u \in Users, j \in {"scan", "join"} : Command(u, j)
    BY <2>3 DEF Command, Threads
  <2>4. CASE TimerFires \/ DelayExpires \/ AutoRun
    BY <2>4 DEF TimerFires, DelayExpires, AutoRun
  <2>5. CASE ModuleStep
    BY <2>5 DEF ModuleStep, EvAnswer, EvScanDone, EvOutcome, EvDrop
  <2>6. CASE Environment
    BY <2>6 DEF Environment, Lose, BusChanges, AccessPointChanges, MqttStarts
  <2>7. CASE UNCHANGED vars
    BY <2>7 DEF vars
  <2> QED
    BY <2>1, <2>2, <2>3, <2>4, <2>5, <2>6, <2>7 DEF Next
<1> QED
  BY <1>1, <1>2, TypeCorrect, PTL DEF Spec

-----------------------------------------------------------------------------
(* The packets of a join.  A thread's step leaves them alone, commands a   *)
(* join or takes its answer.                                               *)

JoinFrame ==
  /\ UNCHANGED <<connect, connecting, named, late>>
  /\ resp'["join"] = resp["join"]
  /\ \A p \in {"joinAnswer", "outcome"} : p \in owed' <=> p \in owed

Sends(t) ==
  /\ pc[t] \in {"join", "discDone"}
  /\ SendJoin(t)
  /\ UNCHANGED <<connect, resp, late>>

LEMMA JoinKinds ==
  ASSUME TypeOK, NEW t \in Threads, ThreadStep(t)
  PROVE  \/ pc[t] # "joinAnswer" /\ JoinFrame
         \/ Sends(t)
         \/ JoinAnswered(t)
<1> USE DEF TypeOK, JoinFrame, staVars, moduleVars, Completes, Ask
<1>1. CASE Enter(t) \/ Lock(t) \/ LockWithoutMemory(t)
  BY <1>1 DEF Enter, Lock, LockWithoutMemory
<1>2. CASE ScanAnswered(t)
  BY <1>2 DEF ScanAnswered
<1>3. CASE (\E found \in BOOLEAN : Scanned(t, found)) \/ ScanTimesOut(t)
  BY <1>3 DEF Scanned, ScanTimesOut
<1>4. CASE Join(t)
  BY <1>4 DEF Join, Sends
<1>5. CASE JoinWithoutMemory(t) \/ DiscAnswered(t)
  BY <1>5 DEF JoinWithoutMemory, DiscAnswered
<1>6. CASE Disconnected(t)
  BY <1>6 DEF Disconnected, Sends
<1>7. CASE Joined(t)
  BY <1>7 DEF Joined
<1> QED
  BY <1>1, <1>2, <1>3, <1>4, <1>5, <1>6, <1>7 DEF ThreadStep

(* Nobody takes the mutex from the thread that waits for its answer.       *)
LEMMA WaiterStays ==
  ASSUME LockInv, NEW t \in Threads, ThreadStep(t),
         owner # None, pc[owner] = "joinAnswer", pc[t] # "joinAnswer"
  PROVE  owner' = owner /\ pc'[owner] = "joinAnswer"
<1> USE WorkIsThread DEF LockInv, TypeOK, Owned, Goto, mutexVars
<1>1. CASE Begins(t)
  BY <1>1 DEF Begins, Continue
<1>2. CASE Locks(t)
  BY <1>2 DEF Locks, CanTake
<1>3. CASE GoesOn(t)
  BY <1>3 DEF GoesOn, Continue
<1>4. CASE Ends(t)
  BY <1>4, FinishEffect DEF Ends, Released
<1> QED
  BY <1>1, <1>2, <1>3, <1>4, ThreadKinds

LEMMA AnsweredThread ==
  ASSUME LockInv, Answered, NEW t \in Threads, ThreadStep(t)
  PROVE  Answered'
<1> USE WorkIsThread DEF LockInv, TypeOK, Owned, Answered, Completes
<1>1. CASE pc[t] # "joinAnswer" /\ JoinFrame
  BY <1>1, WaiterStays DEF JoinFrame
<1>2. CASE Sends(t)
  <2>1. owner = t /\ owner' = t /\ pc'[t] = "joinAnswer" /\ late' = late
    BY <1>2
       DEF Sends, SendJoin, Continue, Goto, InsidePcs, JoinPcs, mutexVars
  <2>2. ~late => resp["join"] = "none" /\ resp' = resp
    BY <1>2, <2>1 DEF Sends
  <2>3. "outcome" \in owed'
    BY <1>2 DEF Sends, SendJoin, Ask
  <2> QED
    BY <2>1, <2>2, <2>3
<1>3. CASE JoinAnswered(t)
  <2>1. resp'["join"] = "none" /\ UNCHANGED owed
    BY <1>3 DEF JoinAnswered
  <2>2. CASE resp["join"] = "ok" /\ UNCHANGED <<complete, staVars, late>>
    BY <2>1, <2>2 DEF staVars
  <2>3. CASE /\ connecting' = FALSE
             /\ late' = (late \/ owed \cap {"joinAnswer", "outcome"} # {})
    BY <2>1, <2>3
  <2> QED
    BY <1>3, <2>2, <2>3 DEF JoinAnswered
<1> QED
  BY <1>1, <1>2, <1>3, JoinKinds

(* Neither does any other step touch the thread that waits.                *)
LEMMA OthersLetWait ==
  ASSUME LockInv, Others, owner # None, pc[owner] = "joinAnswer"
  PROVE  owner' = owner /\ pc'[owner] = "joinAnswer"
<1> USE WorkIsThread DEF LockInv, TypeOK, Goto, threadVars, mutexVars
<1>1. CASE Boot
  BY <1>1 DEF Boot
<1>2. CASE \E u \in Users, j \in {"scan", "join"} : Command(u, j)
  BY <1>2 DEF Command, Threads
<1>3. CASE AutoRun
  <2>1. pc["work"] = "idle" /\ owner # "work" /\ owner # None
    BY <1>3 DEF AutoRun
  <2> QED
    BY <1>3, <2>1, AutoRunEffect DEF CanTake, Released
<1> QED
  BY <1>1, <1>2, <1>3, OtherKinds

LEMMA AnsweredOthers ==
  ASSUME LockInv, Answered, Others
  PROVE  Answered'
<1> USE DEF LockInv, TypeOK, Completes
<1>1. ASSUME late' = late, resp'["join"] = resp["join"],
             \A p \in {"joinAnswer", "outcome"} : p \in owed' <=> p \in owed,
             connecting' => connecting
      PROVE  Answered'
  BY <1>1, OthersLetWait DEF Answered
<1>2. ASSUME NEW p \in Answers, NEW r \in {"ok", "err"}, EvAnswer(p, r)
      PROVE  Answered'
  <2>1. CASE p = "joinAnswer"
    BY <1>2, <2>1, OthersLetWait
       DEF EvAnswer, Answered, Answers, CommandOf, staVars
  <2>2. CASE p # "joinAnswer"
    BY <1>1, <1>2, <2>2 DEF EvAnswer, Answers, CommandOf, staVars
  <2> QED
    BY <2>1, <2>2
<1>3. CASE EvScanDone
  BY <1>1, <1>3 DEF EvScanDone, Deliver, staVars
<1>4. ASSUME NEW ok \in BOOLEAN, EvOutcome(ok) PROVE Answered'
  BY <1>4, OthersLetWait DEF EvOutcome, Deliver, Answered
<1>5. CASE EvDrop
  BY <1>1, <1>5 DEF EvDrop, Deliver
<1>6. ASSUME NEW p \in Packets, Lose(p) PROVE Answered'
  BY <1>6, OthersLetWait DEF Lose, Answered, staVars
<1>7. CASE BusChanges \/ AccessPointChanges \/ MqttStarts
  BY <1>1, <1>7
     DEF BusChanges, AccessPointChanges, MqttStarts, moduleVars, staVars
<1>8. CASE Boot \/ TimerFires \/ DelayExpires \/ AutoRun
  BY <1>1, <1>8
     DEF Boot, TimerFires, DelayExpires, AutoRun, moduleVars, staVars
<1>9. CASE \E u \in Users, j \in {"scan", "join"} : Command(u, j)
  BY <1>1, <1>9 DEF Command, moduleVars, staVars
<1> QED
  BY <1>2, <1>3, <1>4, <1>5, <1>6, <1>7, <1>8, <1>9
     DEF Others, ModuleStep, Environment

LEMMA AnsweredAlways == Spec => []Answered
<1>1. Init => Answered
  BY DEF Init, Answered, Completes
<1>2. TypeOK /\ Owned /\ Counted /\ Answered /\ [Next]_vars => Answered'
  <2>1. ASSUME Answered, UNCHANGED vars PROVE Answered'
    BY <2>1
       DEF Answered, vars, threadVars, mutexVars, staVars, moduleVars
  <2> QED
    BY <2>1, NextCases, AnsweredThread, AnsweredOthers DEF LockInv
<1> QED
  BY <1>1, <1>2, TypeCorrect, LockAlways, PTL DEF Spec

(* The bit that makes every later attempt give up does not outlive its     *)
(* join, unless an answer is late or the outcome was lost                  *)
(* (wlan_mgnt.c:594, 606 and 1003-1025).                                   *)
THEOREM ConnectingIsOwed == Spec => []ConnectingEnds
<1>1. TypeOK /\ Answered => ConnectingEnds
  BY WorkIsThread DEF TypeOK, Answered, ConnectingEnds
<1> QED
  BY <1>1, TypeCorrect, AnsweredAlways, PTL

-----------------------------------------------------------------------------
(* The name of the network.                                                *)

LEMMA NamedThread ==
  ASSUME LockInv, Named, NEW t \in Threads, ThreadStep(t)
  PROVE  Named'
<1> USE WorkIsThread DEF LockInv, TypeOK, Owned, Named
<1>1. pc'["work"] \in WorkPcs \ JoinPcs => pc["work"] \in WorkPcs \ JoinPcs
  <2> USE DEF WorkPcs, InsidePcs, JoinPcs, Goto
  <2>1. CASE Begins(t)
    BY <2>1 DEF Begins, Continue
  <2>2. CASE Locks(t)
    BY <2>2 DEF Locks
  <2>3. CASE GoesOn(t)
    BY <2>3 DEF GoesOn, Continue
  <2>4. CASE Ends(t)
    BY <2>4, FinishEffect DEF Ends
  <2> QED
    BY <2>1, <2>2, <2>3, <2>4, ThreadKinds
<1>2. CASE JoinFrame
  BY <1>1, <1>2 DEF JoinFrame
<1>3. CASE Sends(t)
  BY <1>3 DEF Sends, SendJoin
<1>4. CASE JoinAnswered(t)
  <2>1. UNCHANGED <<connect, owed>> /\ pc[t] = "joinAnswer"
    BY <1>4 DEF JoinAnswered, staVars
  <2>2. CASE UNCHANGED <<staVars, late>>
    BY <1>1, <2>1, <2>2 DEF staVars
  <2>3. CASE late' = (late \/ owed \cap {"joinAnswer", "outcome"} # {})
    <3>1. ~late' => ~late /\ "outcome" \notin owed'
      BY <2>1, <2>3
    <3>2. pc["work"] \notin WorkPcs \ JoinPcs
      BY <2>1 DEF WorkPcs, InsidePcs, JoinPcs
    <3> QED
      BY <1>1, <3>1, <3>2
  <2> QED
    BY <1>4, <2>2, <2>3 DEF JoinAnswered
<1> QED
  BY <1>2, <1>3, <1>4, JoinKinds

LEMMA NamedOthers ==
  ASSUME LockInv, Named, Others
  PROVE  Named'
<1> USE WorkIsThread DEF LockInv, TypeOK, Named, staVars, threadVars,
        moduleVars
<1>1. ASSUME UNCHANGED <<named, late>>, pc'["work"] = pc["work"],
             connect' => connect, "outcome" \in owed' => "outcome" \in owed
      PROVE  Named'
  BY <1>1
<1>2. CASE Boot
  BY <1>1, <1>2 DEF Boot, Goto
<1>3. CASE \E u \in Users, j \in {"scan", "join"} : Command(u, j)
  BY <1>1, <1>3 DEF Command, Goto, Threads
<1>4. CASE TimerFires \/ DelayExpires
  BY <1>1, <1>4 DEF TimerFires, DelayExpires
<1>5. CASE AutoRun
  BY <1>5 DEF AutoRun, DoConnect
<1>6. ASSUME NEW p \in Answers, NEW r \in {"ok", "err"}, EvAnswer(p, r)
      PROVE  Named'
  BY <1>1, <1>6 DEF EvAnswer
<1>7. CASE EvScanDone \/ EvDrop
  BY <1>1, <1>7 DEF EvScanDone, EvDrop, Deliver
<1>8. ASSUME NEW ok \in BOOLEAN, EvOutcome(ok) PROVE Named'
  BY <1>8 DEF EvOutcome, Deliver
<1>9. CASE Environment
  BY <1>1, <1>9
     DEF Environment, Lose, BusChanges, AccessPointChanges, MqttStarts
<1> QED
  BY <1>2, <1>3, <1>4, <1>5, <1>6, <1>7, <1>8, <1>9 DEF Others, ModuleStep

LEMMA NamedAlways == Spec => []Named
<1>1. Init => Named
  BY DEF Init, Named
<1>2. TypeOK /\ Owned /\ Counted /\ Named /\ [Next]_vars => Named'
  <2>1. ASSUME Named, UNCHANGED vars PROVE Named'
    BY <2>1 DEF Named, vars, threadVars, staVars, moduleVars
  <2> QED
    BY <2>1, NextCases, NamedThread, NamedOthers DEF LockInv
<1> QED
  BY <1>1, <1>2, TypeCorrect, LockAlways, PTL DEF Spec

(* The automatic reconnection never drops a link that is up, unless an     *)
(* answer came after its join had given up: a disconnect is commanded by a *)
(* user's join, or by the work over a link whose network has no name.      *)
THEOREM GoodLinkIsKept == Spec => KeepsGoodLink
<1> DEFINE Drops ==
             connect /\ "disconnect" \notin owed /\ "disconnect" \in owed'
           Why == late \/ \E u \in Users : pc[u] = "join"
<1>1. TypeOK /\ Named /\ [Next]_vars => [Drops => Why]_vars
  <2> SUFFICES ASSUME TypeOK, Named, [Next]_vars, Drops PROVE Why
    OBVIOUS
  <2>1. CASE UNCHANGED vars
    BY <2>1 DEF vars, moduleVars
  <2>2. CASE Others
    BY <2>2 DEF Others, Boot, Command, TimerFires, DelayExpires, AutoRun,
       ModuleStep, EvAnswer, EvScanDone, EvOutcome, EvDrop, Deliver,
       Environment, Lose, BusChanges, AccessPointChanges, MqttStarts,
       moduleVars
  <2>3. ASSUME NEW t \in Threads, ThreadStep(t) PROVE Why
    <3>1. CASE Join(t)
      <4>1. pc[t] = "join" /\ ~named
        BY <3>1 DEF Join, SendJoin, Ask
      <4>2. CASE t \in Users
        BY <4>1, <4>2
      <4>3. CASE t = "work"
        BY <4>1, <4>3 DEF Named, WorkPcs, InsidePcs, JoinPcs
      <4> QED
        BY <4>2, <4>3 DEF Threads
    <3>2. CASE Disconnected(t)
      <4>1. ~SendJoin(t)
        BY DEF SendJoin, Ask
      <4> QED
        BY <3>2, <4>1 DEF Disconnected
    <3>3. CASE Enter(t) \/ Lock(t) \/ LockWithoutMemory(t)
      BY <3>3 DEF Enter, Lock, LockWithoutMemory, Ask, moduleVars
    <3>4. CASE ScanAnswered(t) \/ ScanTimesOut(t) \/ JoinWithoutMemory(t)
      BY <3>4 DEF ScanAnswered, ScanTimesOut, JoinWithoutMemory, moduleVars
    <3>5. CASE \E found \in BOOLEAN : Scanned(t, found)
      BY <3>5 DEF Scanned
    <3>6. CASE DiscAnswered(t) \/ JoinAnswered(t) \/ Joined(t)
      BY <3>6 DEF DiscAnswered, JoinAnswered, Joined
    <3> QED
      BY <2>3, <3>1, <3>2, <3>3, <3>4, <3>5, <3>6 DEF ThreadStep
  <2> QED
    BY <2>1, <2>2, <2>3, NextCases
<1> QED
  BY <1>1, TypeCorrect, NamedAlways, PTL DEF Spec, KeepsGoodLink

-----------------------------------------------------------------------------
(* WlanSta implements StaWatch.                                            *)

(* The item is running exactly while the workqueue runs its work.          *)
ItemInv == item = "running" <=> pc["work"] # "idle"

(* A thread's step ends the attempt, if it is the work's last one, and     *)
(* changes nothing else StaWatch shows.                                    *)
LEMMA WatchThread ==
  ASSUME TypeOK, ItemInv, NEW t \in Threads, ThreadStep(t)
  PROVE  /\ UNCHANGED <<connect, timer>>
         /\ \/ /\ pc'["work"] = "idle" <=> pc["work"] = "idle"
               /\ UNCHANGED item
            \/ /\ item = "running" /\ pc["work"] # "idle"
               /\ item' = "free" /\ pc'["work"] = "idle"
<1>1. UNCHANGED <<connect, timer>>
  BY DEF ThreadStep, Enter, Lock, LockWithoutMemory, ScanAnswered, Scanned,
     ScanTimesOut, Join, SendJoin, JoinWithoutMemory, DiscAnswered,
     Disconnected, JoinAnswered, Joined, staVars, watchVars
<1>2. pc[t] # "idle"
  BY ThreadKinds DEF Begins, Locks, GoesOn, Ends, WorkPcs, InsidePcs, JoinPcs
<1>3. \/ \E p \in {"lock"} \cup InsidePcs : Goto(t, p) /\ UNCHANGED item
      \/ \E n \in Nat : Finish(t, n)
  BY DEF ThreadStep, Enter, Lock, LockWithoutMemory, ScanAnswered, Scanned,
     ScanTimesOut, Join, SendJoin, JoinWithoutMemory, DiscAnswered,
     Disconnected, JoinAnswered, Joined, ScanFails, Continue, InsidePcs,
     JoinPcs, watchVars
<1>4. ASSUME NEW p \in {"lock"} \cup InsidePcs, Goto(t, p), UNCHANGED item
      PROVE  (pc'["work"] = "idle" <=> pc["work"] = "idle") /\ UNCHANGED item
  BY <1>2, <1>4, WorkIsThread DEF Goto, TypeOK, InsidePcs, JoinPcs
<1>5. ASSUME NEW n \in Nat, Finish(t, n)
      PROVE  IF t = "work" THEN item' = "free" /\ pc'["work"] = "idle"
             ELSE UNCHANGED item /\ pc'["work"] = pc["work"]
  BY <1>5, WorkIsThread DEF Finish, Goto, TypeOK
<1> QED
  BY <1>1, <1>2, <1>3, <1>4, <1>5, WorkIsThread DEF ItemInv

(* Every step of the station is a step of StaWatch or one it does not      *)
(* show.                                                                   *)
LEMMA WatchStep ==
  ASSUME TypeOK, ItemInv, [Next]_vars
  PROVE  ItemInv' /\ [Watch!Next]_(Watch!vars)
<1> USE WorkIsThread
    DEF ItemInv, Attempt, Watch!Next, Watch!vars, Watch!Enable, Watch!Up,
        Watch!Down, Watch!Submit, Watch!Run, Watch!End
<1>1. ASSUME NEW t \in Threads, ThreadStep(t)
      PROVE  ItemInv' /\ [Watch!Next]_(Watch!vars)
  BY <1>1, WatchThread
<1>2. CASE Boot
  BY <1>2 DEF Boot, Goto, TypeOK, staVars
<1>3. CASE \E u \in Users, j \in {"scan", "join"} : Command(u, j)
  BY <1>3 DEF Command, Goto, TypeOK, staVars, watchVars, Threads
<1>4. CASE TimerFires
  BY <1>4 DEF TimerFires, DoConnect, TypeOK, staVars, threadVars
<1>5. CASE DelayExpires
  BY <1>5 DEF DelayExpires, TypeOK, staVars, threadVars
<1>6. CASE AutoRun
  BY <1>6 DEF AutoRun, DoConnect, Goto, TypeOK, staVars
<1>7. CASE ModuleStep
  BY <1>7 DEF ModuleStep, EvAnswer, EvScanDone, EvOutcome, EvDrop, TypeOK,
     threadVars, staVars, watchVars
<1>8. CASE Environment
  BY <1>8 DEF Environment, Lose, BusChanges, AccessPointChanges, MqttStarts,
     threadVars, staVars, watchVars
<1>9. CASE UNCHANGED vars
  BY <1>9 DEF vars, threadVars, staVars, watchVars
<1> QED
  BY <1>1, <1>2, <1>3, <1>4, <1>5, <1>6, <1>7, <1>8, <1>9, NextCases
     DEF Others

(* The station implements the abstract reconnection: whatever order the    *)
(* packets, the timer and the threads come in, no attempt is lost, none is *)
(* submitted twice, and a station that is down is watched.                 *)
THEOREM ImplementsWatch == Spec => KeepsWatch
<1>1. Init => ItemInv /\ Watch!Init
  BY WorkIsThread
     DEF Init, ItemInv, Watch!Init, Attempt
<1>2. TypeOK /\ ItemInv /\ [Next]_vars => ItemInv' /\ [Watch!Next]_(Watch!vars)
  BY WatchStep
<1> QED
  BY <1>1, <1>2, TypeCorrect, PTL DEF Spec, KeepsWatch, Watch!Spec
=============================================================================

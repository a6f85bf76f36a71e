-------------------------- MODULE MqttClient_proofs --------------------------
(***************************************************************************)
(* The invariants of MqttClient for every value of its constants, and that *)
(* it implements MqttLink.                                                 *)
(*                                                                         *)
(* ConnectedHasSession is not inductive: it needs to know at which points  *)
(* of mqtt_main_thread the state cannot be CONNECTED (Untold), although    *)
(* the lvgl thread may overwrite it at any moment, and that a CONNACK was  *)
(* read on the socket at the points which set CONNECTED (Acknowledged).    *)
(***************************************************************************)
EXTENDS MqttClient, TLAPS

(* While a socket is being built or dropped nobody is told CONNECTED.      *)
Untold ==
  pc \in {"construct", "dial", "connectLock", "connectSend", "connack",
          "redial", "accepted", "attempt", "drop", "reconnecting"}
    => client_state # "CONNECTED"

(* CONNECTED is set at these two places only, with the session there; the  *)
(* second one is reached by a reconnect only.                              *)
Acknowledged ==
  /\ pc \in {"accepted", "reconnected"} => handle = "open" /\ acked
  /\ pc = "reconnected" => caller = "reconnect"

(* At the places that dial, no socket is held.                             *)
HandleInv ==
  /\ pc = "construct" => handle = "zero"
  /\ NoSocketLeak

SessionInv == Untold /\ Acknowledged /\ HandleInv /\ ConnectedHasSession

(* A session in which more than ProbeMax pings are unanswered is only seen *)
(* between the ping and the test in iotx_mc_cycle.                         *)
ProbesInv ==
  /\ ProbesBounded
  /\ client_state = "CONNECTED" /\ pc \notin {"keepalive", "cycle"}
       => keepalive_probes <= ProbeMax
  /\ pc \in {"pingLock", "pingSend", "reconnected"}
       => keepalive_probes <= ProbeMax

(* The mutexes are accounted for until a publish runs on freed memory,     *)
(* which only happens once mqtt_main_thread has freed the client.          *)
LocksInv ==
  /\ pub # "undefined" =>
       /\ (lock_list_pub = "lvgl") <=> (pub \in {"write", "send"})
       /\ (lock_write_buf = "lvgl") <=> (pub = "send")
       /\ (lock_write_buf = "mqtt") <=>
            (pc \in {"connectSend", "subscribeSend", "pingSend",
                     "teardownSend"})
  /\ pub = "undefined" => heap = "freed"
  /\ pc = "construct" => heap = "none"

(* Where the client has been registered, or was connected once.            *)
Told == pc \in {"report", "register", "subscribe", "subscribeLock",
               "subscribeSend"} \cup YieldPcs \/ caller = "reconnect"

(* The object lives from IOT_MQTT_Construct to its release, the global     *)
(* names it from the registration on, and a reconnect is never left for    *)
(* the release.                                                            *)
KeptInv ==
  /\ heap = "live" <=> pc \notin {"construct", "clear", "spin"}
  /\ pc = "construct" => heap = "none"
  /\ caller = "reconnect" => pc \in YieldPcs \cup DialPcs
  /\ pc = "reconnected" => caller = "reconnect"
  /\ Told /\ pc \notin {"report", "register"} => g_mqtt_client
  /\ pc \in {"construct", "spin"} => ~g_mqtt_client
  /\ pub = "undefined" => heap = "freed"
  /\ Told => client_state \in {"CONNECTED", "DISCONNECTED",
                              "DISCONNECTED_RECONNECTING"}
-----------------------------------------------------------------------------
(* Types.                                                                  *)

(* The next interval stays below twice the maximum, and what is armed from *)
(* it is at most the maximum.                                              *)
LEMMA BackoffStep ==
  ASSUME interval \in Nat
  PROVE  /\ NextInterval \in Nat
         /\ NextInterval < 2 * IntervalMax
         /\ LesserOf(NextInterval, IntervalMax) \in Nat
         /\ LesserOf(NextInterval, IntervalMax) <= IntervalMax
  BY IntervalAssumption DEF NextInterval, LesserOf

(* ipstack.disconnect leaves a closed socket.                              *)
LEMMA DisconnectTypes ==
  Disconnect => /\ handle' \in {"closed", "zero", "open"}
                /\ acked' \in BOOLEAN
                /\ alive' \in BOOLEAN
  BY Zenon DEF Disconnect

(* ipstack.connect leaves a socket or 0 in the handle, whatever the        *)
(* network does.                                                           *)
LEMMA EstablishTypes ==
  ASSUME net \in {"up", "refusing", "down"}, Establish
  PROVE  /\ handle' \in {"closed", "zero", "open"}
         /\ acked' \in BOOLEAN
         /\ alive' \in BOOLEAN
<1>1. handle' \in {"closed", "zero", "open"}
  BY DEF Establish
<1>2. acked' \in BOOLEAN /\ alive' \in BOOLEAN
  BY Zenon DEF Establish
<1> QED BY <1>1, <1>2

(* No step of either thread takes a variable out of its set.               *)
LEMMA TypeStep == TypeOK /\ [Next]_vars => TypeOK'
<1> SUFFICES ASSUME TypeOK, [Next]_vars PROVE TypeOK'
  OBVIOUS
<1> USE IntervalAssumption, BackoffStep, DisconnectTypes, EstablishTypes
    DEF TypeOK, ClientStates, PubPcs, Pcs, DialPcs, BuildPcs, TeardownPcs, YieldPcs,
        worldVars, socketVars, objectVars, timerVars, lockVars, callVars
<1>1. CASE WriteBufLocked
  BY <1>1 DEF WriteBufLocked, TakeWriteBuf
<1>2. CASE Boot
  <2>1. CASE Construct
    BY <2>1 DEF Construct
  <2>2. CASE Dial
    BY <2>2 DEF Dial
  <2>3. CASE ConnectSend
    BY <2>3 DEF ConnectSend, DropWriteBuf, SendSucceeds, SendFails,
       ConnectFailed
  <2>4. CASE ConnackAccepted
    BY <2>4 DEF ConnackAccepted
  <2>5. CASE ConnackRejected
    BY <2>5 DEF ConnackRejected, ConnectFailed
  <2>6. CASE ConnackMissing
    BY <2>6 DEF ConnackMissing
  <2>7. CASE Redial
    BY <2>7 DEF Redial, ConnectFailed
  <2>8. CASE Accepted
    BY <2>8 DEF Accepted
  <2>9. CASE Report
    BY <2>9 DEF Report, SendSucceeds, SendFails
  <2>10. CASE Register
    BY <2>10 DEF Register
  <2>11. CASE Subscribe
    BY <2>11 DEF Subscribe
  <2>12. CASE SubscribeSend
    BY <2>12 DEF SubscribeSend, DropWriteBuf, SendSucceeds, SendFails
  <2> QED BY <1>2, <2>1, <2>2, <2>3, <2>4, <2>5, <2>6, <2>7, <2>8, <2>9,
      <2>10, <2>11, <2>12 DEF Boot
<1>3. CASE Release
  <2>1. CASE Teardown
    BY <2>1 DEF Teardown
  <2>2. CASE TeardownSend
    BY <2>2 DEF TeardownSend, DropWriteBuf
  <2>3. CASE TeardownClose
    BY <2>3 DEF TeardownClose
  <2>4. CASE TeardownState
    BY <2>4 DEF TeardownState
  <2>5. CASE TeardownFree
    BY <2>5 DEF TeardownFree
  <2>6. CASE TeardownClear
    <3>1. g_mqtt_client' \in BOOLEAN
      BY <2>6, Zenon DEF TeardownClear
    <3> QED
      BY <2>6, <3>1 DEF TeardownClear
  <2> QED BY <1>3, <2>1, <2>2, <2>3, <2>4, <2>5, <2>6 DEF Release
<1>4. CASE Yield
  <2>1. CASE KeepaliveIdle
    BY <2>1 DEF KeepaliveIdle
  <2>2. CASE KeepalivePing
    BY <2>2 DEF KeepalivePing, PingDue
  <2>3. CASE PingSend
    BY <2>3 DEF PingSend, DropWriteBuf, SendSucceeds, SendFails
  <2>4. CASE KeepaliveState
    BY <2>4 DEF KeepaliveState
  <2>5. CASE DropSocket
    BY <2>5 DEF DropSocket
  <2>6. CASE SetReconnecting
    BY <2>6 DEF SetReconnecting
  <2>7. CASE AttemptReconnect
    BY <2>7 DEF AttemptReconnect
  <2>8. CASE Reconnected
    BY <2>8 DEF Reconnected
  <2>9. CASE Cycle
    BY <2>9 DEF Cycle
  <2>10. CASE Read
    BY <2>10 DEF Read, SendFails
  <2>11. CASE PubInfoProc
    BY <2>11 DEF PubInfoProc
  <2>12. CASE CycleAgain
    BY <2>12 DEF CycleAgain
  <2>13. CASE YieldReturns
    BY <2>13 DEF YieldReturns
  <2> QED BY <1>4, <2>1, <2>2, <2>3, <2>4, <2>5, <2>6, <2>7, <2>8, <2>9,
      <2>10, <2>11, <2>12, <2>13 DEF Yield
<1>5. CASE LvglThread
  <2>1. CASE PublishStart
    BY <2>1 DEF PublishStart
  <2>2. CASE PublishCheck
    BY <2>2 DEF PublishCheck
  <2>3. CASE PublishLock
    BY <2>3 DEF PublishLock, TakeWriteBuf
  <2>4. CASE PublishSend
    BY <2>4 DEF PublishSend, DropWriteBuf, SendSucceeds, SendFails
  <2>5. CASE PublishFailed
    BY <2>5 DEF PublishFailed
  <2>6. CASE PublishFreed
    BY <2>6 DEF PublishFreed, InPublish
  <2> QED BY <1>5, <2>1, <2>2, <2>3, <2>4, <2>5, <2>6 DEF LvglThread
<1>6. CASE NetChange
  BY <1>6 DEF NetChange
<1>7. CASE MemoryChange
  BY <1>7 DEF MemoryChange
<1>8. CASE TimerExpires
  BY <1>8 DEF TimerExpires
<1>9. CASE Spin \/ UNCHANGED vars
  BY <1>9 DEF Spin, vars
<1> QED BY <1>1, <1>2, <1>3, <1>4, <1>5, <1>6, <1>7, <1>8, <1>9 DEF Next, MqttThread

(* Every variable keeps its type: in particular client_state only ever     *)
(* holds the five states this build uses.                                  *)
THEOREM TypeCorrect == Spec => []TypeOK
<1>1. Init => TypeOK
  <2>1. Init => acked \in BOOLEAN /\ alive \in BOOLEAN /\ g_mqtt_client \in BOOLEAN
    BY Zenon DEF Init
  <2> QED
    BY <2>1, IntervalAssumption
    DEF Init, TypeOK, ClientStates, Pcs, BuildPcs, PubPcs
<1> QED BY <1>1, TypeStep, PTL DEF Spec
-----------------------------------------------------------------------------
(* The session behind CONNECTED, and no dial over a socket.                *)
(* Every step of either thread keeps SessionInv: the session behind        *)
(* CONNECTED, and no dial over a socket.                                   *)
LEMMA SessionInvStep == TypeOK /\ SessionInv /\ [Next]_vars => SessionInv'
<1> SUFFICES ASSUME TypeOK, SessionInv, [Next]_vars PROVE SessionInv'
  OBVIOUS
<1> USE DEF SessionInv, Untold, Acknowledged, ConnectedHasSession, Released, HandleInv,
        NoSocketLeak, TypeOK, worldVars, socketVars, objectVars, timerVars, lockVars, callVars
<1>1. CASE WriteBufLocked
  BY <1>1 DEF WriteBufLocked, TakeWriteBuf
<1>2. CASE Boot
  <2>1. CASE Construct
    BY <2>1 DEF Construct
  <2>2. CASE Dial
    BY <2>2 DEF Dial, Establish
  <2>3. CASE ConnectSend
    BY <2>3 DEF ConnectSend, DropWriteBuf, SendSucceeds, SendFails,
       Disconnect, ConnectFailed, NextInterval, LesserOf
  <2>4. CASE ConnackAccepted
    BY <2>4 DEF ConnackAccepted
  <2>5. CASE ConnackRejected
    BY <2>5 DEF ConnackRejected, Disconnect, ConnectFailed, NextInterval,
       LesserOf
  <2>6. CASE ConnackMissing
    BY <2>6 DEF ConnackMissing, Disconnect
  <2>7. CASE Redial
    BY <2>7 DEF Redial, Establish, ConnectFailed, NextInterval, LesserOf
  <2>8. CASE Accepted
    BY <2>8 DEF Accepted
  <2>9. CASE Report
    BY <2>9 DEF Report, SendSucceeds, SendFails
  <2>10. CASE Register
    BY <2>10 DEF Register
  <2>11. CASE Subscribe
    BY <2>11 DEF Subscribe
  <2>12. CASE SubscribeSend
    BY <2>12 DEF SubscribeSend, DropWriteBuf, SendSucceeds, SendFails
  <2> QED BY <1>2, <2>1, <2>2, <2>3, <2>4, <2>5, <2>6, <2>7, <2>8, <2>9,
      <2>10, <2>11, <2>12 DEF Boot
<1>3. CASE Release
  <2>1. CASE Teardown
    BY <2>1 DEF Teardown
  <2>2. CASE TeardownSend
    BY <2>2 DEF TeardownSend, DropWriteBuf
  <2>3. CASE TeardownClose
    BY <2>3 DEF TeardownClose, Disconnect
  <2>4. CASE TeardownState
    BY <2>4 DEF TeardownState
  <2>5. CASE TeardownFree
    BY <2>5 DEF TeardownFree
  <2>6. CASE TeardownClear
    BY <2>6 DEF TeardownClear
  <2> QED BY <1>3, <2>1, <2>2, <2>3, <2>4, <2>5, <2>6 DEF Release
<1>4. CASE Yield
  <2>1. CASE KeepaliveIdle
    BY <2>1 DEF KeepaliveIdle
  <2>2. CASE KeepalivePing
    BY <2>2 DEF KeepalivePing, PingDue
  <2>3. CASE PingSend
    BY <2>3 DEF PingSend, DropWriteBuf, SendSucceeds, SendFails
  <2>4. CASE KeepaliveState
    BY <2>4 DEF KeepaliveState
  <2>5. CASE DropSocket
    BY <2>5 DEF DropSocket, Disconnect
  <2>6. CASE SetReconnecting
    BY <2>6 DEF SetReconnecting
  <2>7. CASE AttemptReconnect
    BY <2>7 DEF AttemptReconnect, Disconnect
  <2>8. CASE Reconnected
    BY <2>8 DEF Reconnected
  <2>9. CASE Cycle
    BY <2>9 DEF Cycle
  <2>10. CASE Read
    BY <2>10 DEF Read, SendFails
  <2>11. CASE PubInfoProc
    BY <2>11 DEF PubInfoProc
  <2>12. CASE CycleAgain
    BY <2>12 DEF CycleAgain
  <2>13. CASE YieldReturns
    BY <2>13 DEF YieldReturns
  <2> QED BY <1>4, <2>1, <2>2, <2>3, <2>4, <2>5, <2>6, <2>7, <2>8, <2>9,
      <2>10, <2>11, <2>12, <2>13 DEF Yield
<1>5. CASE LvglThread
  <2>1. CASE PublishStart
    BY <2>1 DEF PublishStart
  <2>2. CASE PublishCheck
    BY <2>2 DEF PublishCheck
  <2>3. CASE PublishLock
    BY <2>3 DEF PublishLock, TakeWriteBuf
  <2>4. CASE PublishSend
    BY <2>4 DEF PublishSend, DropWriteBuf, SendSucceeds, SendFails
  <2>5. CASE PublishFailed
    BY <2>5 DEF PublishFailed
  <2>6. CASE PublishFreed
    BY <2>6 DEF PublishFreed, InPublish
  <2> QED BY <1>5, <2>1, <2>2, <2>3, <2>4, <2>5, <2>6 DEF LvglThread
<1>6. CASE NetChange
  BY <1>6 DEF NetChange
<1>7. CASE MemoryChange
  BY <1>7 DEF MemoryChange
<1>8. CASE TimerExpires
  BY <1>8 DEF TimerExpires
<1>9. CASE Spin \/ UNCHANGED vars
  BY <1>9 DEF Spin, vars
<1> QED BY <1>1, <1>2, <1>3, <1>4, <1>5, <1>6, <1>7, <1>8, <1>9 DEF Next, MqttThread

(* SessionInv is an invariant of the client.                               *)
LEMMA SessionInvHolds == Spec => []SessionInv
<1>1. Init => SessionInv
  BY DEF Init, SessionInv, Untold, Acknowledged, ConnectedHasSession, HandleInv,
        NoSocketLeak
<1> QED BY <1>1, SessionInvStep, TypeCorrect, PTL DEF Spec
-----------------------------------------------------------------------------
(* The unanswered pings.                                                   *)
(* Every step keeps the bound on the unanswered pings: a ping is decided   *)
(* only after the test in iotx_mc_cycle.                                   *)
LEMMA ProbesInvStep == TypeOK /\ ProbesInv /\ [Next]_vars => ProbesInv'
<1> SUFFICES ASSUME TypeOK, ProbesInv, [Next]_vars PROVE ProbesInv'
  OBVIOUS
<1> USE ProbeMaxAssumption DEF ProbesInv, ProbesBounded, TypeOK,
        worldVars, socketVars, objectVars, timerVars, lockVars, callVars
<1>1. CASE WriteBufLocked
  BY <1>1 DEF WriteBufLocked, TakeWriteBuf
<1>2. CASE Boot
  <2>1. CASE Construct
    BY <2>1 DEF Construct
  <2>2. CASE Dial
    BY <2>2 DEF Dial, Establish
  <2>3. CASE ConnectSend
    BY <2>3 DEF ConnectSend, DropWriteBuf, SendSucceeds, SendFails,
       Disconnect, ConnectFailed, NextInterval, LesserOf
  <2>4. CASE ConnackAccepted
    BY <2>4 DEF ConnackAccepted
  <2>5. CASE ConnackRejected
    BY <2>5 DEF ConnackRejected, Disconnect, ConnectFailed, NextInterval,
       LesserOf
  <2>6. CASE ConnackMissing
    BY <2>6 DEF ConnackMissing, Disconnect
  <2>7. CASE Redial
    BY <2>7 DEF Redial, Establish, ConnectFailed, NextInterval, LesserOf
  <2>8. CASE Accepted
    BY <2>8 DEF Accepted
  <2>9. CASE Report
    BY <2>9 DEF Report, SendSucceeds, SendFails
  <2>10. CASE Register
    BY <2>10 DEF Register
  <2>11. CASE Subscribe
    BY <2>11 DEF Subscribe
  <2>12. CASE SubscribeSend
    BY <2>12 DEF SubscribeSend, DropWriteBuf, SendSucceeds, SendFails
  <2> QED BY <1>2, <2>1, <2>2, <2>3, <2>4, <2>5, <2>6, <2>7, <2>8, <2>9,
      <2>10, <2>11, <2>12 DEF Boot
<1>3. CASE Release
  <2>1. CASE Teardown
    BY <2>1 DEF Teardown
  <2>2. CASE TeardownSend
    BY <2>2 DEF TeardownSend, DropWriteBuf
  <2>3. CASE TeardownClose
    BY <2>3 DEF TeardownClose, Disconnect
  <2>4. CASE TeardownState
    BY <2>4 DEF TeardownState
  <2>5. CASE TeardownFree
    BY <2>5 DEF TeardownFree
  <2>6. CASE TeardownClear
    BY <2>6 DEF TeardownClear
  <2> QED BY <1>3, <2>1, <2>2, <2>3, <2>4, <2>5, <2>6 DEF Release
<1>4. CASE Yield
  <2>1. CASE KeepaliveIdle
    BY <2>1 DEF KeepaliveIdle
  <2>2. CASE KeepalivePing
    BY <2>2 DEF KeepalivePing, PingDue
  <2>3. CASE PingSend
    BY <2>3 DEF PingSend, DropWriteBuf, SendSucceeds, SendFails
  <2>4. CASE KeepaliveState
    BY <2>4 DEF KeepaliveState
  <2>5. CASE DropSocket
    BY <2>5 DEF DropSocket, Disconnect
  <2>6. CASE SetReconnecting
    BY <2>6 DEF SetReconnecting
  <2>7. CASE AttemptReconnect
    BY <2>7 DEF AttemptReconnect, Disconnect
  <2>8. CASE Reconnected
    BY <2>8 DEF Reconnected
  <2>9. CASE Cycle
    BY <2>9 DEF Cycle
  <2>10. CASE Read
    BY <2>10 DEF Read, SendFails
  <2>11. CASE PubInfoProc
    BY <2>11 DEF PubInfoProc
  <2>12. CASE CycleAgain
    BY <2>12 DEF CycleAgain
  <2>13. CASE YieldReturns
    BY <2>13 DEF YieldReturns
  <2> QED BY <1>4, <2>1, <2>2, <2>3, <2>4, <2>5, <2>6, <2>7, <2>8, <2>9,
      <2>10, <2>11, <2>12, <2>13 DEF Yield
<1>5. CASE LvglThread
  <2>1. CASE PublishStart
    BY <2>1 DEF PublishStart
  <2>2. CASE PublishCheck
    BY <2>2 DEF PublishCheck
  <2>3. CASE PublishLock
    BY <2>3 DEF PublishLock, TakeWriteBuf
  <2>4. CASE PublishSend
    BY <2>4 DEF PublishSend, DropWriteBuf, SendSucceeds, SendFails
  <2>5. CASE PublishFailed
    BY <2>5 DEF PublishFailed
  <2>6. CASE PublishFreed
    BY <2>6 DEF PublishFreed, InPublish
  <2> QED BY <1>5, <2>1, <2>2, <2>3, <2>4, <2>5, <2>6 DEF LvglThread
<1>6. CASE NetChange
  BY <1>6 DEF NetChange
<1>7. CASE MemoryChange
  BY <1>7 DEF MemoryChange
<1>8. CASE TimerExpires
  BY <1>8 DEF TimerExpires
<1>9. CASE Spin \/ UNCHANGED vars
  BY <1>9 DEF Spin, vars
<1> QED BY <1>1, <1>2, <1>3, <1>4, <1>5, <1>6, <1>7, <1>8, <1>9 DEF Next, MqttThread

(* ProbesInv is an invariant of the client.                                *)
LEMMA ProbesInvHolds == Spec => []ProbesInv
<1>1. Init => ProbesInv
  BY ProbeMaxAssumption DEF Init, ProbesInv, ProbesBounded
<1> QED BY <1>1, ProbesInvStep, TypeCorrect, PTL DEF Spec
-----------------------------------------------------------------------------
(* The back-off.                                                           *)
(* The reconnect timers are only changed by a failed connect, a dropped    *)
(* socket, a reconnect that succeeds, and the clock.                       *)
LEMMA TimerSteps ==
  ASSUME [Next]_vars
  PROVE  \/ UNCHANGED timerVars
         \/ ConnectSend \/ ConnackRejected \/ Redial
         \/ KeepaliveState \/ Reconnected \/ TimerExpires
  BY DEF Next, WriteBufLocked, Boot, Release, Yield, LvglThread, MqttThread,
     Spin, Construct, Dial, ConnackAccepted, ConnackMissing, Accepted,
     Report, Register, Subscribe, SubscribeSend, Teardown, TeardownSend,
     TeardownClose, TeardownState, TeardownFree, TeardownClear,
     KeepaliveIdle, KeepalivePing, PingSend, DropSocket, SetReconnecting,
     AttemptReconnect, Cycle, Read, PubInfoProc, CycleAgain, YieldReturns,
     PublishStart, PublishCheck, PublishLock, PublishSend, PublishFailed,
     PublishFreed, NetChange, MemoryChange, timerVars, vars

(* Every step keeps the interval and the armed wait within their bounds.   *)
LEMMA BackoffStepInv == TypeOK /\ BackoffBounded /\ [Next]_vars => BackoffBounded'
<1> SUFFICES ASSUME TypeOK, BackoffBounded, [Next]_vars PROVE BackoffBounded'
  OBVIOUS
<1> USE IntervalAssumption, BackoffStep DEF BackoffBounded, TypeOK, timerVars
<1>1. CASE UNCHANGED timerVars
  BY <1>1
<1>2. ASSUME ConnectFailed PROVE BackoffBounded'
  BY <1>2 DEF ConnectFailed
<1>3. CASE ConnectSend
  BY <1>1, <1>2, <1>3 DEF ConnectSend
<1>4. CASE ConnackRejected
  BY <1>2, <1>4 DEF ConnackRejected
<1>5. CASE Redial
  BY <1>1, <1>2, <1>5 DEF Redial
<1>6. CASE KeepaliveState
  BY <1>6 DEF KeepaliveState
<1>7. CASE Reconnected
  BY <1>7 DEF Reconnected
<1>8. CASE TimerExpires
  BY <1>8 DEF TimerExpires
<1> QED BY <1>1, <1>3, <1>4, <1>5, <1>6, <1>7, <1>8, TimerSteps

(* The doubling overshoots the maximum, no armed wait does.                *)
THEOREM BackoffIsBounded == Spec => []BackoffBounded
<1>1. Init => BackoffBounded
  BY IntervalAssumption DEF Init, BackoffBounded
<1> QED BY <1>1, BackoffStepInv, TypeCorrect, PTL DEF Spec
-----------------------------------------------------------------------------
(* The mutexes.                                                            *)
(* Every step of either thread keeps the account of the two mutexes.       *)
LEMMA LocksInvStep == TypeOK /\ LocksInv /\ [Next]_vars => LocksInv'
<1> SUFFICES ASSUME TypeOK, LocksInv, [Next]_vars PROVE LocksInv'
  OBVIOUS
<1> USE DEF LocksInv, TypeOK,
        worldVars, socketVars, objectVars, timerVars, lockVars, callVars
<1>1. CASE WriteBufLocked
  BY <1>1 DEF WriteBufLocked, TakeWriteBuf
<1>2. CASE Boot
  <2>1. CASE Construct
    BY <2>1 DEF Construct
  <2>2. CASE Dial
    BY <2>2 DEF Dial, Establish
  <2>3. CASE ConnectSend
    BY <2>3 DEF ConnectSend, DropWriteBuf, SendSucceeds, SendFails,
       Disconnect, ConnectFailed, NextInterval, LesserOf
  <2>4. CASE ConnackAccepted
    BY <2>4 DEF ConnackAccepted
  <2>5. CASE ConnackRejected
    BY <2>5 DEF ConnackRejected, Disconnect, ConnectFailed, NextInterval,
       LesserOf
  <2>6. CASE ConnackMissing
    BY <2>6 DEF ConnackMissing, Disconnect
  <2>7. CASE Redial
    BY <2>7 DEF Redial, Establish, ConnectFailed, NextInterval, LesserOf
  <2>8. CASE Accepted
    BY <2>8 DEF Accepted
  <2>9. CASE Report
    BY <2>9 DEF Report, SendSucceeds, SendFails
  <2>10. CASE Register
    BY <2>10 DEF Register
  <2>11. CASE Subscribe
    BY <2>11 DEF Subscribe
  <2>12. CASE SubscribeSend
    BY <2>12 DEF SubscribeSend, DropWriteBuf, SendSucceeds, SendFails
  <2> QED BY <1>2, <2>1, <2>2, <2>3, <2>4, <2>5, <2>6, <2>7, <2>8, <2>9,
      <2>10, <2>11, <2>12 DEF Boot
<1>3. CASE Release
  <2>1. CASE Teardown
    BY <2>1 DEF Teardown
  <2>2. CASE TeardownSend
    BY <2>2 DEF TeardownSend, DropWriteBuf
  <2>3. CASE TeardownClose
    BY <2>3 DEF TeardownClose, Disconnect
  <2>4. CASE TeardownState
    BY <2>4 DEF TeardownState
  <2>5. CASE TeardownFree
    BY <2>5 DEF TeardownFree
  <2>6. CASE TeardownClear
    BY <2>6 DEF TeardownClear
  <2> QED BY <1>3, <2>1, <2>2, <2>3, <2>4, <2>5, <2>6 DEF Release
<1>4. CASE Yield
  <2>1. CASE KeepaliveIdle
    BY <2>1 DEF KeepaliveIdle
  <2>2. CASE KeepalivePing
    BY <2>2 DEF KeepalivePing, PingDue
  <2>3. CASE PingSend
    BY <2>3 DEF PingSend, DropWriteBuf, SendSucceeds, SendFails
  <2>4. CASE KeepaliveState
    BY <2>4 DEF KeepaliveState
  <2>5. CASE DropSocket
    BY <2>5 DEF DropSocket, Disconnect
  <2>6. CASE SetReconnecting
    BY <2>6 DEF SetReconnecting
  <2>7. CASE AttemptReconnect
    BY <2>7 DEF AttemptReconnect, Disconnect
  <2>8. CASE Reconnected
    BY <2>8 DEF Reconnected
  <2>9. CASE Cycle
    BY <2>9 DEF Cycle
  <2>10. CASE Read
    BY <2>10 DEF Read, SendFails
  <2>11. CASE PubInfoProc
    BY <2>11 DEF PubInfoProc
  <2>12. CASE CycleAgain
    BY <2>12 DEF CycleAgain
  <2>13. CASE YieldReturns
    BY <2>13 DEF YieldReturns
  <2> QED BY <1>4, <2>1, <2>2, <2>3, <2>4, <2>5, <2>6, <2>7, <2>8, <2>9,
      <2>10, <2>11, <2>12, <2>13 DEF Yield
<1>5. CASE LvglThread
  <2>1. CASE PublishStart
    BY <2>1 DEF PublishStart
  <2>2. CASE PublishCheck
    BY <2>2 DEF PublishCheck
  <2>3. CASE PublishLock
    BY <2>3 DEF PublishLock, TakeWriteBuf
  <2>4. CASE PublishSend
    BY <2>4 DEF PublishSend, DropWriteBuf, SendSucceeds, SendFails
  <2>5. CASE PublishFailed
    BY <2>5 DEF PublishFailed
  <2>6. CASE PublishFreed
    BY <2>6 DEF PublishFreed, InPublish
  <2> QED BY <1>5, <2>1, <2>2, <2>3, <2>4, <2>5, <2>6 DEF LvglThread
<1>6. CASE NetChange
  BY <1>6 DEF NetChange
<1>7. CASE MemoryChange
  BY <1>7 DEF MemoryChange
<1>8. CASE TimerExpires
  BY <1>8 DEF TimerExpires
<1>9. CASE Spin \/ UNCHANGED vars
  BY <1>9 DEF Spin, vars
<1> QED BY <1>1, <1>2, <1>3, <1>4, <1>5, <1>6, <1>7, <1>8, <1>9 DEF Next, MqttThread

(* LocksInv is an invariant of the client.                                 *)
LEMMA LocksInvHolds == Spec => []LocksInv
<1>1. Init => LocksInv
  BY DEF Init, LocksInv
<1> QED BY <1>1, LocksInvStep, TypeCorrect, PTL DEF Spec
-----------------------------------------------------------------------------
(* The life of the client object.                                          *)
(* Every step keeps the object live from the first dial to its release,    *)
(* and the global set from the registration to the end of the release.     *)
LEMMA KeptInvStep == TypeOK /\ KeptInv /\ [Next]_vars => KeptInv'
<1> SUFFICES ASSUME TypeOK, KeptInv, [Next]_vars PROVE KeptInv'
  OBVIOUS
<1> USE DEF KeptInv, Told, TypeOK, DialPcs, YieldPcs,
        worldVars, socketVars, objectVars, timerVars, lockVars, callVars
<1>1. CASE WriteBufLocked
  BY <1>1 DEF WriteBufLocked, TakeWriteBuf
<1>2. CASE Boot
  <2>1. CASE Construct
    BY <2>1 DEF Construct
  <2>2. CASE Dial
    BY <2>2 DEF Dial, Establish
  <2>3. CASE ConnectSend
    BY <2>3 DEF ConnectSend, DropWriteBuf, SendSucceeds, SendFails,
       Disconnect, ConnectFailed, NextInterval, LesserOf
  <2>4. CASE ConnackAccepted
    BY <2>4 DEF ConnackAccepted
  <2>5. CASE ConnackRejected
    BY <2>5 DEF ConnackRejected, Disconnect, ConnectFailed, NextInterval,
       LesserOf
  <2>6. CASE ConnackMissing
    BY <2>6 DEF ConnackMissing, Disconnect
  <2>7. CASE Redial
    BY <2>7 DEF Redial, Establish, ConnectFailed, NextInterval, LesserOf
  <2>8. CASE Accepted
    BY <2>8 DEF Accepted
  <2>9. CASE Report
    BY <2>9 DEF Report, SendSucceeds, SendFails
  <2>10. CASE Register
    BY <2>10 DEF Register
  <2>11. CASE Subscribe
    BY <2>11 DEF Subscribe
  <2>12. CASE SubscribeSend
    BY <2>12 DEF SubscribeSend, DropWriteBuf, SendSucceeds, SendFails
  <2> QED BY <1>2, <2>1, <2>2, <2>3, <2>4, <2>5, <2>6, <2>7, <2>8, <2>9,
      <2>10, <2>11, <2>12 DEF Boot
<1>3. CASE Release
  <2>1. CASE Teardown
    BY <2>1 DEF Teardown
  <2>2. CASE TeardownSend
    BY <2>2 DEF TeardownSend, DropWriteBuf
  <2>3. CASE TeardownClose
    BY <2>3 DEF TeardownClose, Disconnect
  <2>4. CASE TeardownState
    BY <2>4 DEF TeardownState
  <2>5. CASE TeardownFree
    BY <2>5 DEF TeardownFree
  <2>6. CASE TeardownClear
    BY <2>6 DEF TeardownClear
  <2> QED BY <1>3, <2>1, <2>2, <2>3, <2>4, <2>5, <2>6 DEF Release
<1>4. CASE Yield
  <2>1. CASE KeepaliveIdle
    BY <2>1 DEF KeepaliveIdle
  <2>2. CASE KeepalivePing
    BY <2>2 DEF KeepalivePing, PingDue
  <2>3. CASE PingSend
    BY <2>3 DEF PingSend, DropWriteBuf, SendSucceeds, SendFails
  <2>4. CASE KeepaliveState
    BY <2>4 DEF KeepaliveState
  <2>5. CASE DropSocket
    BY <2>5 DEF DropSocket, Disconnect
  <2>6. CASE SetReconnecting
    BY <2>6 DEF SetReconnecting
  <2>7. CASE AttemptReconnect
    BY <2>7 DEF AttemptReconnect, Disconnect
  <2>8. CASE Reconnected
    BY <2>8 DEF Reconnected
  <2>9. CASE Cycle
    BY <2>9 DEF Cycle
  <2>10. CASE Read
    BY <2>10 DEF Read, SendFails
  <2>11. CASE PubInfoProc
    BY <2>11 DEF PubInfoProc
  <2>12. CASE CycleAgain
    BY <2>12 DEF CycleAgain
  <2>13. CASE YieldReturns
    BY <2>13 DEF YieldReturns
  <2> QED BY <1>4, <2>1, <2>2, <2>3, <2>4, <2>5, <2>6, <2>7, <2>8, <2>9,
      <2>10, <2>11, <2>12, <2>13 DEF Yield
<1>5. CASE LvglThread
  <2>1. CASE PublishStart
    BY <2>1 DEF PublishStart
  <2>2. CASE PublishCheck
    BY <2>2 DEF PublishCheck
  <2>3. CASE PublishLock
    BY <2>3 DEF PublishLock, TakeWriteBuf
  <2>4. CASE PublishSend
    BY <2>4 DEF PublishSend, DropWriteBuf, SendSucceeds, SendFails
  <2>5. CASE PublishFailed
    BY <2>5 DEF PublishFailed
  <2>6. CASE PublishFreed
    BY <2>6 DEF PublishFreed, InPublish
  <2> QED BY <1>5, <2>1, <2>2, <2>3, <2>4, <2>5, <2>6 DEF LvglThread
<1>6. CASE NetChange
  BY <1>6 DEF NetChange
<1>7. CASE MemoryChange
  BY <1>7 DEF MemoryChange
<1>8. CASE TimerExpires
  BY <1>8 DEF TimerExpires
<1>9. CASE Spin \/ UNCHANGED vars
  BY <1>9 DEF Spin, vars
<1> QED BY <1>1, <1>2, <1>3, <1>4, <1>5, <1>6, <1>7, <1>8, <1>9 DEF Next, MqttThread

(* KeptInv is an invariant of the client.                                  *)
LEMMA KeptInvHolds == Spec => []KeptInv
<1>1. Init => KeptInv
  BY DEF Init, KeptInv, Told, DialPcs, YieldPcs
<1> QED BY <1>1, KeptInvStep, TypeCorrect, PTL DEF Spec
-----------------------------------------------------------------------------
(* The properties the runs check, for every value of the constants.        *)

(* A publisher that reads CONNECTED has a session behind it.               *)
THEOREM SessionBehindConnected == Spec => []ConnectedHasSession
<1>1. SessionInv => ConnectedHasSession
  BY DEF SessionInv
<1> QED BY <1>1, SessionInvHolds, PTL

(* No socket is lost by dialling over it.                                  *)
THEOREM NoSocketIsLost == Spec => []NoSocketLeak
<1>1. SessionInv => NoSocketLeak
  BY DEF SessionInv, HandleInv
<1> QED BY <1>1, SessionInvHolds, PTL

(* No more than ProbeMax + 1 pings go unanswered.                          *)
THEOREM ProbesAreBounded == Spec => []ProbesBounded
<1>1. ProbesInv => ProbesBounded
  BY DEF ProbesInv
<1> QED BY <1>1, ProbesInvHolds, PTL

(* No return path of a publish or of a packet keeps a mutex.               *)
THEOREM LocksAreMatched == Spec => []LocksMatch
<1>1. LocksInv => LocksMatch
  BY DEF LocksInv, LocksMatch
<1> QED BY <1>1, LocksInvHolds, PTL

(* A client that is served stays allocated and registered, and in a state  *)
(* that iotx_mc_keepalive can leave, whatever fails: a publish can meet a  *)
(* freed client only while the boot gives up a subscription (mqtt_api.c:   *)
(* 642), and the global dangles at that one place only.                    *)
THEOREM ServedClientLives == Spec => []ServedClientIsKept
<1>1. TypeOK /\ KeptInv => ServedClientIsKept
  BY DEF KeptInv, Told, ServedClientIsKept, TypeOK, YieldPcs, DialPcs
<1> QED BY <1>1, KeptInvHolds, TypeCorrect, PTL

-----------------------------------------------------------------------------
(* The boot is short.                                                      *)

(* How many places mqtt_main_thread can still come to before it serves or  *)
(* gives up: four for each try that is left, then the way down.            *)
Places ==
  [clear |-> 1, free |-> 2, invalidate |-> 3, initialize |-> 4, close |-> 5,
   teardownSend |-> 6, teardownLock |-> 7, teardown |-> 8,
   subscribeSend |-> 9, subscribeLock |-> 10, subscribe |-> 11,
   register |-> 12, report |-> 13, accepted |-> 14,
   redial |-> 15, connack |-> 16, connectSend |-> 17, connectLock |-> 18,
   dial |-> 19, construct |-> 20]

Trying == {"connectLock", "connectSend", "connack", "redial"}

TriesLeft(p, t) ==
  IF p \in {"construct", "dial"} THEN ConnectTries - 1
  ELSE IF p \in Trying THEN ConnectTries - t ELSE 0

Work(p, t) ==
  IF p \in DOMAIN Places THEN Places[p] + 4 * TriesLeft(p, t) ELSE 0

BootWork == Work(pc, try_count)

Booting == caller = "construct" /\ pc \notin YieldPcs

(* The places of the boot in their order.                                  *)
BootGraph ==
  \/ pc = "construct" /\ pc' \in {"dial", "spin"}
  \/ pc = "dial" /\ pc' = "connectLock" /\ try_count' = 1
  \/ /\ UNCHANGED try_count
     /\ \/ pc = "connectLock" /\ pc' = "connectSend"
        \/ pc = "connectSend" /\ pc' \in {"connack", "teardown"}
        \/ pc = "connack" /\ pc' \in {"accepted", "redial", "teardown"}
  \/ pc = "redial" /\ pc' = "teardown"
  \/ /\ pc = "redial" /\ pc' = "connectLock"
     /\ try_count < ConnectTries /\ try_count' = try_count + 1
  \/ pc = "accepted"      /\ pc' = "report"
  \/ pc = "report"        /\ pc' = "register"
  \/ pc = "register"      /\ pc' = "subscribe"
  \/ pc = "subscribe"     /\ pc' \in {"subscribeLock", "teardown"}
  \/ pc = "subscribeLock" /\ pc' = "subscribeSend"
  \/ pc = "subscribeSend" /\ pc' \in {"ping", "teardown"}
  \/ pc = "teardown"      /\ pc' \in {"teardownLock", "close"}
  \/ pc = "teardownLock"  /\ pc' = "teardownSend"
  \/ pc = "teardownSend"  /\ pc' = "close"
  \/ pc = "close"         /\ pc' = "initialize"
  \/ pc = "initialize"    /\ pc' = "invalidate"
  \/ pc = "invalidate"    /\ pc' = "free"
  \/ pc = "free"          /\ pc' = "clear"
  \/ pc = "clear"         /\ pc' = "spin"

(* A step moves the boot along BootGraph, or leaves it where it is.        *)
LEMMA BootSteps ==
  ASSUME TypeOK, KeptInv, [Next]_vars
  PROVE  /\ caller' = "construct" => caller = "construct"
         /\ pc' = pc => UNCHANGED try_count
         /\ pc \in YieldPcs => pc' \in YieldPcs \/ caller' = "reconnect"
         /\ Booting /\ pc' # pc => BootGraph
<1> USE DEF KeptInv, TypeOK, DialPcs, YieldPcs, Booting, BootGraph,
        worldVars, socketVars, objectVars, timerVars, lockVars, callVars
<1>1. CASE WriteBufLocked
  BY <1>1 DEF WriteBufLocked, TakeWriteBuf
<1>2. CASE Boot
  <2>1. CASE Construct
    BY <2>1 DEF Construct
  <2>2. CASE Dial
    BY <2>2 DEF Dial, Establish
  <2>3. CASE ConnectSend
    BY <2>3 DEF ConnectSend, DropWriteBuf, SendSucceeds, SendFails,
       Disconnect, ConnectFailed, NextInterval, LesserOf
  <2>4. CASE ConnackAccepted
    BY <2>4 DEF ConnackAccepted
  <2>5. CASE ConnackRejected
    BY <2>5 DEF ConnackRejected, Disconnect, ConnectFailed, NextInterval,
       LesserOf
  <2>6. CASE ConnackMissing
    BY <2>6 DEF ConnackMissing, Disconnect
  <2>7. CASE Redial
    BY <2>7 DEF Redial, Establish, ConnectFailed, NextInterval, LesserOf
  <2>8. CASE Accepted
    BY <2>8 DEF Accepted
  <2>9. CASE Report
    BY <2>9 DEF Report, SendSucceeds, SendFails
  <2>10. CASE Register
    BY <2>10 DEF Register
  <2>11. CASE Subscribe
    BY <2>11 DEF Subscribe
  <2>12. CASE SubscribeSend
    BY <2>12 DEF SubscribeSend, DropWriteBuf, SendSucceeds, SendFails
  <2> QED BY <1>2, <2>1, <2>2, <2>3, <2>4, <2>5, <2>6, <2>7, <2>8, <2>9,
      <2>10, <2>11, <2>12 DEF Boot
<1>3. CASE Release
  <2>1. CASE Teardown
    BY <2>1 DEF Teardown
  <2>2. CASE TeardownSend
    BY <2>2 DEF TeardownSend, DropWriteBuf
  <2>3. CASE TeardownClose
    BY <2>3 DEF TeardownClose, Disconnect
  <2>4. CASE TeardownState
    BY <2>4 DEF TeardownState
  <2>5. CASE TeardownFree
    BY <2>5 DEF TeardownFree
  <2>6. CASE TeardownClear
    BY <2>6 DEF TeardownClear
  <2> QED BY <1>3, <2>1, <2>2, <2>3, <2>4, <2>5, <2>6 DEF Release
<1>4. CASE Yield
  <2>1. CASE KeepaliveIdle
    BY <2>1 DEF KeepaliveIdle
  <2>2. CASE KeepalivePing
    BY <2>2 DEF KeepalivePing, PingDue
  <2>3. CASE PingSend
    BY <2>3 DEF PingSend, DropWriteBuf, SendSucceeds, SendFails
  <2>4. CASE KeepaliveState
    BY <2>4 DEF KeepaliveState
  <2>5. CASE DropSocket
    BY <2>5 DEF DropSocket, Disconnect
  <2>6. CASE SetReconnecting
    BY <2>6 DEF SetReconnecting
  <2>7. CASE AttemptReconnect
    BY <2>7 DEF AttemptReconnect, Disconnect
  <2>8. CASE Reconnected
    BY <2>8 DEF Reconnected
  <2>9. CASE Cycle
    BY <2>9 DEF Cycle
  <2>10. CASE Read
    BY <2>10 DEF Read, SendFails
  <2>11. CASE PubInfoProc
    BY <2>11 DEF PubInfoProc
  <2>12. CASE CycleAgain
    BY <2>12 DEF CycleAgain
  <2>13. CASE YieldReturns
    BY <2>13 DEF YieldReturns
  <2> QED BY <1>4, <2>1, <2>2, <2>3, <2>4, <2>5, <2>6, <2>7, <2>8, <2>9,
      <2>10, <2>11, <2>12, <2>13 DEF Yield
<1>5. CASE LvglThread
  <2>1. CASE PublishStart
    BY <2>1 DEF PublishStart
  <2>2. CASE PublishCheck
    BY <2>2 DEF PublishCheck
  <2>3. CASE PublishLock
    BY <2>3 DEF PublishLock, TakeWriteBuf
  <2>4. CASE PublishSend
    BY <2>4 DEF PublishSend, DropWriteBuf, SendSucceeds, SendFails
  <2>5. CASE PublishFailed
    BY <2>5 DEF PublishFailed
  <2>6. CASE PublishFreed
    BY <2>6 DEF PublishFreed, InPublish
  <2> QED BY <1>5, <2>1, <2>2, <2>3, <2>4, <2>5, <2>6 DEF LvglThread
<1>6. CASE NetChange
  BY <1>6 DEF NetChange
<1>7. CASE MemoryChange
  BY <1>7 DEF MemoryChange
<1>8. CASE TimerExpires
  BY <1>8 DEF TimerExpires
<1>9. CASE Spin \/ UNCHANGED vars
  BY <1>9 DEF Spin, vars
<1> QED BY <1>1, <1>2, <1>3, <1>4, <1>5, <1>6, <1>7, <1>8, <1>9 DEF Next, MqttThread

(* The work of each place.                                                 *)
LEMMA WorkAt ==
  ASSUME NEW t \in Nat
  PROVE  /\ \A p \in DOMAIN Places \ (Trying \cup {"construct", "dial"}) :
              Work(p, t) = Places[p]
         /\ Work("construct", t) = 20 + 4 * (ConnectTries - 1)
         /\ Work("dial", t) = 19 + 4 * (ConnectTries - 1)
         /\ \A p \in Trying : Work(p, t) = Places[p] + 4 * (ConnectTries - t)
         /\ Work("ping", t) = 0 /\ Work("spin", t) = 0
BY ConnectTriesAssumption DEF Work, TriesLeft, Places, Trying

(* No more tries are made than ConnectTries.                               *)
TriesInv ==
  caller = "construct" /\ pc \in Trying => try_count \in 1 .. ConnectTries

LEMMA TriesInvHolds == Spec => []TriesInv
<1>1. Init => TriesInv
  BY DEF Init, TriesInv, Trying
<1>2. TypeOK /\ KeptInv /\ TriesInv /\ [Next]_vars => TriesInv'
  <2> SUFFICES ASSUME TypeOK, KeptInv, TriesInv, [Next]_vars,
                      caller' = "construct", pc' \in Trying
               PROVE  try_count' \in 1 .. ConnectTries
    BY DEF TriesInv
  <2>1. caller = "construct" /\ pc \notin YieldPcs
    BY BootSteps DEF YieldPcs, Trying
  <2>2. CASE pc' = pc
    BY <2>1, <2>2, BootSteps DEF TriesInv
  <2>3. CASE pc' # pc
    <3>1. BootGraph
      BY <2>1, <2>3, BootSteps DEF Booting
    <3> QED
      BY <2>1, <3>1, ConnectTriesAssumption DEF BootGraph, TriesInv, Trying
  <2> QED
    BY <2>2, <2>3
<1> QED
  BY <1>1, <1>2, TypeCorrect, KeptInvHolds, PTL DEF Spec

(* What is left of the boot shrinks with each of its steps: whatever the   *)
(* network and the heap do, mqtt_main_thread comes to at most              *)
(* 4 * ConnectTries + 16 places before it serves or gives up, and to none  *)
(* twice with the same try (iotx_mqtt_client.c:763).                       *)
THEOREM BootIsShort ==
  Spec => [][Booting /\ pc' # pc => BootWork' \in 0 .. BootWork - 1]_vars
<1>1. ASSUME TypeOK, KeptInv, TriesInv, [Next]_vars, Booting, pc' # pc
      PROVE  BootWork' \in 0 .. BootWork - 1
  <2>1. BootGraph
    BY <1>1, BootSteps
  <2>2. try_count \in Nat /\ try_count' \in Nat
    BY <1>1, TypeStep DEF TypeOK
  <2> QED
    BY <1>1, <2>1, <2>2, WorkAt, ConnectTriesAssumption
       DEF BootGraph, BootWork, TriesInv, Trying, Places, Booting
<1> QED
  BY <1>1, TypeCorrect, KeptInvHolds, TriesInvHolds, PTL DEF Spec

-----------------------------------------------------------------------------
(* MqttClient implements MqttLink.                                         *)

(* Every step of the client is a step of MqttLink or changes nothing that  *)
(* MqttLink shows.                                                         *)
LEMMA LinkStep == TypeOK /\ SessionInv /\ [Next]_vars => [Link!Next]_(Link!vars)
<1> SUFFICES ASSUME TypeOK, SessionInv, [Next]_vars
             PROVE  Link!Next \/ UNCHANGED Link!vars
  OBVIOUS
<1> USE DEF Link!Next, Link!Open, Link!Close, Link!Tell, Link!Untell, Link!Serve,
        Link!GiveUp, Link!vars, Phase, SessionInv, Untold, Acknowledged,
        HandleInv, NoSocketLeak, ConnectedHasSession, Released, TypeOK, DialPcs,
        TeardownPcs, YieldPcs, worldVars, socketVars, objectVars, timerVars,
        lockVars, callVars
<1>1. CASE WriteBufLocked
  BY <1>1 DEF WriteBufLocked, TakeWriteBuf
<1>2. CASE Boot
  <2>1. CASE Construct
    BY <2>1 DEF Construct
  <2>2. CASE Dial
    BY <2>2 DEF Dial, Establish
  <2>3. CASE ConnectSend
    BY <2>3 DEF ConnectSend, DropWriteBuf, SendSucceeds, SendFails,
       Disconnect, ConnectFailed, NextInterval, LesserOf
  <2>4. CASE ConnackAccepted
    BY <2>4 DEF ConnackAccepted
  <2>5. CASE ConnackRejected
    BY <2>5 DEF ConnackRejected, Disconnect, ConnectFailed, NextInterval,
       LesserOf
  <2>6. CASE ConnackMissing
    BY <2>6 DEF ConnackMissing, Disconnect
  <2>7. CASE Redial
    BY <2>7 DEF Redial, Establish, ConnectFailed, NextInterval, LesserOf
  <2>8. CASE Accepted
    BY <2>8 DEF Accepted
  <2>9. CASE Report
    BY <2>9 DEF Report, SendSucceeds, SendFails
  <2>10. CASE Register
    BY <2>10 DEF Register
  <2>11. CASE Subscribe
    BY <2>11 DEF Subscribe
  <2>12. CASE SubscribeSend
    BY <2>12 DEF SubscribeSend, DropWriteBuf, SendSucceeds, SendFails
  <2> QED BY <1>2, <2>1, <2>2, <2>3, <2>4, <2>5, <2>6, <2>7, <2>8, <2>9,
      <2>10, <2>11, <2>12 DEF Boot
<1>3. CASE Release
  <2>1. CASE Teardown
    BY <2>1 DEF Teardown
  <2>2. CASE TeardownSend
    BY <2>2 DEF TeardownSend, DropWriteBuf
  <2>3. CASE TeardownClose
    BY <2>3 DEF TeardownClose, Disconnect
  <2>4. CASE TeardownState
    BY <2>4 DEF TeardownState
  <2>5. CASE TeardownFree
    BY <2>5 DEF TeardownFree
  <2>6. CASE TeardownClear
    BY <2>6 DEF TeardownClear
  <2> QED BY <1>3, <2>1, <2>2, <2>3, <2>4, <2>5, <2>6 DEF Release
<1>4. CASE Yield
  <2>1. CASE KeepaliveIdle
    BY <2>1 DEF KeepaliveIdle
  <2>2. CASE KeepalivePing
    BY <2>2 DEF KeepalivePing, PingDue
  <2>3. CASE PingSend
    BY <2>3 DEF PingSend, DropWriteBuf, SendSucceeds, SendFails
  <2>4. CASE KeepaliveState
    BY <2>4 DEF KeepaliveState
  <2>5. CASE DropSocket
    BY <2>5 DEF DropSocket, Disconnect
  <2>6. CASE SetReconnecting
    BY <2>6 DEF SetReconnecting
  <2>7. CASE AttemptReconnect
    BY <2>7 DEF AttemptReconnect, Disconnect
  <2>8. CASE Reconnected
    BY <2>8 DEF Reconnected
  <2>9. CASE Cycle
    BY <2>9 DEF Cycle
  <2>10. CASE Read
    BY <2>10 DEF Read, SendFails
  <2>11. CASE PubInfoProc
    BY <2>11 DEF PubInfoProc
  <2>12. CASE CycleAgain
    BY <2>12 DEF CycleAgain
  <2>13. CASE YieldReturns
    BY <2>13 DEF YieldReturns
  <2> QED BY <1>4, <2>1, <2>2, <2>3, <2>4, <2>5, <2>6, <2>7, <2>8, <2>9,
      <2>10, <2>11, <2>12, <2>13 DEF Yield
<1>5. CASE LvglThread
  <2>1. CASE PublishStart
    BY <2>1 DEF PublishStart
  <2>2. CASE PublishCheck
    BY <2>2 DEF PublishCheck
  <2>3. CASE PublishLock
    BY <2>3 DEF PublishLock, TakeWriteBuf
  <2>4. CASE PublishSend
    BY <2>4 DEF PublishSend, DropWriteBuf, SendSucceeds, SendFails
  <2>5. CASE PublishFailed
    BY <2>5 DEF PublishFailed
  <2>6. CASE PublishFreed
    BY <2>6 DEF PublishFreed, InPublish
  <2> QED BY <1>5, <2>1, <2>2, <2>3, <2>4, <2>5, <2>6 DEF LvglThread
<1>6. CASE NetChange
  BY <1>6 DEF NetChange
<1>7. CASE MemoryChange
  BY <1>7 DEF MemoryChange
<1>8. CASE TimerExpires
  BY <1>8 DEF TimerExpires
<1>9. CASE Spin \/ UNCHANGED vars
  BY <1>9 DEF Spin, vars
<1> QED BY <1>1, <1>2, <1>3, <1>4, <1>5, <1>6, <1>7, <1>8, <1>9 DEF Next, MqttThread

(* What the publisher is told is what MqttLink promises it.                *)
THEOREM ImplementsLink == Spec => KeepsPromise
<1>1. Init => Link!Init
  BY DEF Init, Link!Init, Phase, TeardownPcs, YieldPcs
<1> QED BY <1>1, LinkStep, TypeCorrect, SessionInvHolds, PTL
        DEF Spec, KeepsPromise, Link!Spec
=============================================================================

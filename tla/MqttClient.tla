----------------------------- MODULE MqttClient -----------------------------
(***************************************************************************)
(* The MQTT client (ali-iotkit, iotx_mqtt_client.c) as this terminal uses  *)
(* it: two threads share one client object.                                *)
(*                                                                         *)
(*   mqtt_main_thread  builds the client, subscribes, then calls           *)
(*                     IOT_MQTT_Yield(pclient, 200) for ever: keepalive,   *)
(*                     reconnect, then cycles that read packets.           *)
(*   lvgl (the main    publishes the sensor values from timer2_callback,   *)
(*   thread)           through the global g_mqtt_client.                   *)
(*                                                                         *)
(* A step is what a thread does between two accesses to state the other    *)
(* thread can see.  lock_generic only brackets one read or one write, so   *)
(* each such access is a step; lock_yield and lock_read_buf are only ever  *)
(* taken by mqtt_main_thread and cannot be contended.  Time is abstracted: *)
(* a timer that runs is a value that a step of the clock sets to zero.     *)
(***************************************************************************)
EXTENDS Integers

CONSTANTS
  ConnectTries,  (* CONNECTs one _mqtt_connect sends: RETRY_TIME_LIMIT - 1 *)
  ProbeMax,      (* IOTX_MC_KEEPALIVE_PROBE_MAX                            *)
  IntervalMin,   (* IOTX_MC_RECONNECT_INTERVAL_MIN_MS                      *)
  IntervalMax    (* IOTX_MC_RECONNECT_INTERVAL_MAX_MS                      *)

ASSUME ConnectTriesAssumption == ConnectTries \in Nat \ {0}
ASSUME ProbeMaxAssumption == ProbeMax \in Nat
ASSUME IntervalAssumption ==
  /\ IntervalMin \in Nat \ {0}
  /\ IntervalMax \in Nat
  /\ IntervalMin <= IntervalMax

VARIABLES
  net,           (* the way to the broker: "up", "refusing" or "down"      *)
  memory,        (* the heap of the board can give a packet its buffer     *)
  handle,        (* ipstack.handle: -1 "closed", 0 "zero", a socket "open" *)
  acked,         (* the broker accepted a CONNECT on this socket           *)
  alive,         (* bytes still reach the broker through this socket       *)
  heap,          (* the client object: "none", "live", "freed"             *)
  g_mqtt_client, (* the global handle: TRUE when not NULL                  *)
  client_state,  (* iotx_mc_state_t                                        *)
  keepalive_probes,
  interval,      (* reconnect_param.reconnect_time_interval_ms             *)
  wait,          (* time left to reconnect_param.reconnect_next_time       *)
  lock_list_pub, (* holder of the mutex, or "free"                         *)
  lock_write_buf,
  caller,        (* who called wrapper_mqtt_connect                        *)
  try_count,     (* of _mqtt_connect                                       *)
  pc,            (* where mqtt_main_thread is                              *)
  pub            (* where the publish of the lvgl thread is                *)

worldVars  == <<net, memory>>
socketVars == <<handle, acked, alive>>
lockVars   == <<lock_list_pub, lock_write_buf>>
timerVars  == <<interval, wait>>
objectVars == <<heap, g_mqtt_client>>
callVars   == <<caller, try_count>>
vars == <<worldVars, socketVars, objectVars, client_state, keepalive_probes,
          timerVars, lockVars, callVars, pc, pub>>

ClientStates == {"INVALID", "INITIALIZED", "CONNECTED", "DISCONNECTED",
                 "DISCONNECTED_RECONNECTING"}

(* mqtt_main_thread: IOT_MQTT_Construct, its connect, the subscription,    *)
(* the teardown, and the two halves of wrapper_mqtt_yield.                 *)
DialPcs     == {"dial", "connectLock", "connectSend", "connack", "redial",
                "accepted", "reconnected"}
BuildPcs    == {"construct", "report", "register", "subscribe",
                "subscribeLock", "subscribeSend"}
TeardownPcs == {"teardown", "teardownLock", "teardownSend", "close",
                "initialize", "invalidate", "free", "clear"}
YieldPcs    == {"ping", "pingLock", "pingSend", "keepalive", "drop",
                "reconnecting", "attempt", "cycle", "read", "pubinfo",
                "again"}
Pcs == DialPcs \cup BuildPcs \cup TeardownPcs \cup YieldPcs \cup {"spin"}

(* A publish of the lvgl thread: wrapper_mqtt_publish and MQTTPublish.     *)
PubPcs == {"idle", "check", "list", "write", "send", "failed", "undefined"}

LesserOf(a, b) == IF a <= b THEN a ELSE b

TypeOK ==
  /\ net \in {"up", "refusing", "down"}
  /\ memory \in BOOLEAN
  /\ handle \in {"closed", "zero", "open"}
  /\ acked \in BOOLEAN
  /\ alive \in BOOLEAN
  /\ heap \in {"none", "live", "freed"}
  /\ g_mqtt_client \in BOOLEAN
  /\ client_state \in ClientStates
  /\ keepalive_probes \in Nat
  /\ interval \in Nat
  /\ wait \in Nat
  /\ lock_list_pub \in {"free", "lvgl"}
  /\ lock_write_buf \in {"free", "lvgl", "mqtt"}
  /\ caller \in {"construct", "reconnect"}
  /\ try_count \in Nat
  /\ pc \in Pcs
  /\ pub \in PubPcs

Init ==
  /\ net \in {"up", "refusing", "down"}
  /\ memory \in BOOLEAN
  /\ handle = "zero"            \* iotx_net_init
  /\ acked = FALSE
  /\ alive = FALSE
  /\ heap = "none"
  /\ g_mqtt_client = FALSE
  /\ client_state = "INVALID"
  /\ keepalive_probes = 0
  /\ interval = IntervalMin
  /\ wait = 0
  /\ lock_list_pub = "free"
  /\ lock_write_buf = "free"
  /\ caller = "construct"
  /\ try_count = 1
  /\ pc = "construct"
  /\ pub = "idle"

-----------------------------------------------------------------------------
(* The ipstack.                                                            *)

(* HAL_TCP_Establish returns a socket, or 0 when it fails; connect_tcp     *)
(* stores either and reports success, because it only tests for -1.        *)
Establish ==
  /\ handle' \in CASE net = "up"       -> {"open"}
                   [] net = "refusing" -> {"open", "zero"}
                   [] net = "down"     -> {"zero"}
  /\ acked' = FALSE
  /\ alive' = (handle' = "open")

Disconnect ==
  /\ handle' = "closed"
  /\ acked' = FALSE
  /\ alive' = FALSE

(* iotx_mc_send_packet: a dead socket may still take the bytes.            *)
SendSucceeds == handle = "open"
SendFails    == handle # "open" \/ ~alive

-----------------------------------------------------------------------------
(* Locks.                                                                  *)

TakeWriteBuf(t) == lock_write_buf = "free" /\ lock_write_buf' = t
(* Bug: the early return of a failed send forgets the mutex.               *)
DropWriteBuf_OnlyWhenSent ==
  lock_write_buf' = IF SendSucceeds THEN "free" ELSE lock_write_buf
DropWriteBuf    == lock_write_buf' = "free"

(* mqtt_main_thread has decided to send a packet and waits for the buffer. *)
WriteBufLocked ==
  /\ TakeWriteBuf("mqtt")
  /\ \/ pc = "connectLock"   /\ pc' = "connectSend"
     \/ pc = "subscribeLock" /\ pc' = "subscribeSend"
     \/ pc = "teardownLock"  /\ pc' = "teardownSend"
     \/ pc = "pingLock"      /\ pc' = "pingSend"
  /\ UNCHANGED <<worldVars, socketVars, objectVars, client_state,
                 keepalive_probes, timerVars, lock_list_pub, callVars, pub>>

-----------------------------------------------------------------------------
(* IOT_MQTT_Construct and mqtt_main_init.                                  *)

(* wrapper_mqtt_init, iotx_mc_init: the object is INITIALIZED, or there is *)
(* no memory and mqtt_main_init gives up with pclient NULL.                *)
Construct ==
  /\ pc = "construct"
  /\ \/ /\ memory
        /\ heap' = "live"
        /\ client_state' = "INITIALIZED"
        /\ pc' = "dial"
     \/ /\ ~memory
        /\ pc' = "spin"
        /\ UNCHANGED <<heap, client_state>>
  /\ UNCHANGED <<worldVars, socketVars, g_mqtt_client, keepalive_probes,
                 timerVars, lockVars, callVars, pub>>

(* wrapper_mqtt_connect: one call of ipstack.connect, whatever it yields.  *)
Dial ==
  /\ pc = "dial"
  /\ Establish
  /\ try_count' = 1
  /\ pc' = "connectLock"
  /\ UNCHANGED <<worldVars, objectVars, client_state, keepalive_probes,
                 timerVars, lockVars, caller, pub>>

(* iotx_mc_handle_reconnect after a failed attempt: the next interval.     *)
NextInterval ==
  IF interval < IntervalMax THEN 2 * interval ELSE IntervalMax

(* Bug: the interval is armed as it is, without the maximum.               *)
ConnectFailed_Unclipped ==
  \/ caller = "construct" /\ pc' = "teardown" /\ UNCHANGED timerVars
  \/ /\ caller = "reconnect"
     /\ pc' = "cycle"
     /\ interval' = NextInterval
     /\ wait' = NextInterval

(* Bug: a reconnect that fails releases the client, as the first one does. *)
ConnectFailed_Releases == pc' = "teardown" /\ UNCHANGED timerVars

(* wrapper_mqtt_connect returns an error: IOT_MQTT_Construct releases the  *)
(* client, iotx_mc_handle_reconnect backs off.                             *)
ConnectFailed ==
  \/ /\ caller = "construct"
     /\ pc' = "teardown"
     /\ UNCHANGED timerVars
  \/ /\ caller = "reconnect"
     /\ pc' = "cycle"
     /\ interval' = NextInterval
     /\ wait' = LesserOf(NextInterval, IntervalMax)

(* MQTTConnect: the packet is built and sent under lock_write_buf.         *)
ConnectSend ==
  /\ pc = "connectSend"
  /\ DropWriteBuf
  /\ \/ /\ SendSucceeds /\ memory
        /\ pc' = "connack"
        /\ UNCHANGED <<socketVars, timerVars>>
     \/ /\ SendFails \/ ~memory
        /\ Disconnect
        /\ ConnectFailed
  /\ UNCHANGED <<worldVars, objectVars, client_state, keepalive_probes,
                 lock_list_pub, callVars, pub>>

(* iotx_mc_wait_CONNACK: accepted, rejected, or no packet was read.  "up"  *)
(* says that the broker answers within the request timeout.                *)
ConnackAccepted ==
  /\ pc = "connack"
  /\ net = "up" /\ handle = "open" /\ alive /\ memory
  /\ acked' = TRUE
  /\ pc' = "accepted"
  /\ UNCHANGED <<worldVars, handle, alive, objectVars, client_state,
                 keepalive_probes, timerVars, lockVars, callVars, pub>>

ConnackRejected ==
  /\ pc = "connack"
  /\ net = "refusing" /\ alive /\ memory
  /\ Disconnect
  /\ ConnectFailed
  /\ UNCHANGED <<worldVars, objectVars, client_state, keepalive_probes,
                 lockVars, callVars, pub>>

(* Bug: no answer is taken for an acceptance.                              *)
ConnackMissing_Ignored ==
  /\ pc = "connack"
  /\ net # "up" \/ ~alive \/ ~memory
  /\ pc' = "accepted"
  /\ UNCHANGED <<worldVars, socketVars, objectVars, client_state,
                 keepalive_probes, timerVars, lockVars, callVars, pub>>

ConnackMissing ==
  /\ pc = "connack"
  /\ net # "up" \/ ~alive \/ ~memory
  /\ Disconnect
  /\ pc' = "redial"
  /\ UNCHANGED <<worldVars, objectVars, client_state, keepalive_probes,
                 timerVars, lockVars, callVars, pub>>

(* Bug: every try starts the count anew.                                   *)
Redial_LosesCount ==
  /\ pc = "redial"
  /\ Establish
  /\ try_count' = 1
  /\ pc' = "connectLock"
  /\ UNCHANGED <<worldVars, objectVars, client_state, keepalive_probes,
                 timerVars, lockVars, caller, pub>>

(* The loop of _mqtt_connect: connect the socket again, then the next try. *)
(* The last one leaves the new socket open and returns an error.           *)
Redial ==
  /\ pc = "redial"
  /\ Establish
  /\ try_count' = try_count + 1
  /\ \/ /\ try_count < ConnectTries
        /\ pc' = "connectLock"
        /\ UNCHANGED timerVars
     \/ /\ try_count >= ConnectTries
        /\ ConnectFailed
  /\ UNCHANGED <<worldVars, objectVars, client_state, keepalive_probes,
                 lockVars, caller, pub>>

(* The end of _mqtt_connect: the session is up.                            *)
Accepted ==
  /\ pc = "accepted"
  /\ keepalive_probes' = 0
  /\ client_state' = "CONNECTED"
  /\ pc' = IF caller = "construct" THEN "report" ELSE "reconnected"
  /\ UNCHANGED <<worldVars, socketVars, objectVars, timerVars, lockVars,
                 callVars, pub>>

(* iotx_mqtt_report_funcs: publishes while no other thread has the handle. *)
Report ==
  /\ pc = "report"
  /\ \/ SendSucceeds /\ memory /\ UNCHANGED client_state
     \/ ~memory /\ UNCHANGED client_state
     \/ SendFails /\ memory /\ client_state' = "DISCONNECTED"
  /\ pc' = "register"
  /\ UNCHANGED <<worldVars, socketVars, objectVars, keepalive_probes,
                 timerVars, lockVars, callVars, pub>>

Register ==
  /\ pc = "register"
  /\ g_mqtt_client' = TRUE
  /\ pc' = "subscribe"
  /\ UNCHANGED <<worldVars, socketVars, heap, client_state, keepalive_probes,
                 timerVars, lockVars, callVars, pub>>

(* mqtt_main_subscribe, wrapper_mqtt_subscribe: the state is not CONNECTED *)
(* or an allocation fails, or the packet is to be sent.                    *)
Subscribe ==
  /\ pc = "subscribe"
  /\ \/ /\ client_state # "CONNECTED" \/ ~memory
        /\ pc' = "teardown"
     \/ /\ client_state = "CONNECTED"
        /\ pc' = "subscribeLock"
  /\ UNCHANGED <<worldVars, socketVars, objectVars, client_state,
                 keepalive_probes, timerVars, lockVars, callVars, pub>>

SubscribeSend ==
  /\ pc = "subscribeSend"
  /\ DropWriteBuf
  /\ \/ /\ SendSucceeds /\ memory
        /\ pc' = "ping"
        /\ UNCHANGED client_state
     \/ /\ ~memory
        /\ pc' = "teardown"
        /\ UNCHANGED client_state
     \/ /\ SendFails /\ memory
        /\ client_state' = "DISCONNECTED"
        /\ pc' = "teardown"
  /\ UNCHANGED <<worldVars, socketVars, objectVars, keepalive_probes,
                 timerVars, lock_list_pub, callVars, pub>>

-----------------------------------------------------------------------------
(* wrapper_mqtt_release, from IOT_MQTT_Destroy (the subscription failed)   *)
(* or from IOT_MQTT_Construct (the connection failed).                     *)

(* iotx_mc_disconnect: a DISCONNECT packet, only if the state is CONNECTED *)
Teardown ==
  /\ pc = "teardown"
  /\ pc' = IF client_state = "CONNECTED" THEN "teardownLock" ELSE "close"
  /\ UNCHANGED <<worldVars, socketVars, objectVars, client_state,
                 keepalive_probes, timerVars, lockVars, callVars, pub>>

TeardownSend ==
  /\ pc = "teardownSend"
  /\ DropWriteBuf
  /\ pc' = "close"
  /\ UNCHANGED <<worldVars, socketVars, objectVars, client_state,
                 keepalive_probes, timerVars, lock_list_pub, callVars, pub>>

TeardownClose ==
  /\ pc = "close"
  /\ Disconnect
  /\ pc' = "initialize"
  /\ UNCHANGED <<worldVars, objectVars, client_state, keepalive_probes,
                 timerVars, lockVars, callVars, pub>>

(* The two states the teardown passes through.                             *)
TeardownState ==
  /\ \/ /\ pc = "initialize"
        /\ client_state' = "INITIALIZED"
        /\ pc' = "invalidate"
     \/ /\ pc = "invalidate"
        /\ client_state' = "INVALID"
        /\ pc' = "free"
  /\ UNCHANGED <<worldVars, socketVars, objectVars, keepalive_probes,
                 timerVars, lockVars, callVars, pub>>

(* The mutexes are destroyed and the object freed, whoever is using them.  *)
TeardownFree ==
  /\ pc = "free"
  /\ heap' = "freed"
  /\ pc' = "clear"
  /\ UNCHANGED <<worldVars, socketVars, g_mqtt_client, client_state,
                 keepalive_probes, timerVars, lockVars, callVars, pub>>

(* IOT_MQTT_Destroy clears the global only now.                            *)
TeardownClear ==
  /\ pc = "clear"
  /\ g_mqtt_client' = FALSE
  /\ pc' = "spin"
  /\ UNCHANGED <<worldVars, socketVars, heap, client_state, keepalive_probes,
                 timerVars, lockVars, callVars, pub>>

(* mqtt_main with pclient NULL: IOT_MQTT_Yield returns at once, for ever.  *)
Spin == pc = "spin" /\ UNCHANGED vars

-----------------------------------------------------------------------------
(* wrapper_mqtt_yield: iotx_mc_keepalive, then _mqtt_cycle.                *)

(* iotx_mc_keepalive_sub.  The ping timer runs for seconds and a read      *)
(* polls every 10 ms: on a live socket the last ping has been answered, if *)
(* there was a buffer to read the answer into.                             *)
PingDue ==
  client_state = "CONNECTED" /\ (alive /\ memory => keepalive_probes = 0)

KeepaliveIdle ==
  /\ pc = "ping"
  /\ pc' = "keepalive"
  /\ UNCHANGED <<worldVars, socketVars, objectVars, client_state,
                 keepalive_probes, timerVars, lockVars, callVars, pub>>

KeepalivePing ==
  /\ pc = "ping"
  /\ PingDue
  /\ pc' = "pingLock"
  /\ UNCHANGED <<worldVars, socketVars, objectVars, client_state,
                 keepalive_probes, timerVars, lockVars, callVars, pub>>

PingSend ==
  /\ pc = "pingSend"
  /\ DropWriteBuf
  /\ \/ /\ SendSucceeds /\ memory
        /\ keepalive_probes' = keepalive_probes + 1
        /\ UNCHANGED client_state
     \/ /\ ~memory
        /\ UNCHANGED <<client_state, keepalive_probes>>
     \/ /\ SendFails /\ memory
        /\ client_state' = "DISCONNECTED"
        /\ UNCHANGED keepalive_probes
  /\ pc' = "keepalive"
  /\ UNCHANGED <<worldVars, socketVars, objectVars, timerVars, lock_list_pub,
                 callVars, pub>>

(* The rest of iotx_mc_keepalive, on the state it has just read.           *)
KeepaliveState ==
  /\ pc = "keepalive"
  /\ \/ /\ client_state = "DISCONNECTED_RECONNECTING"
        /\ pc' = IF wait = 0 THEN "attempt" ELSE "cycle"
        /\ UNCHANGED timerVars
     \/ /\ client_state = "DISCONNECTED"
        /\ interval' = IntervalMin
        /\ wait' = IntervalMin
        /\ pc' = "drop"
     \/ /\ client_state \notin {"DISCONNECTED", "DISCONNECTED_RECONNECTING"}
        /\ pc' = "cycle"
        /\ UNCHANGED timerVars
  /\ UNCHANGED <<worldVars, socketVars, objectVars, client_state,
                 keepalive_probes, lockVars, callVars, pub>>

DropSocket ==
  /\ pc = "drop"
  /\ Disconnect
  /\ pc' = "reconnecting"
  /\ UNCHANGED <<worldVars, objectVars, client_state, keepalive_probes,
                 timerVars, lockVars, callVars, pub>>

(* Bug: the wrong member of iotx_mc_state_t.                               *)
SetReconnecting_Block ==
  /\ pc = "reconnecting"
  /\ client_state' = "CONNECT_BLOCK"
  /\ pc' = "cycle"
  /\ UNCHANGED <<worldVars, socketVars, objectVars, keepalive_probes,
                 timerVars, lockVars, callVars, pub>>

SetReconnecting ==
  /\ pc = "reconnecting"
  /\ client_state' = "DISCONNECTED_RECONNECTING"
  /\ pc' = "cycle"
  /\ UNCHANGED <<worldVars, socketVars, objectVars, keepalive_probes,
                 timerVars, lockVars, callVars, pub>>

(* Bug: the socket of the last attempt is not closed.                      *)
AttemptReconnect_KeepsSocket ==
  /\ pc = "attempt"
  /\ caller' = "reconnect"
  /\ pc' = "dial"
  /\ UNCHANGED <<worldVars, socketVars, objectVars, client_state,
                 keepalive_probes, timerVars, lockVars, try_count, pub>>

(* iotx_mc_attempt_reconnect closes the socket before it connects again.   *)
AttemptReconnect ==
  /\ pc = "attempt"
  /\ Disconnect
  /\ caller' = "reconnect"
  /\ pc' = "dial"
  /\ UNCHANGED <<worldVars, objectVars, client_state, keepalive_probes,
                 timerVars, lockVars, try_count, pub>>

(* iotx_mc_handle_reconnect sets CONNECTED a second time.                  *)
Reconnected ==
  /\ pc = "reconnected"
  /\ client_state' = "CONNECTED"
  /\ interval' = IntervalMin
  /\ pc' = "cycle"
  /\ UNCHANGED <<worldVars, socketVars, objectVars, keepalive_probes, wait,
                 lockVars, callVars, pub>>

(* Bug: one probe more is waited for.                                      *)
Cycle_OneMoreProbe ==
  /\ pc = "cycle"
  /\ pc' = IF client_state = "CONNECTED" THEN "read" ELSE "again"
  /\ IF client_state = "CONNECTED" /\ keepalive_probes > ProbeMax + 1
     THEN client_state' = "DISCONNECTED" /\ keepalive_probes' = 0
     ELSE UNCHANGED <<client_state, keepalive_probes>>
  /\ UNCHANGED <<worldVars, socketVars, objectVars, timerVars, lockVars,
                 callVars, pub>>

(* Bug: the count is cleared, the state is not.                            *)
Cycle_StaysConnected ==
  /\ pc = "cycle"
  /\ pc' = IF client_state = "CONNECTED" THEN "read" ELSE "again"
  /\ keepalive_probes' =
       IF client_state = "CONNECTED" /\ keepalive_probes > ProbeMax
       THEN 0 ELSE keepalive_probes
  /\ UNCHANGED <<worldVars, socketVars, objectVars, client_state, timerVars,
                 lockVars, callVars, pub>>

(* iotx_mc_cycle up to the read.                                           *)
Cycle ==
  /\ pc = "cycle"
  /\ \/ /\ client_state # "CONNECTED"
        /\ pc' = "again"
        /\ UNCHANGED <<client_state, keepalive_probes>>
     \/ /\ client_state = "CONNECTED"
        /\ pc' = "read"
        /\ IF keepalive_probes > ProbeMax
           THEN client_state' = "DISCONNECTED" /\ keepalive_probes' = 0
           ELSE UNCHANGED <<client_state, keepalive_probes>>
  /\ UNCHANGED <<worldVars, socketVars, objectVars, timerVars, lockVars,
                 callVars, pub>>

(* iotx_mc_read_packet: no buffer, an error of the socket, nothing within  *)
(* the time, or a packet whose handler succeeds or not.                    *)
Read ==
  /\ pc = "read"
  /\ \/ /\ ~memory
        /\ pc' = "again"
        /\ UNCHANGED <<client_state, keepalive_probes>>
     \/ /\ SendFails /\ memory
        /\ client_state' = "DISCONNECTED"
        /\ pc' = "again"
        /\ UNCHANGED keepalive_probes
     \/ /\ handle = "open" /\ memory
        /\ pc' = "pubinfo"
        /\ UNCHANGED <<client_state, keepalive_probes>>
     \/ /\ handle = "open" /\ alive /\ memory
        /\ keepalive_probes' = 0
        /\ pc' \in {"pubinfo", "again"}
        /\ UNCHANGED client_state
  /\ UNCHANGED <<worldVars, socketVars, objectVars, timerVars, lockVars,
                 callVars, pub>>

(* MQTTPubInfoProc: the list is empty, every publish here has QoS 0.       *)
PubInfoProc ==
  /\ pc = "pubinfo"
  /\ lock_list_pub = "free"
  /\ pc' = "again"
  /\ UNCHANGED <<worldVars, socketVars, objectVars, client_state,
                 keepalive_probes, timerVars, lockVars, callVars, pub>>

(* _mqtt_cycle loops until the timeout of this yield is over.              *)
CycleAgain ==
  /\ pc = "again"
  /\ pc' = "cycle"
  /\ UNCHANGED <<worldVars, socketVars, objectVars, client_state,
                 keepalive_probes, timerVars, lockVars, callVars, pub>>

YieldReturns ==
  /\ pc = "again"
  /\ pc' = "ping"
  /\ UNCHANGED <<worldVars, socketVars, objectVars, client_state,
                 keepalive_probes, timerVars, lockVars, callVars, pub>>

-----------------------------------------------------------------------------
(* The lvgl thread: mqtt_main_publish through IOT_MQTT_Publish_Simple.     *)

InPublish == pub \in {"check", "list", "write", "send", "failed"}

PublishStart ==
  /\ pub = "idle"
  /\ g_mqtt_client
  /\ pub' = "check"
  /\ UNCHANGED <<worldVars, socketVars, objectVars, client_state,
                 keepalive_probes, timerVars, lockVars, callVars, pc>>

(* wrapper_mqtt_publish: the state is read once, then never again.         *)
PublishCheck ==
  /\ pub = "check" /\ heap = "live"
  /\ pub' = IF client_state = "CONNECTED" THEN "list" ELSE "idle"
  /\ UNCHANGED <<worldVars, socketVars, objectVars, client_state,
                 keepalive_probes, timerVars, lockVars, callVars, pc>>

(* MQTTPublish takes lock_list_pub, then lock_write_buf.                   *)
PublishLock ==
  /\ heap = "live"
  /\ \/ /\ pub = "list"
        /\ lock_list_pub = "free"
        /\ lock_list_pub' = "lvgl"
        /\ pub' = "write"
        /\ UNCHANGED lock_write_buf
     \/ /\ pub = "write"
        /\ TakeWriteBuf("lvgl")
        /\ pub' = "send"
        /\ UNCHANGED lock_list_pub
  /\ UNCHANGED <<worldVars, socketVars, objectVars, client_state,
                 keepalive_probes, timerVars, callVars, pc>>

(* The packet goes out on whatever socket the handle holds by now; a       *)
(* broker that gets it before a CONNECT closes the connection.  Without a  *)
(* buffer the publish fails, but is no MQTT_NETWORK_ERROR.                 *)
PublishSend ==
  /\ pub = "send" /\ heap = "live"
  /\ DropWriteBuf
  /\ lock_list_pub' = "free"
  /\ \/ /\ SendSucceeds /\ memory
        /\ pub' = "idle"
        /\ alive' \in {alive, alive /\ acked}
     \/ /\ ~memory
        /\ pub' = "idle"
        /\ UNCHANGED alive
     \/ /\ SendFails /\ memory
        /\ pub' = "failed"
        /\ UNCHANGED alive
  /\ UNCHANGED <<worldVars, handle, acked, objectVars, client_state,
                 keepalive_probes, timerVars, callVars, pc>>

(* After MQTT_NETWORK_ERROR, with no lock held any more.                   *)
PublishFailed ==
  /\ pub = "failed" /\ heap = "live"
  /\ client_state' = "DISCONNECTED"
  /\ pub' = "idle"
  /\ UNCHANGED <<worldVars, socketVars, objectVars, keepalive_probes,
                 timerVars, lockVars, callVars, pc>>

(* The client was freed under the publish: anything may follow.            *)
PublishFreed ==
  /\ InPublish /\ heap = "freed"
  /\ pub' = "undefined"
  /\ UNCHANGED <<worldVars, socketVars, objectVars, client_state,
                 keepalive_probes, timerVars, lockVars, callVars, pc>>

-----------------------------------------------------------------------------
(* The world outside: the network, the broker, the clock.                  *)

(* Losing the way to the broker kills the connection that used it.         *)
NetChange ==
  /\ net' \in {"up", "refusing", "down"} \ {net}
  /\ alive' = (alive /\ net' = "up")
  /\ UNCHANGED <<memory, handle, acked, objectVars, client_state,
                 keepalive_probes, timerVars, lockVars, callVars, pc, pub>>

(* The other users of the heap take it all, or give some back.             *)
MemoryChange ==
  /\ memory' = ~memory
  /\ UNCHANGED <<net, socketVars, objectVars, client_state, keepalive_probes,
                 timerVars, lockVars, callVars, pc, pub>>

TimerExpires ==
  /\ wait > 0
  /\ wait' = 0
  /\ UNCHANGED <<worldVars, socketVars, objectVars, client_state,
                 keepalive_probes, interval, lockVars, callVars, pc, pub>>

-----------------------------------------------------------------------------
Boot ==
  \/ Construct \/ Dial \/ ConnectSend
  \/ ConnackAccepted \/ ConnackRejected \/ ConnackMissing \/ Redial \/ Accepted
  \/ Report \/ Register \/ Subscribe \/ SubscribeSend

Release ==
  \/ Teardown \/ TeardownSend \/ TeardownClose \/ TeardownState
  \/ TeardownFree \/ TeardownClear

Yield ==
  \/ KeepaliveIdle \/ KeepalivePing \/ PingSend \/ KeepaliveState
  \/ DropSocket \/ SetReconnecting \/ AttemptReconnect \/ Reconnected
  \/ Cycle \/ Read \/ PubInfoProc \/ CycleAgain \/ YieldReturns

MqttThread == WriteBufLocked \/ Boot \/ Release \/ Yield \/ Spin

LvglThread ==
  \/ PublishStart \/ PublishCheck \/ PublishLock \/ PublishSend
  \/ PublishFailed \/ PublishFreed

Next == MqttThread \/ LvglThread \/ NetChange \/ MemoryChange \/ TimerExpires

Spec == Init /\ [][Next]_vars

(***************************************************************************)
(* Fairness.  mqtt_main_thread is ready whenever the lvgl thread sleeps or *)
(* waits, and rt_mutex_release hands a mutex to the thread that waits for  *)
(* it: neither thread is passed over for ever at a lock.  The 200 ms of a  *)
(* yield, the ping timer and the reconnect timer all run out.  Nothing is  *)
(* assumed of the network, nor that the lvgl thread ever publishes.        *)
(***************************************************************************)
Fairness ==
  /\ SF_vars(WriteBufLocked \/ Boot \/ Release \/ Yield)
  /\ SF_vars(YieldReturns)
  /\ SF_vars(KeepalivePing)
  /\ WF_vars(TimerExpires)
  /\ SF_vars(PublishCheck \/ PublishLock \/ PublishSend \/ PublishFailed
             \/ PublishFreed)

FairSpec == Spec /\ Fairness

-----------------------------------------------------------------------------
(* Properties.                                                             *)

(* After the boot, a publisher that reads CONNECTED has a session behind   *)
(* it: a socket on which the broker accepted a CONNECT.  Three places set  *)
(* client_state in two threads without seeing each other's socket calls.   *)
Released == pc \in {"initialize", "invalidate", "free", "clear", "spin"}
ConnectedHasSession ==
  (client_state = "CONNECTED" /\ ~Released) => (handle = "open" /\ acked)

(* ipstack.connect overwrites the handle: it is called only when no socket *)
(* is held, or that socket would be lost for ever.                         *)
NoSocketLeak == pc \in {"dial", "redial"} => handle # "open"

(* A session is given up after ProbeMax + 1 pings without an answer, and   *)
(* the count never runs past that, whoever else changes the state.         *)
ProbesBounded == keepalive_probes <= ProbeMax + 1

(* The doubling of the reconnect interval overshoots the maximum, the wait *)
(* that is armed from it never does.                                       *)
BackoffBounded == wait <= IntervalMax /\ interval < 2 * IntervalMax

(* The two mutexes of a publish are held exactly while it is inside them,  *)
(* on every return path; only one thread writes the send buffer.           *)
LocksMatch ==
  heap = "live" =>
    /\ (lock_list_pub = "lvgl") <=> (pub \in {"write", "send"})
    /\ (lock_write_buf = "lvgl") <=> (pub = "send")
    /\ (lock_write_buf = "mqtt") <=>
         (pc \in {"connectSend", "subscribeSend", "pingSend", "teardownSend"})

(* A client that is served is kept: no failed reconnect releases it under  *)
(* a publish, and its state is one that iotx_mc_keepalive can leave.  The  *)
(* global names a freed client at one place only: in IOT_MQTT_Destroy,     *)
(* after a subscription that failed.                                       *)
ServedClientIsKept ==
  /\ pc \in YieldPcs \/ caller = "reconnect" =>
       /\ heap = "live" /\ g_mqtt_client /\ pub # "undefined"
       /\ client_state \in {"CONNECTED", "DISCONNECTED",
                            "DISCONNECTED_RECONNECTING"}
  /\ g_mqtt_client /\ heap # "live" => pc = "clear"

(* The promise of the abstract client.  The publisher runs on a snapshot   *)
(* of client_state, and mqtt_main_thread closes and opens the socket under *)
(* it; what the publisher can read never claims a session that is gone.    *)
Phase ==
  CASE pc \in TeardownPcs \cup {"spin"} -> "over"
    [] pc \in YieldPcs \/ (caller = "reconnect" /\ pc \in DialPcs) -> "serve"
    [] OTHER -> "build"

Link == INSTANCE MqttLink WITH
  phase   <- Phase,
  told    <- client_state = "CONNECTED",
  session <- handle = "open" /\ acked

KeepsPromise == Link!Spec

(* Once the client is being served, a network that stays up ends every     *)
(* outage: the session comes back and stays, however it broke and whatever *)
(* a late publish failure wrote into client_state.                         *)
SelfHealing ==
  (<>[](net = "up" /\ memory) /\ <>(pc \in YieldPcs)) =>
    <>[](client_state = "CONNECTED" /\ handle = "open" /\ acked /\ alive)

(* A publish always comes back to the lvgl loop: the two mutexes are taken *)
(* in one order everywhere and no path keeps one.                          *)
PublishReturns == InPublish ~> ~InPublish

(* The boot of the client ends, in the yield loop or in the idle loop.     *)
BootEnds == <>(pc \in YieldPcs \cup {"spin"})

(* What README.md:45 promises: with the network there, the values reach    *)
(* the cloud.  mqtt_main_init tries once and never again.                  *)
LinkComesUp == []memory /\ <>[](net = "up") => <>(client_state = "CONNECTED")
=============================================================================

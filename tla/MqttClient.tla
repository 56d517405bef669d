----------------------------- MODULE MqttClient -----------------------------
(***************************************************************************)
(* The MQTT client: luat_mqtt_client.c and its Lua binding luat_lib_mqtt.c *)
(* over one ctrl of the network adapter.                                   *)
(*                                                                         *)
(* Three threads share a luat_mqtt_ctrl_t without a lock: the Lua thread   *)
(* (calls of the script and messages of the bus), the tcpip thread, which  *)
(* runs luat_mqtt_callback, and the timer service, which only posts to the *)
(* bus.  The first two are modelled statement by statement where the other *)
(* one can see the difference: at[t] is where thread t is, after[t] where  *)
(* it goes when luat_mqtt_close_socket returns.  Their priorities are not  *)
(* in this source, so each may interrupt the other anywhere.               *)
(*                                                                         *)
(* The ctrl is seen as the client sees it: what network_connect, _tx, _rx, *)
(* _wait_event and _force_close_socket return in each of its states.       *)
(* mqttc:autoreconn is called, if at all, before the first connect.        *)
(*                                                                         *)
(* Operators named Bug... are plausible defects of the definition after    *)
(* them; no other definition uses them.                                    *)
(***************************************************************************)
EXTENDS Integers, SequencesExt

CONSTANTS
    QUEUE_LENGTH,   \* messages the bus holds
    BUF_LEN_MAX,    \* MQTT_RECV_BUF_LEN_MAX, in halves of packets
    MaxCalls,       \* bound: calls of the script
    MaxFaults,      \* bound: failures of the network and of the broker
    MaxPackets,     \* bound: packets the broker sends after its CONNACK
    MaxPings        \* bound: expiries of the ping timer

ASSUME MqttAssumption ==
    /\ {QUEUE_LENGTH, MaxCalls, MaxFaults, MaxPackets, MaxPings} \subseteq Nat
    /\ BUF_LEN_MAX \in Nat /\ BUF_LEN_MAX >= 2

VARIABLES
    mqtt_state, reconnect,      \* of luat_mqtt_ctrl_t
    buf,            \* the first buffer_offset bytes of mqtt_packet_buffer
    ping_timer, reconnect_timer,            \* are they running
    netc,           \* the ctrl: see States of it below
    session,        \* of the broker: "none", "asked" (CONNECT sent), "up"
    rx,             \* bytes the broker has sent and the client not read
    new_rx,         \* new_rx_flag of the ctrl
    posted,         \* event the tcpip thread is about to call back with
    bus,            \* messages of this client on the message bus
    at, after,      \* thread -> where it is, where it returns to
    told,           \* the script's last conack or disconnect: "up", "down"
    calls, faults, packets, pings,          \* counters for the bounds
    blind,          \* history: no connect yet, or nothing was connecting when
                    \* SCONNECT was written
    dropped,        \* history: the bus was full for a message
    wrapped         \* history: buffer_offset went below 0

client  == <<mqtt_state, reconnect, buf>>
timers  == <<ping_timer, reconnect_timer>>
network == <<netc, session, rx, new_rx>>
line    == <<posted, packets, wrapped>>
script  == <<told, calls, pings>>
vars    == <<client, timers, network, line, script, bus, at, after, faults,
             blind, dropped>>

Threads == {"lua", "tcpip"}
MqttStates == {"DISCONNECT", "SCONNECT", "MQTT", "READY"}

\* "off" no socket and no wait, "wait" for the link or for DNS, "connecting",
\* "online", "lost" a socket that is of no use, "freed" by network_release_ctrl
NetStates == {"off", "wait", "connecting", "online", "lost", "freed"}
HasSocket == netc \in {"connecting", "online", "lost"}

Messages == {"CONNACK", "DISCONNECT", "CLOSE", "RECONNECT", "PING", "RELEASE",
             "DATA"}                    \* DATA: PUBLISH, PUBACK, PUBCOMP
Later    == {"PUBLISH", "PUBACK"}   \* packets of a session; others do nothing
Packets  == {"CONNACK", "REFUSED"} \cup Later
\* results of the ctrl; that of a sent packet (TX) only runs network_wait_event
Events   == [id : {"CONNECT", "EVENT"}, ok : BOOLEAN]
NoEvent  == [id |-> "none", ok |-> TRUE]

Init ==
    /\ mqtt_state = "DISCONNECT" /\ reconnect \in BOOLEAN /\ buf = <<>>
    /\ ping_timer = FALSE /\ reconnect_timer = FALSE
    /\ netc = "off" /\ session = "none" /\ rx = <<>> /\ new_rx = FALSE
    /\ posted = NoEvent /\ bus = <<>>
    /\ at = [t \in Threads |-> "idle"] /\ after = [t \in Threads |-> "idle"]
    /\ told = "down"
    /\ calls = 0 /\ faults = 0 /\ packets = 0 /\ pings = 0
    /\ blind = TRUE /\ dropped = FALSE /\ wrapped = FALSE

Goto(t, l) == at' = [at EXCEPT ![t] = l] /\ UNCHANGED after

\* the device stops; what is on its way to it does not matter any more
Crash == at' = [t \in Threads |-> "crashed"] /\ UNCHANGED after
Crashed == at["lua"] = "crashed"

Fault == faults < MaxFaults /\ faults' = faults + 1

\* l_luat_mqtt_msg_cb: luat_msgbus_put does not wait and its result is not read
Puts(m) ==
    /\ bus' = IF Len(bus) < QUEUE_LENGTH THEN Append(bus, m) ELSE bus
    /\ dropped' = (dropped \/ Len(bus) >= QUEUE_LENGTH)

----------------------------------------------------------------------------
(* luat_mqtt_close_socket on thread t, and what sends a packet *)

CloseThen(t, l) ==
    /\ at' = [at EXCEPT ![t] = "close"]
    /\ after' = [after EXCEPT ![t] = l]

TestsState(t) ==
    /\ at[t] = "close"
    /\ Goto(t, IF mqtt_state = "DISCONNECT" THEN "closed" ELSE "clear")
    /\ UNCHANGED <<client, timers, network, line, script, bus, faults, blind, dropped>>

ClearsState(t) ==
    /\ at[t] = "clear"
    /\ mqtt_state' = "DISCONNECT" /\ buf' = <<>> /\ blind' = FALSE
    /\ Goto(t, "force")
    /\ UNCHANGED <<reconnect, timers, network, line, script, bus,
                   faults, dropped>>

NoSocket == netc' = "off" /\ session' = "none" /\ rx' = <<>> /\ new_rx' = FALSE

BugForcesClose(t) ==        \* the script is told when it asked for it only
    /\ at[t] = "force"
    /\ NoSocket
    /\ IF t = "lua" THEN Puts("DISCONNECT") ELSE UNCHANGED <<bus, dropped>>
    /\ Goto(t, "timers")
    /\ UNCHANGED <<client, timers, line, script, faults, blind>>

ForcesClose(t) ==
    /\ at[t] = "force"
    /\ IF netc = "freed" THEN UNCHANGED <<network, bus, dropped>>
       ELSE NoSocket /\ Puts("DISCONNECT")
    /\ Goto(t, "timers")
    /\ UNCHANGED <<client, timers, line, script, faults, blind>>

BugStartsRetry(t) ==        \* waits to be asked to connect again
    /\ at[t] = "timers"
    /\ ping_timer' = FALSE /\ Puts("CLOSE") /\ Goto(t, "closed")
    /\ UNCHANGED <<client, reconnect_timer, network, line, script, faults, blind>>

StartsRetry(t) ==
    /\ at[t] = "timers"
    /\ ping_timer' = FALSE
    /\ IF reconnect            \* a released client has no timer to start
       THEN reconnect_timer' = (netc # "freed") /\ UNCHANGED <<bus, dropped>>
       ELSE Puts("CLOSE") /\ UNCHANGED reconnect_timer
    /\ Goto(t, "closed")
    /\ UNCHANGED <<client, network, line, script, faults, blind>>

Closes(t) ==
    /\ at[t] = "closed"
    /\ buf' = <<>> /\ Goto(t, after[t])
    /\ UNCHANGED <<mqtt_state, reconnect, timers, network, line,
                   script, bus, faults, blind, dropped>>

CloseSocket(t) ==
    TestsState(t) \/ ClearsState(t) \/ ForcesClose(t) \/ StartsRetry(t) \/ Closes(t)

\* luat_mqtt_send_packet over network_tx: a packet that cannot be sent closes
\* the socket.  s is the session the broker has when it gets the packet.
\* A ctrl that was released is a NULL pointer.
Send(t, s, sent, failed) ==
    \/ /\ netc = "online"
       /\ session' = s /\ Goto(t, sent)
       /\ UNCHANGED <<netc, rx, new_rx, faults>>
    \/ /\ netc = "online" /\ Fault
       /\ netc' = "lost" /\ CloseThen(t, failed)
       /\ UNCHANGED <<session, rx, new_rx>>
    \/ /\ netc \notin {"online", "freed"}
       /\ CloseThen(t, failed) /\ UNCHANGED <<network, faults>>
    \/ /\ netc = "freed"
       /\ Crash /\ UNCHANGED <<network, faults>>

----------------------------------------------------------------------------
(* The Lua thread: calls of the script *)

Called == at["lua"] = "idle" /\ netc # "freed" /\ calls < MaxCalls /\ calls' = calls + 1

\* luat_mqtt_connect up to network_connect, which refuses a ctrl that has a
\* socket; its failure is compared away (ret = network_connect(...) < 0)
StartsConnect ==
    /\ Goto("lua", "started")
    /\ \/ HasSocket /\ UNCHANGED <<network, faults>>
       \/ ~HasSocket /\ Fault /\ NoSocket
       \/ /\ ~HasSocket
          /\ netc' \in {"wait", "connecting"}
          /\ session' = "none" /\ rx' = <<>> /\ new_rx' = FALSE
          /\ UNCHANGED faults

Connect ==
    /\ Called /\ StartsConnect
    /\ UNCHANGED <<mqtt_state, reconnect, buf, timers, line, bus, told, pings,
                   blind, dropped>>

\* and its last assignment
Started ==
    /\ at["lua"] = "started"
    /\ mqtt_state' = "SCONNECT" /\ blind' = (netc \notin {"wait", "connecting"})
    /\ Goto("lua", "idle")
    /\ UNCHANGED <<reconnect, buf, timers, network, line, script,
                   bus, faults, dropped>>

\* mqttc:publish with QoS 0 announces itself, other packets are only sent
Publish ==
    /\ Called
    /\ \E next \in {"idle", "sent"} : Send("lua", session, next, "idle")
    /\ UNCHANGED <<client, timers, line, bus, told, pings, blind, dropped>>

Announces ==
    /\ at["lua"] = "sent"
    /\ Puts("DATA") /\ Goto("lua", "idle")
    /\ UNCHANGED <<client, timers, network, line, script, faults, blind>>

\* mqttc:disconnect, and mqttc:close which also releases the client
Disconnect ==
    /\ Called
    /\ \E next \in {"drop", "end"} : Send("lua", session, next, next)
    /\ UNCHANGED <<client, timers, line, bus, told, pings, blind, dropped>>

Drops ==
    /\ \/ at["lua"] = "drop" /\ CloseThen("lua", "idle")
       \/ at["lua"] = "end" /\ CloseThen("lua", "release")
    /\ UNCHANGED <<client, timers, network, line, script, bus, faults, blind, dropped>>

\* luat_mqtt_release_socket
Release ==
    /\ at["lua"] = "release"
    /\ Puts("RELEASE")
    /\ ping_timer' = FALSE /\ reconnect_timer' = FALSE
    /\ netc' = "freed" /\ session' = "none" /\ rx' = <<>> /\ new_rx' = FALSE
    /\ Goto("lua", "idle")
    /\ UNCHANGED <<client, line, script, faults, blind>>

Call == Connect \/ Publish \/ Disconnect

----------------------------------------------------------------------------
(* The Lua thread: luatos_mqtt_callback, and the timer service *)

Takes(m) == at["lua"] = "idle" /\ bus # <<>> /\ Head(bus) = m /\ bus' = Tail(bus)

HandlesPing ==
    /\ Takes("PING") /\ Send("lua", session, "idle", "idle")
    /\ UNCHANGED <<client, timers, line, script, blind, dropped>>

\* luat_mqtt_reconnect
HandlesReconnect ==
    /\ Takes("RECONNECT")
    /\ buf' = <<>>
    /\ IF netc = "freed"
       THEN Crash /\ UNCHANGED <<network, faults>>
       ELSE StartsConnect
    /\ UNCHANGED <<mqtt_state, reconnect, timers, line, script, blind, dropped>>

\* the other messages only call the script
Tells ==
    /\ \E m \in Messages \ {"PING", "RECONNECT"} :
          /\ Takes(m)
          /\ told' = CASE m = "CONNACK" -> "up" [] m = "DISCONNECT" -> "down"
                       [] OTHER -> told
    /\ UNCHANGED <<client, timers, network, line, calls, pings, at, after,
                   faults, blind, dropped>>

PingExpires ==
    /\ ping_timer /\ ~Crashed /\ pings < MaxPings
    /\ pings' = pings + 1 /\ Puts("PING")
    /\ UNCHANGED <<client, timers, network, line, told, calls, at, after, faults, blind>>

RetryExpires ==
    /\ reconnect_timer /\ ~Crashed
    /\ reconnect_timer' = FALSE /\ Puts("RECONNECT")
    /\ UNCHANGED <<client, ping_timer, network, line, script, at, after, faults, blind>>

LuaStep ==
    \/ CloseSocket("lua") \/ Started \/ Announces \/ Drops \/ Release
    \/ HandlesPing \/ HandlesReconnect \/ Tells

----------------------------------------------------------------------------
(* The tcpip thread: luat_mqtt_callback *)

BugCallback ==              \* the result of an event is not looked at
    /\ at["tcpip"] = "idle" /\ posted # NoEvent
    /\ posted' = NoEvent
    /\ IF posted.id = "CONNECT" /\ posted.ok
       THEN mqtt_state' = "MQTT" /\ Goto("tcpip", "hello")
       ELSE Goto("tcpip", "idle") /\ UNCHANGED mqtt_state
    /\ UNCHANGED <<reconnect, buf, timers, network, packets, wrapped, script,
                   bus, faults, blind, dropped>>

Callback ==
    /\ at["tcpip"] = "idle" /\ posted # NoEvent
    /\ posted' = NoEvent
    /\ CASE ~posted.ok -> CloseThen("tcpip", "idle") /\ UNCHANGED mqtt_state
         [] posted.ok /\ posted.id = "CONNECT" ->
              mqtt_state' = "MQTT" /\ Goto("tcpip", "hello")
         [] posted.ok /\ posted.id = "EVENT" ->
              Goto("tcpip", "data") /\ UNCHANGED mqtt_state
    /\ UNCHANGED <<reconnect, buf, timers, network, packets,
                   wrapped, script, bus, faults, blind, dropped>>

BugSendsConnect ==          \* success taken for 0
    /\ at["tcpip"] = "hello" /\ Send("tcpip", "asked", "wait", "wait")
    /\ UNCHANGED <<client, timers, line, script, bus, blind, dropped>>

\* mqtt_connect
SendsConnect ==
    /\ at["tcpip"] = "hello" /\ Send("tcpip", "asked", "arm", "wait")
    /\ UNCHANGED <<client, timers, line, script, bus, blind, dropped>>

StartsPing ==
    /\ at["tcpip"] = "arm"
    /\ ping_timer' = (netc # "freed") /\ Goto("tcpip", "wait")
    /\ UNCHANGED <<client, reconnect_timer, network, line, script, bus, faults,
                   blind, dropped>>

\* network_wait_event
WaitsEvent ==
    /\ at["tcpip"] = "wait"
    /\ CASE netc = "freed" -> Crash
         [] netc # "freed" /\ (new_rx \/ netc = "online") -> Goto("tcpip", "idle")
         [] OTHER -> CloseThen("tcpip", "idle")
    /\ UNCHANGED <<client, timers, network, line, script, bus, faults, blind, dropped>>

----------------------------------------------------------------------------
(* The tcpip thread: luat_mqtt_read_packet, mqtt_parse, luat_mqtt_msg_cb.  *)
(* A packet has two halves, its kind and "rest"; what has arrived of rx    *)
(* may be any part of it.                                                  *)

Readable == rx # <<>> /\ (netc = "online" \/ (netc = "lost" /\ new_rx))
Room == BUF_LEN_MAX - Len(buf)

Looks ==
    /\ at["tcpip"] = "data"
    /\ CASE netc = "freed" -> Crash
         [] netc # "freed" /\ ~Readable -> Goto("tcpip", "wait")
         [] Readable -> \/ Len(rx) > Room /\ CloseThen("tcpip", "idle")
                        \/ Room > 0 /\ Goto("tcpip", "read")
    /\ UNCHANGED <<client, timers, network, line, script, bus, faults, blind, dropped>>

\* Looks has seen some of it; after that the loop ends when no more has come
Reads ==
    /\ at["tcpip"] \in {"read", "more"}
    /\ \/ /\ Readable
          /\ \E n \in 1 .. Len(rx) :
                /\ n <= Room
                /\ buf' = buf \o SubSeq(rx, 1, n)
                /\ rx' = SubSeq(rx, n + 1, Len(rx))
          /\ new_rx' = FALSE /\ Goto("tcpip", "parse")
       \/ /\ at["tcpip"] = "more" \/ ~Readable
          /\ IF netc = "freed" THEN Crash ELSE Goto("tcpip", "wait")
          /\ UNCHANGED <<buf, rx, new_rx>>
    /\ UNCHANGED <<mqtt_state, reconnect, timers, netc, session,
                   line, script, bus, faults, blind, dropped>>

Parsing(kinds) == at["tcpip"] = "parse" /\ Len(buf) >= 2 /\ Head(buf) \in kinds

WantsMore ==
    /\ at["tcpip"] = "parse" /\ Len(buf) < 2
    /\ Goto("tcpip", "more")
    /\ UNCHANGED <<client, timers, network, line, script, bus, faults, blind, dropped>>

Accepted ==
    /\ Parsing({"CONNACK"})
    /\ mqtt_state' = "READY" /\ blind' = FALSE /\ Goto("tcpip", "accept")
    /\ UNCHANGED <<reconnect, buf, timers, network, line, script,
                   bus, faults, dropped>>

TellsAccepted ==
    /\ at["tcpip"] = "accept"
    /\ Puts("CONNACK") /\ Goto("tcpip", "consume")
    /\ UNCHANGED <<client, timers, network, line, script, faults, blind>>

\* luat_mqtt_msg_cb closes the socket and fails, luat_mqtt_read_packet closes
\* it again
Refused ==
    /\ Parsing({"REFUSED"})
    /\ CloseThen("tcpip", "bad")
    /\ UNCHANGED <<client, timers, network, line, script, bus, faults, blind,
                   dropped>>

BadPacket ==
    /\ at["tcpip"] = "bad" /\ CloseThen("tcpip", "idle")
    /\ UNCHANGED <<client, timers, network, line, script, bus, faults, blind, dropped>>

\* a PUBLISH is announced and answered, an answer to the client announced
Received ==
    /\ Parsing({"PUBLISH", "PUBACK"})
    /\ Puts("DATA")
    /\ Goto("tcpip", IF Head(buf) = "PUBLISH" THEN "reply" ELSE "consume")
    /\ UNCHANGED <<client, timers, network, line, script, faults, blind>>

Replies ==
    /\ at["tcpip"] = "reply" /\ Send("tcpip", session, "consume", "consume")
    /\ UNCHANGED <<client, timers, line, script, bus, blind, dropped>>

\* a first byte of no known type
Ignored ==
    /\ Parsing({"rest"})
    /\ Goto("tcpip", "consume")
    /\ UNCHANGED <<client, timers, network, line, script, bus, faults, blind,
                   dropped>>

\* buffer_offset -= length of the packet, whatever it is by now: below 0 the
\* rest of the memory is moved, and nothing after that is modelled
Consumes ==
    /\ at["tcpip"] = "consume"
    /\ IF Len(buf) >= 2
       THEN /\ buf' = SubSeq(buf, 3, Len(buf)) /\ UNCHANGED wrapped
            /\ Goto("tcpip", IF Len(buf) > 2 THEN "parse" ELSE "more")
       ELSE /\ wrapped' = TRUE /\ UNCHANGED buf
            /\ Crash
    /\ UNCHANGED <<mqtt_state, reconnect, timers, network, posted,
                   packets, script, bus, faults, blind, dropped>>

TcpipStep ==
    \/ CloseSocket("tcpip") \/ Callback \/ SendsConnect \/ StartsPing \/ WaitsEvent
    \/ Looks \/ Reads \/ WantsMore \/ Accepted \/ TellsAccepted \/ Refused
    \/ BadPacket \/ Received \/ Replies \/ Ignored \/ Consumes

----------------------------------------------------------------------------
(* The ctrl and the broker.  The state machine of the ctrl runs on the     *)
(* tcpip thread, and its callback in a later step.                         *)

Post(id, ok) ==
    /\ at["tcpip"] = "idle" /\ posted = NoEvent
    /\ posted' = [id |-> id, ok |-> ok]
    /\ UNCHANGED <<client, timers, script, bus, at, after, packets, wrapped,
                   blind, dropped>>

Resolves ==
    /\ at["tcpip"] = "idle" /\ posted = NoEvent /\ netc = "wait"
    /\ netc' = "connecting"
    /\ UNCHANGED <<client, timers, session, rx, new_rx, line, script, bus, at,
                   after, faults, blind, dropped>>

Connects ==
    /\ netc = "connecting" /\ Post("CONNECT", TRUE) /\ netc' = "online"
    /\ UNCHANGED <<session, rx, new_rx, faults>>

ConnectFails ==
    /\ netc \in {"wait", "connecting"} /\ Post("CONNECT", FALSE) /\ Fault
    /\ netc' = IF netc = "wait" THEN "off" ELSE "lost"
    /\ UNCHANGED <<session, rx, new_rx>>

ConnectionLost ==
    /\ netc = "online" /\ Post("EVENT", FALSE) /\ Fault
    /\ netc' = "lost" /\ UNCHANGED <<session, rx, new_rx>>

\* the link goes down for a ctrl that was closed in another state than OFF_LINE
LinkDown ==
    /\ netc = "off" /\ calls > 0 /\ Post("EVENT", FALSE) /\ Fault
    /\ UNCHANGED network

DataComes ==
    /\ netc = "online" /\ rx # <<>> /\ Post("EVENT", TRUE)
    /\ new_rx' = TRUE /\ UNCHANGED <<netc, session, rx, faults>>

\* the broker answers a CONNECT, then sends what it likes
BrokerSends(k, s) ==
    /\ netc = "online" /\ ~Crashed
    /\ rx' = rx \o <<k, "rest">> /\ session' = s
    /\ UNCHANGED <<client, timers, netc, new_rx, posted, wrapped, script, bus,
                   at, after, blind, dropped>>

Accepts == session = "asked" /\ BrokerSends("CONNACK", "up") /\ UNCHANGED <<faults, packets>>
Refuses == session = "asked" /\ Fault /\ BrokerSends("REFUSED", "none") /\ UNCHANGED packets

Delivers ==
    /\ session = "up" /\ packets < MaxPackets /\ packets' = packets + 1
    /\ \E k \in Later : BrokerSends(k, "up")
    /\ UNCHANGED faults

Mishap == ConnectFails \/ ConnectionLost \/ LinkDown \/ Refuses
World  == Resolves \/ Connects \/ DataComes \/ Accepts \/ RetryExpires

Next ==
    \/ Call \/ LuaStep \/ TcpipStep \/ World \/ Mishap \/ Delivers \/ PingExpires

Spec == Init /\ [][Next]_vars

\* Threads are scheduled, connections and CONNACKs come in the end, and the
\* reconnect timer expires.  Everything else is bounded, so one condition does.
FairSpec == Spec /\ WF_vars(LuaStep \/ TcpipStep \/ World)

----------------------------------------------------------------------------
(* Properties *)

\* neither thread is inside the client's code, and none is about to be
Quiet == at = [t \in Threads |-> "idle"] /\ posted = NoEvent /\ netc # "freed"

OnBus(m) == \E i \in DOMAIN bus : bus[i] = m
Retrying == reconnect_timer \/ OnBus("RECONNECT")

\* With autoreconn, a client at rest that is not connected has its reconnect
\* timer running, RECONNECT on the bus or a connection being made: however a
\* connection ended, luat_mqtt_close_socket has seen to the next.  The two
\* ways to lose it are a SCONNECT written when nothing was connecting (blind:
\* network_connect failed unnoticed, failed before its caller went on, or was
\* called on a live connection) and a message refused by the full bus.
NotForgotten ==
    Quiet /\ reconnect /\ ~blind /\ ~dropped =>
        \/ Retrying
        \/ mqtt_state = "SCONNECT" /\ netc \in {"wait", "connecting"}
        \/ mqtt_state \in {"MQTT", "READY"} /\ netc = "online"

\* While there is a connection the ping timer runs, whichever thread stopped
\* it for the connection before: a ping that cannot be sent is the only way a
\* dead connection is noticed when the broker is silent.
KeptAlive == Quiet /\ netc = "online" => ping_timer

\* A script that has handled everything on the bus and believes it is
\* connected ("conack" came last) is connected, to a broker that accepted
\* this connection: no disconnect goes untold.  Where one is overtaken by the
\* conack of the connection it ended, the receive buffer was emptied under the
\* tcpip thread, which OffsetCounts below is about.
ScriptNotMisled ==
    Quiet /\ bus = <<>> /\ ~dropped /\ told = "up" =>
        netc = "online" /\ session = "up"

\* With autoreconn, the client is accepted by the broker in the end and stays
\* so when nothing fails any more, except after what NotForgotten excepts, a
\* close by the script or a crash.
ComesBack ==
    <>[](\/ mqtt_state = "READY" /\ netc = "online" /\ session = "up"
         \/ calls = 0 \/ ~reconnect
         \/ blind \/ dropped \/ netc = "freed" \/ Crashed)

----------------------------------------------------------------------------
(* What the code does not keep: TLC refutes it.  The Lua thread's close    *)
(* sets buffer_offset to 0 after luat_mqtt_msg_cb has returned and before  *)
(* mqtt_parse takes the packet off.                                        *)

\* buffer_offset is what mqtt_packet_buffer holds (luat_mqtt.h says so of it)
\* and so never goes below 0 when a parsed packet is taken out.
OffsetCounts == ~wrapped
=============================================================================

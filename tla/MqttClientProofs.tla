-------------------------- MODULE MqttClientProofs --------------------------
(***************************************************************************)
(* Proofs about MqttClient, for any bus, any receive buffer and any number *)
(* of calls, failures, packets and pings.                                  *)
(*                                                                         *)
(* Both threads stop the ping timer, so that it runs on a connection is    *)
(* not a matter of one of them.  AliveInv is inductive: a connection has   *)
(* its timer running or the thread that starts it still on its way, and no *)
(* thread is about to stop the timer while there is a connection.          *)
(*                                                                         *)
(* CareInv says as much of reconnecting, and LeadInv of what the script    *)
(* believes: while it believes that it is connected, it is, or a thread is *)
(* bound to tell it otherwise (Doomed).                                    *)
(***************************************************************************)
EXTENDS MqttClient, TLAPS

\* Where luat_mqtt_close_socket returns to, and everywhere else a thread is.
Returns == {"idle", "wait", "bad", "consume", "drop", "end", "release"}
Places == Returns \cup
    {"close", "clear", "force", "timers", "closed", "started", "sent", "hello",
     "arm", "data", "read", "more", "parse", "accept", "reply", "crashed"}

ThreadsOK ==
    /\ at \in [Threads -> Places] /\ after \in [Threads -> Returns]
    /\ posted \in Events \cup {NoEvent}

Arming == posted = [id |-> "CONNECT", ok |-> TRUE] \/ at["tcpip"] \in {"hello", "arm"}

AliveInv ==
    /\ ThreadsOK
    /\ netc = "online" => ping_timer \/ Arming
    /\ at["lua"] = "timers" => netc \in {"off", "freed"}
    /\ at["tcpip"] = "timers" => netc # "online"

----------------------------------------------------------------------------
\* The steps of luat_mqtt_close_socket on either thread.
LEMMA CloseKeepsAlive ==
    ASSUME AliveInv, NEW t \in Threads, CloseSocket(t)
    PROVE  AliveInv'
<1> USE DEF AliveInv, ThreadsOK, Arming, Threads, Places, Returns, Goto, client,
        timers, network, line, script
<1>1. CASE TestsState(t)
  BY <1>1 DEF TestsState
<1>2. CASE ClearsState(t)
  BY <1>2 DEF ClearsState
<1>3. CASE ForcesClose(t)
  BY <1>3 DEF ForcesClose, NoSocket
<1>4. CASE StartsRetry(t)
  BY <1>4 DEF StartsRetry
<1>5. CASE Closes(t)
  BY <1>5 DEF Closes
<1> QED BY <1>1, <1>2, <1>3, <1>4, <1>5 DEF CloseSocket

\* The calls of the script.
LEMMA CallKeepsAlive ==
    ASSUME AliveInv, Call
    PROVE  AliveInv'
<1> USE DEF AliveInv, ThreadsOK, Arming, Threads, Places, Returns, Goto, client,
        timers, network, line, script, Called
<1>1. CASE Connect
  BY <1>1 DEF Connect, StartsConnect, HasSocket, NoSocket
<1>2. CASE Publish
  <2>1. PICK next \in {"idle", "sent"} : Send("lua", session, next, "idle")
    BY <1>2 DEF Publish
  <2> QED BY <1>2, <2>1 DEF Publish, Send, CloseThen, Crash, Fault
<1>3. CASE Disconnect
  <2>1. PICK next \in {"drop", "end"} : Send("lua", session, next, next)
    BY <1>3 DEF Disconnect
  <2> QED BY <1>3, <2>1 DEF Disconnect, Send, CloseThen, Crash, Fault
<1> QED BY <1>1, <1>2, <1>3 DEF Call

\* What the Lua thread goes on with, and the messages it takes from the bus.
LEMMA LuaKeepsAlive ==
    ASSUME AliveInv, LuaStep
    PROVE  AliveInv'
<1> USE DEF AliveInv, ThreadsOK, Arming, Threads, Places, Returns, Goto, client,
        timers, network, line, script
<1>1. CASE CloseSocket("lua")
  BY <1>1, CloseKeepsAlive
<1>2. CASE Started \/ Announces
  BY <1>2 DEF Started, Announces
<1>3. CASE Drops
  BY <1>3 DEF Drops, CloseThen
<1>4. CASE Release
  BY <1>4 DEF Release
<1>5. CASE HandlesPing
  BY <1>5 DEF HandlesPing, Takes, Send, CloseThen, Crash, Fault
<1>6. CASE HandlesReconnect
  BY <1>6 DEF HandlesReconnect, Takes, StartsConnect, HasSocket, NoSocket, Crash
<1>7. CASE Tells
  BY <1>7 DEF Tells
<1> QED BY <1>1, <1>2, <1>3, <1>4, <1>5, <1>6, <1>7 DEF LuaStep

\* luat_mqtt_callback and the reading of packets.
LEMMA TcpipKeepsAlive ==
    ASSUME AliveInv, TcpipStep
    PROVE  AliveInv'
<1> USE DEF AliveInv, ThreadsOK, Arming, Threads, Places, Returns, Goto, client,
        timers, network, line, script
<1>1. CASE CloseSocket("tcpip")
  BY <1>1, CloseKeepsAlive
<1>2. CASE Callback
  <2> USE <1>2 DEF Callback
  <2>0. posted.ok \in BOOLEAN /\ posted.id \in {"CONNECT", "EVENT"}
    BY DEF Events
  <2>1. CASE ~ posted.ok
    <3>1. posted # [id |-> "CONNECT", ok |-> TRUE]
      BY <2>1
    <3>2. /\ at' = [at EXCEPT !["tcpip"] = "close"]
          /\ after' = [after EXCEPT !["tcpip"] = "idle"]
          /\ UNCHANGED <<netc, ping_timer>> /\ posted' = NoEvent
      BY <2>1 DEF CloseThen
    <3> QED BY <3>1, <3>2
  <2>2. CASE posted.ok /\ posted.id = "CONNECT"
    <3>1. at' = [at EXCEPT !["tcpip"] = "hello"]
          /\ UNCHANGED <<after, netc, ping_timer>> /\ posted' = NoEvent
      BY <2>2
    <3> QED BY <3>1
  <2>3. CASE posted.ok /\ posted.id = "EVENT"
    <3>1. posted # [id |-> "CONNECT", ok |-> TRUE]
      BY <2>3
    <3>2. at' = [at EXCEPT !["tcpip"] = "data"] /\ UNCHANGED <<after, netc, ping_timer>>
      BY <2>3
    <3> QED BY <2>3, <3>1, <3>2 DEF NoEvent
  <2> QED BY <2>0, <2>1, <2>2, <2>3
<1>3. CASE SendsConnect
  BY <1>3 DEF SendsConnect, Send, CloseThen, Crash, Fault
<1>4. CASE StartsPing
  BY <1>4 DEF StartsPing
<1>5. CASE WaitsEvent
  BY <1>5 DEF WaitsEvent, CloseThen, Crash
<1>6. CASE Looks
  BY <1>6, ZenonT(60) DEF Looks, CloseThen, Crash
<1>7. CASE Reads
  BY <1>7 DEF Reads, Crash
<1>8. CASE WantsMore \/ Accepted \/ TellsAccepted \/ Ignored
  BY <1>8 DEF WantsMore, Accepted, TellsAccepted, Ignored, Parsing
<1>9. CASE Refused \/ BadPacket
  BY <1>9 DEF Refused, BadPacket, Parsing, CloseThen
<1>10. CASE Received
  BY <1>10 DEF Received, Parsing
<1>11. CASE Replies
  BY <1>11 DEF Replies, Send, CloseThen, Crash, Fault
<1>12. CASE Consumes
  BY <1>12 DEF Consumes, Crash
<1> QED BY <1>1, <1>2, <1>3, <1>4, <1>5, <1>6, <1>7, <1>8, <1>9, <1>10, <1>11,
           <1>12 DEF TcpipStep

\* The ctrl, the broker and the timers.
LEMMA WorldKeepsAlive ==
    ASSUME AliveInv, World \/ Mishap \/ Delivers \/ PingExpires
    PROVE  AliveInv'
<1> USE DEF AliveInv, ThreadsOK, Arming, Threads, Places, Returns, client,
        timers, network, line, script
<1>1. CASE Resolves
  BY <1>1 DEF Resolves
<1>2. CASE Connects
  BY <1>2 DEF Connects, Post, Events
<1>3. CASE ConnectFails \/ ConnectionLost \/ LinkDown
  <2>1. netc' # "online"
    BY <1>3 DEF ConnectFails, ConnectionLost, LinkDown
  <2>2. PICK id \in {"CONNECT", "EVENT"} : Post(id, FALSE)
    BY <1>3 DEF ConnectFails, ConnectionLost, LinkDown
  <2>3. /\ posted' \in Events /\ UNCHANGED <<at, after>>
        /\ at["tcpip"] = "idle"
    BY <2>2 DEF Post, Events
  <2>4. at["lua"] = "timers" => netc' \in {"off", "freed"}
    BY <1>3 DEF ConnectFails, ConnectionLost, LinkDown
  <2> QED BY <2>1, <2>3, <2>4
<1>4. CASE DataComes
  BY <1>4 DEF DataComes, Post, Events, NoEvent
<1>5. CASE Accepts \/ Refuses \/ Delivers
  BY <1>5 DEF Accepts, Refuses, Delivers, BrokerSends
<1>6. CASE RetryExpires \/ PingExpires
  BY <1>6 DEF RetryExpires, PingExpires
<1> QED BY <1>1, <1>2, <1>3, <1>4, <1>5, <1>6 DEF World, Mishap

\* Every step of the client keeps AliveInv.
LEMMA NextKeepsAlive ==
    ASSUME AliveInv, [Next]_vars
    PROVE  AliveInv'
<1>1. CASE Next
  BY <1>1, CallKeepsAlive, LuaKeepsAlive, TcpipKeepsAlive, WorldKeepsAlive DEF Next
<1>2. CASE UNCHANGED vars
  BY <1>2 DEF vars, client, timers, network, line, AliveInv, ThreadsOK, Arming
<1> QED BY <1>1, <1>2

\* While there is a connection and both threads are at rest, the ping timer
\* runs: no order of closing, connecting and arming loses it.
THEOREM PingTimerRuns == Spec => []KeptAlive
<1>1. Init => AliveInv
  BY DEF Init, AliveInv, ThreadsOK, Threads, Places, Returns, NoEvent
<1>2. AliveInv /\ [Next]_vars => AliveInv'
  BY NextKeepsAlive
<1>3. AliveInv => KeptAlive
  BY DEF AliveInv, KeptAlive, Quiet, Arming, NoEvent, Threads
<1> QED BY <1>1, <1>2, <1>3, PTL DEF Spec
----------------------------------------------------------------------------
(* The client is not forgotten.  CareInv is inductive: whenever somebody   *)
(* must see to the next connection, one of the states in Cared says who.   *)
(* Two facts carry it through the tcpip thread, which may find the state   *)
(* already cleared: a live or lost connection with data to be read still   *)
(* has its mqtt_state, or a thread that is about to force it closed.       *)

FlagsOK == {reconnect, reconnect_timer, blind, dropped, new_rx} \subseteq BOOLEAN

Failed    == posted # NoEvent /\ ~ posted.ok
Connected == posted = [id |-> "CONNECT", ok |-> TRUE]

In(places) == at["lua"] \in places \/ at["tcpip"] \in places
Forcing == In({"force"})
Closing == \/ In({"clear", "force", "timers"})
           \/ In({"close"}) /\ mqtt_state # "DISCONNECT"

\* the tcpip thread will come to network_wait_event or close the socket
Busy == at["tcpip"] \in {"hello", "arm", "wait", "data", "read", "more", "parse",
                         "accept", "reply", "consume", "bad"}

Cared ==
    \/ Retrying \/ at["lua"] = "started" \/ Closing
    \/ mqtt_state = "SCONNECT" /\ netc \in {"wait", "connecting"}
    \/ mqtt_state # "DISCONNECT" /\ (netc = "online" \/ Failed \/ Busy)

LinesOK ==
    /\ ThreadsOK /\ FlagsOK /\ bus \in Seq(Messages) /\ mqtt_state \in MqttStates
    /\ posted # NoEvent => at["tcpip"] \in {"idle", "crashed"}

Attended ==
    /\ netc = "online" /\ mqtt_state = "DISCONNECT" => Connected \/ Forcing
    /\ new_rx => /\ netc \in {"online", "lost"}
                 /\ mqtt_state # "DISCONNECT" \/ Forcing
    /\ new_rx /\ netc = "lost" => Failed \/ In({"close", "clear", "force"})
    /\ reconnect /\ ~blind /\ ~dropped /\ netc # "freed" => Cared

CareInv ==
    /\ LinesOK
    /\ mqtt_state = "SCONNECT" /\ netc = "online" /\ ~blind => Connected
    /\ ~Crashed => Attended

\* A message put on the bus leaves those before it, or is counted as dropped.
LEMMA PutsProperties ==
    ASSUME bus \in Seq(Messages), dropped \in BOOLEAN, NEW m \in Messages, Puts(m)
    PROVE  /\ bus' \in Seq(Messages)
           /\ dropped' \in BOOLEAN
           /\ dropped => dropped'
           /\ OnBus("RECONNECT") => OnBus("RECONNECT")'
           /\ dropped' \/ OnBus(m)'
<1>1. CASE Len(bus) < QUEUE_LENGTH
  <2>1. bus' = Append(bus, m) /\ dropped' = dropped
    BY <1>1, MqttAssumption DEF Puts
  <2>2. /\ \A i \in 1 .. Len(bus) : i \in 1 .. Len(bus') /\ bus'[i] = bus[i]
        /\ Len(bus') \in 1 .. Len(bus') /\ bus'[Len(bus')] = m
    BY <2>1
  <2> QED BY <2>1, <2>2 DEF OnBus
<1>2. CASE ~(Len(bus) < QUEUE_LENGTH)
  <2>1. QUEUE_LENGTH \in Nat /\ Len(bus) \in Nat
    BY MqttAssumption
  <2>2. bus' = bus
    BY <1>2 DEF Puts
  <2>3. Len(bus) >= QUEUE_LENGTH
    BY <1>2, <2>1
  <2>4. dropped' = TRUE
    BY <2>3, Zenon DEF Puts
  <2> QED BY <2>2, <2>4 DEF OnBus
<1> QED BY <1>1, <1>2

\* Taking another message leaves RECONNECT on the bus.
LEMMA TakesProperties ==
    ASSUME bus \in Seq(Messages), NEW m, Takes(m)
    PROVE  /\ bus' \in Seq(Messages)
           /\ m # "RECONNECT" /\ OnBus("RECONNECT") => OnBus("RECONNECT")'
<1>1. bus' \in Seq(Messages) /\ Len(bus') = Len(bus) - 1
  BY DEF Takes
<1>2. \A i \in DOMAIN bus : i # 1 => i - 1 \in DOMAIN bus' /\ bus'[i - 1] = bus[i]
  BY DEF Takes
<1>3. m = bus[1]
  BY DEF Takes
<1> QED BY <1>1, <1>2, <1>3 DEF OnBus

\* The steps of luat_mqtt_close_socket on either thread.
LEMMA CloseKeepsCare ==
    ASSUME CareInv, NEW t \in Threads, CloseSocket(t)
    PROVE  CareInv'
<1> USE DEF CareInv, LinesOK, Attended, Cared, Closing, Forcing, In, Busy, Failed,
        Connected, Retrying, ThreadsOK, FlagsOK, Crashed, Threads, Places, Returns, MqttStates,
        Goto, client, timers, network, line, script
<1>1. CASE TestsState(t)
  BY <1>1 DEF TestsState, OnBus
<1>2. CASE ClearsState(t)
  BY <1>2 DEF ClearsState, OnBus
<1>3. CASE ForcesClose(t)
  BY <1>3, PutsProperties DEF ForcesClose, NoSocket, Messages, OnBus
<1>4. CASE StartsRetry(t)
  BY <1>4, PutsProperties DEF StartsRetry, Messages, OnBus
<1>5. CASE Closes(t)
  BY <1>5 DEF Closes, OnBus
<1> QED BY <1>1, <1>2, <1>3, <1>4, <1>5 DEF CloseSocket

\* The calls of the script.
LEMMA CallKeepsCare ==
    ASSUME CareInv, Call
    PROVE  CareInv'
<1> USE DEF CareInv, LinesOK, Attended, Cared, Closing, Forcing, In, Busy, Failed,
        Connected, Retrying, ThreadsOK, FlagsOK, Crashed, Threads, Places, Returns, MqttStates,
        Goto, client, timers, network, line, script, Called
<1>1. CASE Connect
  <2>1. /\ at' = [at EXCEPT !["lua"] = "started"] /\ at["lua"] = "idle"
        /\ UNCHANGED <<mqtt_state, reconnect, reconnect_timer, posted, bus, blind,
                       dropped, after>>
    BY <1>1 DEF Connect, StartsConnect
  <2>2. CASE HasSocket
    BY <1>1, <2>1, <2>2 DEF Connect, StartsConnect, HasSocket, OnBus
  <2>3. CASE ~ HasSocket
    <3>1. new_rx' = FALSE /\ netc' \in {"off", "wait", "connecting"}
      BY <1>1, <2>3 DEF Connect, StartsConnect, NoSocket
    <3> QED BY <2>1, <3>1 DEF OnBus
  <2> QED BY <2>2, <2>3
<1>2. CASE Publish
  <2>1. PICK next \in {"idle", "sent"} : Send("lua", session, next, "idle")
    BY <1>2 DEF Publish
  <2> QED BY <1>2, <2>1 DEF Publish, Send, CloseThen, Crash, Fault, OnBus
<1>3. CASE Disconnect
  <2>1. PICK next \in {"drop", "end"} : Send("lua", session, next, next)
    BY <1>3 DEF Disconnect
  <2> QED BY <1>3, <2>1 DEF Disconnect, Send, CloseThen, Crash, Fault, OnBus
<1> QED BY <1>1, <1>2, <1>3 DEF Call

\* What the Lua thread goes on with, and the messages it takes from the bus.
LEMMA LuaKeepsCare ==
    ASSUME CareInv, LuaStep
    PROVE  CareInv'
<1> USE DEF CareInv, LinesOK, Attended, Cared, Closing, Forcing, In, Busy, Failed,
        Connected, Retrying, ThreadsOK, FlagsOK, Crashed, Threads, Places, Returns, MqttStates,
        Goto, client, timers, network, line, script
<1>1. CASE CloseSocket("lua")
  BY <1>1, CloseKeepsCare
<1>2. CASE Started
  BY <1>2 DEF Started, OnBus
<1>3. CASE Announces
  BY <1>3, PutsProperties DEF Announces, Messages, OnBus
<1>4. CASE Drops
  BY <1>4 DEF Drops, CloseThen, OnBus
<1>5. CASE Release
  BY <1>5, PutsProperties DEF Release, Messages, OnBus
<1>6. CASE HandlesPing
  BY <1>6, TakesProperties DEF HandlesPing, Takes, Send, CloseThen, Crash, Fault
<1>7. CASE HandlesReconnect
  BY <1>7, TakesProperties, ZenonT(60)
     DEF HandlesReconnect, Takes, StartsConnect, HasSocket, NoSocket, Crash
<1>8. CASE Tells
  <2>1. PICK m \in Messages \ {"PING", "RECONNECT"} : Takes(m)
    BY <1>8 DEF Tells
  <2>2. bus' \in Seq(Messages) /\ (OnBus("RECONNECT") => OnBus("RECONNECT")')
    BY <2>1, TakesProperties
  <2> QED BY <1>8, <2>2 DEF Tells
<1> QED BY <1>1, <1>2, <1>3, <1>4, <1>5, <1>6, <1>7, <1>8 DEF LuaStep

\* luat_mqtt_callback and the reading of packets.
LEMMA TcpipKeepsCare ==
    ASSUME CareInv, TcpipStep
    PROVE  CareInv'
<1> USE DEF CareInv, LinesOK, Attended, Cared, Closing, Forcing, In, Busy, Failed,
        Connected, Retrying, ThreadsOK, FlagsOK, Crashed, Threads, Places, Returns, MqttStates,
        Goto, client, timers, network, line, script
<1>1. CASE CloseSocket("tcpip")
  BY <1>1, CloseKeepsCare
<1>2. CASE Callback
  <2> USE <1>2 DEF Callback
  <2>0. posted.ok \in BOOLEAN /\ posted.id \in {"CONNECT", "EVENT"}
    BY DEF Events
  <2>1. CASE ~ posted.ok
    <3>1. /\ at' = [at EXCEPT !["tcpip"] = "close"]
          /\ after' = [after EXCEPT !["tcpip"] = "idle"]
          /\ posted' = NoEvent /\ UNCHANGED mqtt_state
      BY <2>1 DEF CloseThen
    <3> QED BY <2>1, <3>1 DEF OnBus
  <2>2. CASE posted.ok /\ posted.id = "CONNECT"
    <3>1. /\ at' = [at EXCEPT !["tcpip"] = "hello"] /\ UNCHANGED after
          /\ posted' = NoEvent /\ mqtt_state' = "MQTT"
      BY <2>2
    <3> QED BY <2>2, <3>1 DEF OnBus
  <2>3. CASE posted.ok /\ posted.id = "EVENT"
    <3>1. /\ at' = [at EXCEPT !["tcpip"] = "data"] /\ UNCHANGED after
          /\ posted' = NoEvent /\ UNCHANGED mqtt_state
      BY <2>3
    <3>2. posted # [id |-> "CONNECT", ok |-> TRUE]
      BY <2>3
    <3> QED BY <2>3, <3>1, <3>2 DEF OnBus
  <2> QED BY <2>0, <2>1, <2>2, <2>3
<1>3. CASE SendsConnect
  BY <1>3 DEF SendsConnect, Send, CloseThen, Crash, Fault, OnBus
<1>4. CASE StartsPing
  BY <1>4 DEF StartsPing, OnBus
<1>5. CASE WaitsEvent
  BY <1>5 DEF WaitsEvent, CloseThen, Crash, OnBus
<1>6. CASE Looks
  BY <1>6, ZenonT(60) DEF Looks, CloseThen, Crash, OnBus
<1>7. CASE Reads
  <2> USE <1>7 DEF Reads
  <2>1. /\ at["tcpip"] \in {"read", "more"}
        /\ UNCHANGED <<mqtt_state, reconnect, reconnect_timer, netc, posted, bus, blind,
                       dropped, after>>
    BY DEF Crash
  <2>2. CASE new_rx' = FALSE /\ at' = [at EXCEPT !["tcpip"] = "parse"]
    <3>1. LinesOK'
      BY <2>1, <2>2
    <3>2. Forcing' = Forcing /\ Connected' = Connected /\ (Cared => Cared')
      BY <2>1, <2>2 DEF OnBus
    <3>3. Crashed' = Crashed
      BY <2>1, <2>2
    <3> QED BY <2>1, <2>2, <3>1, <3>2, <3>3
  <2>3. CASE UNCHANGED new_rx /\ at' = [at EXCEPT !["tcpip"] = "wait"]
    BY <2>1, <2>3 DEF OnBus
  <2>4. CASE UNCHANGED new_rx /\ Crash
    BY <2>1, <2>4 DEF Crash, OnBus
  <2> QED BY <2>2, <2>3, <2>4
<1>8. CASE WantsMore \/ Ignored
  BY <1>8 DEF WantsMore, Ignored, Parsing, OnBus
<1>14. CASE Accepted
  BY <1>14 DEF Accepted, Parsing, OnBus
<1>9. CASE TellsAccepted
  BY <1>9, PutsProperties DEF TellsAccepted, Messages, OnBus
<1>10. CASE Refused \/ BadPacket
  BY <1>10 DEF Refused, BadPacket, Parsing, CloseThen, OnBus
<1>11. CASE Received
  BY <1>11, PutsProperties DEF Received, Parsing, Messages, OnBus
<1>12. CASE Replies
  BY <1>12 DEF Replies, Send, CloseThen, Crash, Fault, OnBus
<1>13. CASE Consumes
  BY <1>13 DEF Consumes, Crash, OnBus
<1> QED BY <1>1, <1>2, <1>3, <1>4, <1>5, <1>6, <1>7, <1>8, <1>9, <1>10, <1>11,
           <1>12, <1>13, <1>14 DEF TcpipStep

\* The ctrl, the broker and the timers.
LEMMA WorldKeepsCare ==
    ASSUME CareInv, World \/ Mishap \/ Delivers \/ PingExpires
    PROVE  CareInv'
<1> USE DEF CareInv, LinesOK, Attended, Cared, Closing, Forcing, In, Busy, Failed,
        Connected, Retrying, ThreadsOK, FlagsOK, Crashed, Threads, Places, Returns, MqttStates,
        client, timers, network, line, script
<1>1. CASE Resolves
  BY <1>1 DEF Resolves, OnBus
<1>2. CASE Connects
  BY <1>2 DEF Connects, Post, Events, NoEvent, OnBus
<1>3. CASE ConnectFails \/ ConnectionLost \/ LinkDown
  <2>1. PICK id \in {"CONNECT", "EVENT"} : Post(id, FALSE)
    BY <1>3 DEF ConnectFails, ConnectionLost, LinkDown
  <2>2. posted' \in Events /\ posted' # NoEvent /\ ~ posted'.ok
    BY <2>1 DEF Post, Events, NoEvent
  <2> QED BY <1>3, <2>1, <2>2
          DEF ConnectFails, ConnectionLost, LinkDown, Post, OnBus
<1>4. CASE DataComes
  BY <1>4 DEF DataComes, Post, Events, NoEvent, OnBus
<1>5. CASE Accepts \/ Refuses \/ Delivers
  <2>1. UNCHANGED <<mqtt_state, reconnect, reconnect_timer, netc, new_rx, posted, bus,
                    at, after, blind, dropped>>
    BY <1>5 DEF Accepts, Refuses, Delivers, BrokerSends
  <2> QED BY <2>1 DEF OnBus
<1>6. CASE RetryExpires
  BY <1>6, PutsProperties, ZenonT(60) DEF RetryExpires, Messages
<1>7. CASE PingExpires
  BY <1>7, PutsProperties DEF PingExpires, Messages, OnBus
<1> QED BY <1>1, <1>2, <1>3, <1>4, <1>5, <1>6, <1>7 DEF World, Mishap

\* The client begins with nothing to see to.
LEMMA InitIsCared == Init => CareInv
<1> SUFFICES ASSUME Init PROVE CareInv
  OBVIOUS
<1>1. FlagsOK /\ blind /\ ~ new_rx /\ netc = "off"
  BY DEF Init, FlagsOK
<1>2. ThreadsOK /\ bus \in Seq(Messages) /\ mqtt_state \in MqttStates
  BY DEF Init, ThreadsOK, Threads, Places, Returns, MqttStates
<1>3. posted = NoEvent
  BY DEF Init
<1> QED BY <1>1, <1>2, <1>3 DEF CareInv, LinesOK, Attended

\* Every step of the client keeps CareInv.
LEMMA NextKeepsCare ==
    ASSUME CareInv, [Next]_vars
    PROVE  CareInv'
<1>1. CASE Next
  BY <1>1, CallKeepsCare, LuaKeepsCare, TcpipKeepsCare, WorldKeepsCare DEF Next
<1>2. CASE UNCHANGED vars
  BY <1>2 DEF vars, client, timers, network, line, CareInv, LinesOK, Attended,
       Cared, Closing, Forcing, In, Busy, Failed, Connected, Retrying, OnBus,
       ThreadsOK, FlagsOK, Crashed
<1> QED BY <1>1, <1>2

\* A client at rest that is to reconnect and is not connected has its next
\* attempt under way, in any order of the two threads' closes and connects.
THEOREM NextConnectionComes == Spec => []NotForgotten
<1>1. Init => CareInv
  BY InitIsCared
<1>2. CareInv /\ [Next]_vars => CareInv'
  BY NextKeepsCare
<1>3. CareInv => NotForgotten
  <2> SUFFICES ASSUME CareInv, Quiet, reconnect, ~ blind, ~ dropped
               PROVE  \/ Retrying
                      \/ mqtt_state = "SCONNECT" /\ netc \in {"wait", "connecting"}
                      \/ mqtt_state \in {"MQTT", "READY"} /\ netc = "online"
    BY DEF NotForgotten
  <2>1. at["lua"] = "idle" /\ at["tcpip"] = "idle" /\ netc # "freed"
    BY DEF Quiet, Threads
  <2>2. posted = NoEvent /\ ~ Failed /\ ~ Connected
    BY DEF Quiet, Failed, Connected, NoEvent
  <2>3. ~ Busy /\ ~ Closing /\ ~ Crashed
    BY <2>1 DEF Busy, Closing, In, Crashed
  <2>4. Cared /\ (mqtt_state = "SCONNECT" => netc # "online")
    BY <2>1, <2>2, <2>3 DEF CareInv, Attended
  <2> QED BY <2>1, <2>2, <2>3, <2>4 DEF Cared, CareInv, LinesOK, MqttStates
<1> QED BY <1>1, <1>2, <1>3, PTL DEF Spec
----------------------------------------------------------------------------
(* The script is not misled.  BelievesUp says that "conack" is what the    *)
(* script has heard last or will have heard last once it has handled the   *)
(* bus.  LeadInv is inductive: then the connection is up, or it is Doomed, *)
(* some thread being bound to put DISCONNECT on the bus or to crash on the *)
(* emptied receive buffer.  SessionOk is what ties a CONNACK that is still *)
(* being read to the connection it came on: a new connection begins with a *)
(* broker that has not accepted it, and with no CONNACK that is unread.    *)

Halves == Packets \cup {"rest"}
BytesOK == buf \in Seq(Halves) /\ rx \in Seq(Halves) /\ netc \in NetStates

BelievesUp ==
    \/ told = "up" /\ ~ OnBus("DISCONNECT")
    \/ \E i \in DOMAIN bus : /\ bus[i] = "CONNACK"
                             /\ \A k \in DOMAIN bus : k > i => bus[k] # "DISCONNECT"

Accepting(s) == \E i \in DOMAIN s : s[i] = "CONNACK"
Unused == netc \in {"off", "wait", "connecting"}

SessionOk ==
    /\ Unused \/ Connected \/ at["tcpip"] = "hello" => session = "none"
    /\ Accepting(rx) => session = "up"
    /\ Accepting(buf) => \/ session = "up"
                         \/ at["lua"] \in {"timers", "closed"} /\ netc = "off"
                         \/ at["tcpip"] # "idle" /\ Unused
    /\ at["tcpip"] = "accept" => /\ session = "up" \/ Unused
                                 /\ mqtt_state # "DISCONNECT" \/ Len(buf) < 2

Doomed ==
    \/ In({"clear", "force"})
    \/ /\ mqtt_state # "DISCONNECT"
       /\ In({"close"}) \/ Failed \/ (Busy /\ netc # "online")
    \/ at["tcpip"] \in {"accept", "consume"} /\ Len(buf) < 2

Lead == BelievesUp /\ ~ dropped => (netc = "online" /\ session = "up") \/ Doomed

Going == netc # "freed" /\ ~ Crashed

LeadInv == BytesOK /\ (Going => SessionOk /\ Lead)

\* A message put on the bus: DISCONNECT ends what the script believes, and
\* only CONNACK makes it believe more.
LEMMA PutsAndBelief ==
    ASSUME bus \in Seq(Messages), dropped \in BOOLEAN, NEW m \in Messages, Puts(m),
           told' = told, BelievesUp', ~ dropped'
    PROVE  ~ dropped /\ m # "DISCONNECT" /\ (m # "CONNACK" => BelievesUp)
<1>1. QUEUE_LENGTH \in Nat /\ Len(bus) \in Nat
  BY MqttAssumption
<1>2. Len(bus) < QUEUE_LENGTH /\ ~ dropped
  <2>1. ~ dropped /\ ~ (Len(bus) >= QUEUE_LENGTH)
    BY Zenon DEF Puts
  <2> QED BY <1>1, <2>1
<1>3. bus' = Append(bus, m)
  BY <1>2 DEF Puts
<1>4. /\ Len(bus') = Len(bus) + 1 /\ bus'[Len(bus) + 1] = m
      /\ \A i \in 1 .. Len(bus) : bus'[i] = bus[i]
      /\ DOMAIN bus = 1 .. Len(bus) /\ DOMAIN bus' = 1 .. Len(bus) + 1
  BY <1>3
<1> HIDE DEF Puts
<1>5. m # "DISCONNECT"
  BY <1>1, <1>4 DEF BelievesUp, OnBus
<1>6. ASSUME m # "CONNACK" PROVE BelievesUp
  <2>1. CASE told = "up" /\ ~ OnBus("DISCONNECT")'
    BY <2>1, <1>1, <1>4 DEF BelievesUp, OnBus
  <2>2. CASE \E i \in DOMAIN bus' : /\ bus'[i] = "CONNACK"
                                    /\ \A k \in DOMAIN bus' : k > i => bus'[k] # "DISCONNECT"
    <3>1. PICK i \in DOMAIN bus' : /\ bus'[i] = "CONNACK"
                                   /\ \A k \in DOMAIN bus' : k > i => bus'[k] # "DISCONNECT"
      BY <2>2
    <3>2. i \in DOMAIN bus /\ bus[i] = "CONNACK"
      BY <3>1, <1>1, <1>4, <1>6
    <3>3. \A k \in DOMAIN bus : k > i => bus[k] # "DISCONNECT"
      BY <3>1, <1>1, <1>4
    <3> QED BY <3>2, <3>3 DEF BelievesUp
  <2> QED BY <2>1, <2>2 DEF BelievesUp
<1> QED BY <1>2, <1>5, <1>6

\* A message taken from the bus: what it tells was known to come.
LEMMA TakesAndBelief ==
    ASSUME bus \in Seq(Messages), NEW m \in Messages, Takes(m),
           told' = CASE m = "CONNACK" -> "up" [] m = "DISCONNECT" -> "down"
                     [] OTHER -> told,
           BelievesUp'
    PROVE  BelievesUp
<1>1. /\ m = bus[1] /\ Len(bus) \in Nat /\ Len(bus) >= 1
      /\ DOMAIN bus = 1 .. Len(bus) /\ DOMAIN bus' = 1 .. Len(bus) - 1
      /\ \A i \in 1 .. Len(bus) - 1 : bus'[i] = bus[i + 1]
  BY DEF Takes
<1>2. CASE told' = "up" /\ ~ OnBus("DISCONNECT")'
  <2>1. \A i \in 2 .. Len(bus) : bus[i] # "DISCONNECT"
    <3> SUFFICES ASSUME NEW i \in 2 .. Len(bus) PROVE bus[i] # "DISCONNECT"
      OBVIOUS
    <3>1. i - 1 \in DOMAIN bus' /\ bus'[i - 1] = bus[i]
      BY <1>1
    <3> QED BY <3>1, <1>2 DEF OnBus
  <2>2. m # "DISCONNECT" /\ (m = "CONNACK" \/ told = "up")
    BY <1>2
  <2>3. CASE m = "CONNACK"
    <3>1. 1 \in DOMAIN bus /\ bus[1] = "CONNACK"
      BY <2>3, <1>1
    <3>2. \A k \in DOMAIN bus : k > 1 => bus[k] # "DISCONNECT"
      BY <2>1, <1>1
    <3> QED BY <3>1, <3>2 DEF BelievesUp
  <2>4. CASE told = "up"
    <3>1. \A i \in DOMAIN bus : bus[i] # "DISCONNECT"
      BY <2>1, <2>2, <1>1
    <3> QED BY <2>4, <3>1 DEF BelievesUp, OnBus
  <2> QED BY <2>2, <2>3, <2>4
<1>3. CASE \E i \in DOMAIN bus' : /\ bus'[i] = "CONNACK"
                                  /\ \A k \in DOMAIN bus' : k > i => bus'[k] # "DISCONNECT"
  <2>1. PICK i \in DOMAIN bus' : /\ bus'[i] = "CONNACK"
                                 /\ \A k \in DOMAIN bus' : k > i => bus'[k] # "DISCONNECT"
    BY <1>3
  <2>2. i + 1 \in DOMAIN bus /\ bus[i + 1] = "CONNACK"
    BY <2>1, <1>1
  <2>3. \A k \in DOMAIN bus : k > i + 1 => bus[k] # "DISCONNECT"
    <3> SUFFICES ASSUME NEW k \in DOMAIN bus, k > i + 1 PROVE bus[k] # "DISCONNECT"
      OBVIOUS
    <3>1. k - 1 \in DOMAIN bus' /\ k - 1 > i /\ bus'[k - 1] = bus[k]
      BY <1>1, <2>1
    <3> QED BY <3>1, <2>1
  <2> QED BY <2>2, <2>3 DEF BelievesUp
<1> QED BY <1>2, <1>3 DEF BelievesUp

\* What is joined to the bytes read or sent brings a CONNACK or none is new.
LEMMA AcceptingJoin ==
    ASSUME NEW a \in Seq(Halves), NEW b \in Seq(Halves), Accepting(a \o b)
    PROVE  Accepting(a) \/ Accepting(b)
<1>1. PICK i \in DOMAIN (a \o b) : (a \o b)[i] = "CONNACK"
  BY DEF Accepting
<1>2. Len(a) \in Nat /\ Len(b) \in Nat /\ i \in 1 .. Len(a) + Len(b)
  OBVIOUS
<1>3. CASE i <= Len(a)
  <2>1. i \in DOMAIN a /\ a[i] = "CONNACK"
    BY <1>1, <1>2, <1>3
  <2> QED BY <2>1 DEF Accepting
<1>4. CASE ~ (i <= Len(a))
  <2>1. i - Len(a) \in DOMAIN b /\ b[i - Len(a)] = "CONNACK"
    BY <1>1, <1>2, <1>4
  <2> QED BY <2>1 DEF Accepting
<1> QED BY <1>3, <1>4

\* The steps of luat_mqtt_close_socket on either thread.
LEMMA CloseKeepsLead ==
    ASSUME AliveInv, CareInv, LeadInv, NEW t \in Threads, CloseSocket(t)
    PROVE  LeadInv'
<1> USE DEF LeadInv, Going, BytesOK, SessionOk, Lead, Doomed, Unused, Connected, Failed,
        In, Busy, Crashed, Threads, NetStates, Goto, client, timers, network, line, script
<1>0. /\ bus \in Seq(Messages) /\ dropped \in BOOLEAN /\ at \in [Threads -> Places]
      /\ after \in [Threads -> Returns] /\ {"CLOSE", "DISCONNECT"} \subseteq Messages
  BY DEF CareInv, LinesOK, ThreadsOK, FlagsOK, Messages
<1>1. CASE TestsState(t)
  <2>1. BelievesUp' = BelievesUp
    BY <1>1 DEF TestsState, BelievesUp, OnBus
  <2> QED BY <1>0, <1>1, <2>1 DEF TestsState, Accepting
<1>2. CASE ClearsState(t)
  <2>1. buf' = <<>> /\ ~ Accepting(buf)' /\ Len(buf') < 2
    BY <1>2 DEF ClearsState, Accepting
  <2> QED BY <1>0, <1>2, <2>1 DEF ClearsState, Accepting
<1>3. CASE ForcesClose(t)
  <2>0. BytesOK'
    <3>1. UNCHANGED buf /\ (UNCHANGED <<netc, rx>> \/ (netc' = "off" /\ rx' = <<>>))
      BY <1>3 DEF ForcesClose, NoSocket
    <3>2. netc' \in NetStates
      BY <3>1
    <3>3. rx' \in Seq(Halves) /\ buf' \in Seq(Halves)
      <4>1. <<>> \in Seq(Halves)
        OBVIOUS
      <4>2. CASE rx' = <<>>
        BY <3>1, <4>1, <4>2
      <4>3. CASE rx' = rx
        BY <3>1, <4>3
      <4> QED BY <3>1, <4>2, <4>3
    <3> QED BY <3>2, <3>3
  <2> SUFFICES ASSUME Going' PROVE SessionOk' /\ Lead'
    BY <2>0
  <2>1. Going /\ NoSocket /\ Puts("DISCONNECT")
    BY <1>0, <1>3 DEF ForcesClose, Places
  <2>2. BelievesUp' => dropped'
    BY <1>0, <1>3, <2>1, PutsAndBelief DEF ForcesClose
  <2>3. rx' = <<>> /\ ~ Accepting(rx)' /\ session' = "none" /\ netc' = "off"
    BY <2>1 DEF NoSocket, Accepting
  <2>4. Accepting(buf)' = Accepting(buf)
    BY <1>3 DEF ForcesClose, Accepting
  <2> QED BY <1>0, <1>3, <2>1, <2>2, <2>3, <2>4 DEF ForcesClose
<1>4. CASE StartsRetry(t)
  <2>1. UNCHANGED <<bus, dropped>> \/ Puts("CLOSE")
    BY <1>4 DEF StartsRetry
  <2>2. BelievesUp' /\ ~ dropped' => BelievesUp /\ ~ dropped
    <3>1. CASE UNCHANGED <<bus, dropped>>
      BY <1>4, <3>1 DEF StartsRetry, BelievesUp, OnBus
    <3>2. CASE Puts("CLOSE")
      BY <1>0, <1>4, <3>2, PutsAndBelief DEF StartsRetry
    <3> QED BY <2>1, <3>1, <3>2
  <2> QED BY <1>0, <1>4, <2>2 DEF StartsRetry, Accepting, AliveInv
<1>5. CASE Closes(t)
  <2>1. buf' = <<>> /\ ~ Accepting(buf)' /\ Len(buf') < 2
    BY <1>5 DEF Closes, Accepting
  <2>2. BelievesUp' = BelievesUp /\ after[t] \in Returns
    BY <1>0, <1>5 DEF Closes, BelievesUp, OnBus
  <2> QED BY <1>0, <1>5, <2>1, <2>2 DEF Closes, Accepting, Returns
<1> QED BY <1>1, <1>2, <1>3, <1>4, <1>5 DEF CloseSocket

\* The calls of the script.
LEMMA CallKeepsLead ==
    ASSUME AliveInv, CareInv, LeadInv, Call
    PROVE  LeadInv'
<1> USE DEF LeadInv, Going, BytesOK, SessionOk, Lead, Doomed, Unused, Connected, Failed,
        In, Busy, Crashed, Threads, NetStates, Goto, client, timers, network, line, script
<1>0. /\ at \in [Threads -> Places] /\ at["lua"] = "idle" /\ netc # "freed"
      /\ UNCHANGED <<mqtt_state, buf, posted, told, bus, dropped>>
  BY DEF CareInv, LinesOK, ThreadsOK, Call, Connect, Publish, Disconnect, Called
<1>1. BelievesUp' = BelievesUp /\ Accepting(buf)' = Accepting(buf)
  BY <1>0 DEF BelievesUp, OnBus, Accepting
<1>2. CASE Connect
  <2>1. at' = [at EXCEPT !["lua"] = "started"]
    BY <1>2 DEF Connect, StartsConnect
  <2>2. CASE HasSocket
    BY <1>0, <1>1, <1>2, <2>1, <2>2 DEF Connect, StartsConnect, HasSocket, Accepting
  <2>3. CASE ~ HasSocket
    <3>1. /\ rx' = <<>> /\ session' = "none" /\ netc' \in {"off", "wait", "connecting"}
          /\ ~ Accepting(rx)' /\ netc \in {"off", "wait"}
      BY <1>0, <1>2, <2>3 DEF Connect, StartsConnect, HasSocket, NoSocket, Accepting
    <3> QED BY <1>0, <1>1, <2>1, <3>1
  <2> QED BY <2>2, <2>3
<1>3. CASE Publish \/ Disconnect
  <2>1. PICK next \in {"idle", "sent", "drop", "end"}, l \in {"idle", "drop", "end"} :
                Send("lua", session, next, l)
    BY <1>3 DEF Publish, Disconnect
  <2> HIDE <1>3
  <2>2. UNCHANGED <<session, rx>> /\ Accepting(rx)' = Accepting(rx)
    BY <1>0, <2>1 DEF Send, Accepting
  <2>3. \/ UNCHANGED netc /\ at' = [at EXCEPT !["lua"] = next]
        \/ /\ netc' = "lost" /\ netc = "online"
           /\ at' = [at EXCEPT !["lua"] = "close"]
        \/ UNCHANGED netc /\ netc # "online" /\ at' = [at EXCEPT !["lua"] = "close"]
    BY <1>0, <2>1 DEF Send, CloseThen
  <2>4. CASE UNCHANGED netc
    BY <1>0, <1>1, <2>2, <2>3, <2>4
  <2>5. CASE netc' = "lost" /\ netc = "online" /\ at' = [at EXCEPT !["lua"] = "close"]
    <3>1. mqtt_state = "DISCONNECT" => Connected \/ at["tcpip"] = "force"
      BY <1>0, <2>5 DEF CareInv, Attended, Forcing
    <3> QED BY <1>0, <1>1, <2>2, <2>5, <3>1
  <2> QED BY <2>3, <2>4, <2>5
<1> QED BY <1>2, <1>3 DEF Call

\* What the Lua thread goes on with, and the messages it takes from the bus.
LEMMA LuaKeepsLead ==
    ASSUME AliveInv, CareInv, LeadInv, LuaStep
    PROVE  LeadInv'
<1> USE DEF LeadInv, Going, BytesOK, SessionOk, Lead, Doomed, Unused, Connected, Failed,
        In, Busy, Crashed, Threads, NetStates, Goto, client, timers, network, line, script
<1>0. /\ at \in [Threads -> Places] /\ bus \in Seq(Messages) /\ dropped \in BOOLEAN
      /\ {"DATA", "RELEASE", "PING", "RECONNECT"} \subseteq Messages
  BY DEF CareInv, LinesOK, ThreadsOK, FlagsOK, Messages
<1>1. CASE CloseSocket("lua")
  BY <1>1, CloseKeepsLead
<1>2. CASE Started
  <2>1. BelievesUp' = BelievesUp
    BY <1>2 DEF Started, BelievesUp, OnBus
  <2> QED BY <1>0, <1>2, <2>1 DEF Started, Accepting
<1>3. CASE Announces
  <2>1. BelievesUp' /\ ~ dropped' => BelievesUp /\ ~ dropped
    BY <1>0, <1>3, PutsAndBelief DEF Announces
  <2> QED BY <1>0, <1>3, <2>1 DEF Announces, Accepting
<1>4. CASE Drops
  <2>1. BelievesUp' = BelievesUp
    BY <1>4 DEF Drops, BelievesUp, OnBus
  <2>2. at["lua"] \in {"drop", "end"} /\ at' = [at EXCEPT !["lua"] = "close"]
    BY <1>4 DEF Drops, CloseThen
  <2> QED BY <1>0, <1>4, <2>1, <2>2 DEF Drops, Accepting
<1>5. CASE Release
  BY <1>5 DEF Release
<1>6. CASE HandlesPing
  <2>1. Takes("PING") /\ Send("lua", session, "idle", "idle")
    BY <1>6 DEF HandlesPing
  <2>2. /\ UNCHANGED <<mqtt_state, buf, posted, told, dropped, session, rx>>
        /\ at["lua"] = "idle"
    BY <1>6, <2>1 DEF HandlesPing, Send, Takes
  <2>3. (BelievesUp' => BelievesUp) /\ Accepting(rx)' = Accepting(rx)
        /\ Accepting(buf)' = Accepting(buf)
    BY <1>0, <2>1, <2>2, TakesAndBelief DEF Accepting
  <2>4. \/ UNCHANGED netc /\ UNCHANGED at
        \/ netc' = "lost" /\ netc = "online" /\ at' = [at EXCEPT !["lua"] = "close"]
        \/ UNCHANGED netc /\ netc # "online" /\ at' = [at EXCEPT !["lua"] = "close"]
        \/ UNCHANGED netc /\ at' = [t \in Threads |-> "crashed"]
    BY <1>0, <2>1, <2>2 DEF Send, CloseThen, Crash
  <2>5. CASE UNCHANGED netc /\ at'["lua"] # "crashed"
    BY <1>0, <2>2, <2>3, <2>4, <2>5
  <2>6. CASE netc' = "lost" /\ netc = "online" /\ at' = [at EXCEPT !["lua"] = "close"]
    <3>1. mqtt_state = "DISCONNECT" => Connected \/ at["tcpip"] = "force"
      BY <2>2, <2>6 DEF CareInv, Attended, Forcing
    <3> QED BY <1>0, <2>2, <2>3, <2>6, <3>1
  <2>7. CASE UNCHANGED netc /\ at'["lua"] = "crashed"
    BY <2>2, <2>7
  <2> QED BY <1>0, <2>2, <2>4, <2>5, <2>6, <2>7
<1>7. CASE HandlesReconnect
  <2>1. Takes("RECONNECT") /\ buf' = <<>> /\ UNCHANGED <<mqtt_state, posted, told, dropped>>
    BY <1>7 DEF HandlesReconnect
  <2>2. at["lua"] = "idle" /\ (BelievesUp' => BelievesUp) /\ ~ Accepting(buf)'
        /\ Len(buf') < 2
    BY <1>0, <2>1, TakesAndBelief DEF Takes, Accepting
  <2>3. CASE netc = "freed"
    BY <1>7, <2>1, <2>3 DEF HandlesReconnect, Crash
  <2>4. CASE netc # "freed"
    <3>0. StartsConnect /\ at' = [at EXCEPT !["lua"] = "started"]
      BY <1>7, <2>4 DEF HandlesReconnect, StartsConnect
    <3>1. CASE HasSocket
      BY <1>0, <2>1, <2>2, <2>4, <3>0, <3>1 DEF StartsConnect, HasSocket, Accepting
    <3>2. CASE ~ HasSocket
      <4>1. /\ rx' = <<>> /\ session' = "none" /\ netc' \in {"off", "wait", "connecting"}
            /\ ~ Accepting(rx)' /\ netc \in {"off", "wait"}
        BY <2>4, <3>0, <3>2 DEF StartsConnect, HasSocket, NoSocket, Accepting
      <4> QED BY <1>0, <2>1, <2>2, <2>4, <3>0, <4>1
    <3> QED BY <3>1, <3>2
  <2> QED BY <2>3, <2>4
<1>8. CASE Tells
  <2>1. PICK m \in Messages \ {"PING", "RECONNECT"} :
            /\ Takes(m)
            /\ told' = CASE m = "CONNACK" -> "up" [] m = "DISCONNECT" -> "down"
                         [] OTHER -> told
    BY <1>8 DEF Tells
  <2>2. BelievesUp' => BelievesUp
    BY <1>0, <2>1, TakesAndBelief
  <2>3. UNCHANGED <<mqtt_state, buf, rx, netc, session, posted, at, dropped>>
    BY <1>8 DEF Tells
  <2> QED BY <2>2, <2>3 DEF Accepting
<1> QED BY <1>1, <1>2, <1>3, <1>4, <1>5, <1>6, <1>7, <1>8 DEF LuaStep

\* luat_mqtt_callback and the reading of packets.
LEMMA TcpipKeepsLead ==
    ASSUME AliveInv, CareInv, LeadInv, TcpipStep
    PROVE  LeadInv'
<1> USE DEF LeadInv, Going, BytesOK, SessionOk, Lead, Doomed, Unused, Connected, Failed,
        In, Busy, Crashed, Threads, NetStates, Goto, client, timers, network, line, script
<1>0. /\ at \in [Threads -> Places] /\ bus \in Seq(Messages) /\ dropped \in BOOLEAN
      /\ {"CONNACK", "DATA"} \subseteq Messages
      /\ posted # NoEvent => at["tcpip"] \in {"idle", "crashed"}
      /\ posted \in Events \cup {NoEvent}
  BY DEF CareInv, LinesOK, ThreadsOK, FlagsOK, Messages
<1>a. ASSUME UNCHANGED <<told, bus>>
      PROVE  BelievesUp' = BelievesUp
  BY <1>a DEF BelievesUp, OnBus
<1>b. UNCHANGED buf => Accepting(buf)' = Accepting(buf)
  BY DEF Accepting
<1>c. UNCHANGED rx => Accepting(rx)' = Accepting(rx)
  BY DEF Accepting
<1>1. CASE CloseSocket("tcpip")
  BY <1>1, CloseKeepsLead
<1>2. CASE Callback
  <2>0. /\ at["tcpip"] = "idle" /\ posted # NoEvent /\ posted' = NoEvent
        /\ UNCHANGED <<buf, rx, netc, session, told, bus, dropped>>
    BY <1>2 DEF Callback
  <2>1. posted.ok \in BOOLEAN /\ posted.id \in {"CONNECT", "EVENT"}
    BY <1>0, <2>0 DEF Events
  <2>2. CASE ~ posted.ok
    <3>1. at' = [at EXCEPT !["tcpip"] = "close"] /\ UNCHANGED mqtt_state
      BY <1>2, <2>2 DEF Callback, CloseThen
    <3> QED BY <1>0, <1>a, <1>b, <1>c, <2>0, <2>2, <3>1 DEF NoEvent
  <2>3. CASE posted.ok /\ posted.id = "CONNECT"
    <3>1. at' = [at EXCEPT !["tcpip"] = "hello"] /\ mqtt_state' = "MQTT"
      BY <1>2, <2>3 DEF Callback
    <3>2. Connected
      BY <1>0, <2>0, <2>3 DEF Events
    <3> QED BY <1>0, <1>a, <1>b, <1>c, <2>0, <2>3, <3>1, <3>2 DEF NoEvent
  <2>4. CASE posted.ok /\ posted.id = "EVENT"
    <3>1. at' = [at EXCEPT !["tcpip"] = "data"] /\ UNCHANGED mqtt_state
      BY <1>2, <2>4 DEF Callback
    <3>2. ~ Connected
      BY <2>4
    <3> QED BY <1>0, <1>a, <1>b, <1>c, <2>0, <2>4, <3>1, <3>2 DEF NoEvent
  <2> QED BY <2>1, <2>2, <2>3, <2>4
<1>3. CASE SendsConnect
  <2>0. /\ at["tcpip"] = "hello" /\ Send("tcpip", "asked", "arm", "wait")
        /\ UNCHANGED <<mqtt_state, buf, posted, told, bus, dropped>>
    BY <1>3 DEF SendsConnect
  <2> HIDE <1>3
  <2>1. UNCHANGED rx /\ posted = NoEvent /\ (netc = "freed" \/ session = "none" \/ Crashed)
    BY <1>0, <2>0 DEF Send, NoEvent
  <2>2. CASE netc = "online" /\ session' = "asked" /\ UNCHANGED netc
             /\ at' = [at EXCEPT !["tcpip"] = "arm"]
    BY <1>0, <1>a, <1>b, <1>c, <2>0, <2>1, <2>2 DEF NoEvent
  <2>3. CASE /\ \/ netc' = "lost" /\ netc = "online"
                \/ UNCHANGED netc /\ netc # "online"
             /\ netc' # "freed" /\ netc # "freed" /\ UNCHANGED session
             /\ at' = [at EXCEPT !["tcpip"] = "close"]
    BY <1>0, <1>a, <1>b, <1>c, <2>0, <2>1, <2>3
  <2>4. CASE netc = "freed" /\ UNCHANGED netc
    BY <2>0, <2>1, <2>4
  <2> QED BY <2>0, <2>2, <2>3, <2>4 DEF Send, CloseThen
<1>4. CASE StartsPing
  BY <1>0, <1>4, <1>a, <1>b, <1>c DEF StartsPing
<1>5. CASE WaitsEvent
  <2>0. /\ at["tcpip"] = "wait"
        /\ UNCHANGED <<mqtt_state, buf, rx, netc, session, posted, told, bus, dropped>>
    BY <1>5 DEF WaitsEvent
  <2>1. CASE netc = "freed"
    BY <2>0, <2>1
  <2>2. CASE netc # "freed" /\ (new_rx \/ netc = "online")
    <3>1. at' = [at EXCEPT !["tcpip"] = "idle"]
      BY <1>5, <2>2 DEF WaitsEvent
    <3>2. ~ Crashed => netc = "online" \/ (netc = "lost" /\ In({"close", "clear", "force"}))
      BY <1>0, <2>0, <2>2 DEF CareInv, Attended
    <3> QED BY <1>0, <1>a, <1>b, <1>c, <2>0, <3>1, <3>2
  <2>3. CASE netc # "freed" /\ ~ (new_rx \/ netc = "online")
    <3>1. at' = [at EXCEPT !["tcpip"] = "close"]
      BY <1>5, <2>3 DEF WaitsEvent, CloseThen
    <3> QED BY <1>0, <1>a, <1>b, <1>c, <2>0, <2>3, <3>1
  <2> QED BY <2>1, <2>2, <2>3
<1>6. CASE Looks
  <2>0. /\ at["tcpip"] = "data"
        /\ UNCHANGED <<mqtt_state, buf, rx, netc, session, posted, told, bus, dropped>>
    BY <1>6 DEF Looks
  <2>1. \/ at' = [at EXCEPT !["tcpip"] = "wait"] \/ at' = [at EXCEPT !["tcpip"] = "close"]
        \/ at' = [at EXCEPT !["tcpip"] = "read"] \/ netc = "freed"
    BY <1>6 DEF Looks, CloseThen, Readable
  <2> QED BY <1>0, <1>a, <1>b, <1>c, <2>0, <2>1
<1>7. CASE Reads
  <2>0. /\ at["tcpip"] \in {"read", "more"}
        /\ UNCHANGED <<mqtt_state, netc, session, posted, told, bus, dropped>>
    BY <1>7 DEF Reads
  <2>1. CASE UNCHANGED <<buf, rx>>
    <3>1. at' = [at EXCEPT !["tcpip"] = "parse"] \/ at' = [at EXCEPT !["tcpip"] = "wait"]
          \/ netc = "freed"
      BY <1>7 DEF Reads
    <3> QED BY <1>0, <1>a, <1>b, <1>c, <2>0, <2>1, <3>1
  <2>2. CASE ~ UNCHANGED <<buf, rx>>
    <3>1. PICK n \in 1 .. Len(rx) : /\ buf' = buf \o SubSeq(rx, 1, n)
                                    /\ rx' = SubSeq(rx, n + 1, Len(rx))
      BY <1>7, <2>2 DEF Reads
    <3>2. at' = [at EXCEPT !["tcpip"] = "parse"]
      BY <1>7, <2>2 DEF Reads
    <3>3. buf' \in Seq(Halves) /\ rx' \in Seq(Halves)
      BY <3>1
    <3>4. \A i \in DOMAIN rx' : i + n \in DOMAIN rx /\ rx'[i] = rx[i + n]
      BY <3>1
    <3> DEFINE s == SubSeq(rx, 1, n)
    <3>5. s \in Seq(Halves) /\ \A i \in DOMAIN s : i \in DOMAIN rx /\ s[i] = rx[i]
      BY <3>1
    <3>6. buf' = buf \o s
      BY <3>1
    <3> HIDE DEF s
    <3>7. Accepting(buf)' => Accepting(buf) \/ Accepting(s)
      BY <3>5, <3>6, AcceptingJoin
    <3>8. /\ Accepting(rx)' => Accepting(rx)
          /\ Accepting(buf)' => Accepting(buf) \/ Accepting(rx)
      BY <3>4, <3>5, <3>7 DEF Accepting
    <3> QED BY <1>0, <1>a, <2>0, <3>2, <3>3, <3>8
  <2> QED BY <2>1, <2>2
<1>8. CASE WantsMore \/ Ignored
  BY <1>0, <1>8, <1>a, <1>b, <1>c DEF WantsMore, Ignored, Parsing
<1>9. CASE Accepted
  <2>1. Accepting(buf)
    BY <1>9 DEF Accepted, Parsing, Accepting
  <2>2. /\ at["tcpip"] = "parse" /\ at' = [at EXCEPT !["tcpip"] = "accept"]
        /\ mqtt_state' = "READY"
        /\ UNCHANGED <<buf, rx, netc, session, posted, told, bus, dropped>>
    BY <1>9 DEF Accepted, Parsing
  <2> QED BY <1>0, <1>a, <1>b, <1>c, <2>1, <2>2
<1>10. CASE TellsAccepted
  <2>0. /\ at["tcpip"] = "accept" /\ at' = [at EXCEPT !["tcpip"] = "consume"]
        /\ UNCHANGED <<mqtt_state, buf, rx, netc, session, posted, told>>
        /\ Puts("CONNACK")
    BY <1>10 DEF TellsAccepted
  <2> QED BY <1>0, <1>b, <1>c, <2>0
<1>11. CASE Refused \/ BadPacket
  <2>0. /\ at["tcpip"] \in {"parse", "bad"} /\ at' = [at EXCEPT !["tcpip"] = "close"]
        /\ UNCHANGED <<mqtt_state, buf, rx, netc, session, posted, told, bus, dropped>>
    BY <1>11 DEF Refused, BadPacket, Parsing, CloseThen
  <2> QED BY <1>0, <1>a, <1>b, <1>c, <2>0
<1>12. CASE Received
  <2>0. /\ at["tcpip"] = "parse" /\ Puts("DATA")
        /\ at' = [at EXCEPT !["tcpip"] = "reply"] \/ at' = [at EXCEPT !["tcpip"] = "consume"]
        /\ UNCHANGED <<mqtt_state, buf, rx, netc, session, posted, told>>
    BY <1>12 DEF Received, Parsing
  <2>1. BelievesUp' /\ ~ dropped' => BelievesUp /\ ~ dropped
    BY <1>0, <2>0, PutsAndBelief
  <2> QED BY <1>0, <1>b, <1>c, <2>0, <2>1
<1>13. CASE Replies
  <2>0. /\ at["tcpip"] = "reply" /\ Send("tcpip", session, "consume", "consume")
        /\ UNCHANGED <<mqtt_state, buf, posted, told, bus, dropped>>
    BY <1>13 DEF Replies
  <2> HIDE <1>13
  <2>1. UNCHANGED <<rx, session>>
    BY <2>0 DEF Send
  <2>2. CASE netc = "online" /\ UNCHANGED netc /\ at' = [at EXCEPT !["tcpip"] = "consume"]
    BY <1>0, <1>a, <1>b, <1>c, <2>0, <2>1, <2>2
  <2>3. CASE netc' = "lost" /\ netc = "online" /\ at' = [at EXCEPT !["tcpip"] = "close"]
    <3>1. mqtt_state = "DISCONNECT" => Connected \/ at["lua"] = "force" \/ Crashed
      BY <1>0, <2>0, <2>3 DEF CareInv, Attended, Forcing
    <3>2. ~ Connected
      BY <1>0, <2>0 DEF NoEvent
    <3> QED BY <1>0, <1>a, <1>b, <1>c, <2>0, <2>1, <2>3, <3>1, <3>2
  <2>4. CASE /\ UNCHANGED netc /\ netc \notin {"online", "freed"}
             /\ at' = [at EXCEPT !["tcpip"] = "close"]
    BY <1>0, <1>a, <1>b, <1>c, <2>0, <2>1, <2>4
  <2>5. CASE netc = "freed" /\ UNCHANGED netc
    BY <2>0, <2>1, <2>5
  <2> QED BY <2>0, <2>2, <2>3, <2>4, <2>5 DEF Send, CloseThen
<1>14. CASE Consumes
  <2>0. /\ at["tcpip"] = "consume"
        /\ UNCHANGED <<mqtt_state, rx, netc, session, posted, told, bus, dropped>>
    BY <1>14 DEF Consumes
  <2>1. CASE Len(buf) >= 2
    <3>1. /\ buf' = SubSeq(buf, 3, Len(buf))
          /\ at' = [at EXCEPT !["tcpip"] = IF Len(buf) > 2 THEN "parse" ELSE "more"]
      BY <1>14, <2>1 DEF Consumes
    <3>2. buf' \in Seq(Halves) /\ (Accepting(buf)' => Accepting(buf))
      <4>1. \A i \in DOMAIN buf' : i + 2 \in DOMAIN buf /\ buf'[i] = buf[i + 2]
        BY <2>1, <3>1
      <4> QED BY <2>1, <3>1, <4>1 DEF Accepting
    <3>3. ~ (Len(buf) < 2)
      BY <2>1
    <3> QED BY <1>0, <1>a, <1>c, <2>0, <3>1, <3>2, <3>3
  <2>2. CASE ~ (Len(buf) >= 2)
    <3>1. UNCHANGED buf /\ at'["lua"] = "crashed"
      BY <1>14, <2>2 DEF Consumes, Crash
    <3> QED BY <2>0, <3>1
  <2> QED BY <2>1, <2>2
<1> QED BY <1>1, <1>2, <1>3, <1>4, <1>5, <1>6, <1>7, <1>8, <1>9, <1>10, <1>11,
           <1>12, <1>13, <1>14 DEF TcpipStep

\* The ctrl, the broker and the timers.
LEMMA WorldKeepsLead ==
    ASSUME AliveInv, CareInv, LeadInv, World \/ Mishap \/ Delivers \/ PingExpires
    PROVE  LeadInv'
<1> USE DEF LeadInv, Going, BytesOK, SessionOk, Lead, Doomed, Unused, Connected, Failed,
        In, Busy, Crashed, Threads, NetStates, client, timers, network, line, script
<1>0. /\ at \in [Threads -> Places] /\ bus \in Seq(Messages) /\ dropped \in BOOLEAN
      /\ {"PING", "RECONNECT"} \subseteq Messages
  BY DEF CareInv, LinesOK, ThreadsOK, FlagsOK, Messages
<1>a. ASSUME UNCHANGED <<told, bus>>
      PROVE  BelievesUp' = BelievesUp
  BY <1>a DEF BelievesUp, OnBus
<1>b. UNCHANGED buf => Accepting(buf)' = Accepting(buf)
  BY DEF Accepting
<1>c. UNCHANGED rx => Accepting(rx)' = Accepting(rx)
  BY DEF Accepting
<1>1. CASE Resolves
  BY <1>0, <1>1, <1>a, <1>b, <1>c DEF Resolves
<1>2. CASE Connects
  <2>0. /\ netc = "connecting" /\ netc' = "online" /\ at["tcpip"] = "idle"
        /\ posted' = [id |-> "CONNECT", ok |-> TRUE] /\ posted = NoEvent
        /\ UNCHANGED <<mqtt_state, buf, rx, session, told, bus, dropped, at>>
    BY <1>2 DEF Connects, Post
  <2>1. ~ Failed'
    BY <2>0 DEF NoEvent
  <2> QED BY <1>0, <1>a, <1>b, <1>c, <2>0, <2>1 DEF NoEvent
<1>3. CASE ConnectFails \/ ConnectionLost \/ LinkDown
  <2>1. PICK id \in {"CONNECT", "EVENT"} : Post(id, FALSE)
    BY <1>3 DEF ConnectFails, ConnectionLost, LinkDown
  <2>2. /\ posted' = [id |-> id, ok |-> FALSE] /\ posted = NoEvent /\ at["tcpip"] = "idle"
        /\ UNCHANGED <<mqtt_state, buf, rx, session, told, bus, dropped, at>>
    BY <1>3, <2>1 DEF ConnectFails, ConnectionLost, LinkDown, Post
  <2>3. Failed' /\ ~ Connected' /\ ~ Connected /\ ~ Failed
    BY <2>2 DEF NoEvent
  <2>4. \/ netc = "wait" /\ netc' = "off"
        \/ netc = "connecting" /\ netc' = "lost"
        \/ netc = "online" /\ netc' = "lost"
        \/ netc = "off" /\ netc' = "off"
    BY <1>3 DEF ConnectFails, ConnectionLost, LinkDown
  <2>5. netc = "online" /\ mqtt_state = "DISCONNECT" /\ ~ Crashed => In({"force"})
    BY <2>3 DEF CareInv, Attended, Forcing
  <2> QED BY <1>0, <1>a, <1>b, <1>c, <2>2, <2>3, <2>4, <2>5
<1>4. CASE DataComes
  <2>0. /\ netc = "online" /\ posted' = [id |-> "EVENT", ok |-> TRUE]
        /\ posted = NoEvent /\ at["tcpip"] = "idle"
        /\ UNCHANGED <<mqtt_state, buf, rx, netc, session, told, bus, dropped, at>>
    BY <1>4 DEF DataComes, Post
  <2>1. ~ Failed' /\ ~ Connected' /\ ~ Connected /\ ~ Failed
    BY <2>0 DEF NoEvent
  <2> QED BY <1>0, <1>a, <1>b, <1>c, <2>0, <2>1
<1>5. CASE Accepts \/ Refuses \/ Delivers
  <2>1. PICK k \in Packets, s \in {"up", "none"} :
               /\ BrokerSends(k, s)
               /\ \/ k = "CONNACK" /\ s = "up" /\ session = "asked"
                  \/ k = "REFUSED" /\ s = "none" /\ session = "asked"
                  \/ k \in Later /\ s = "up" /\ session = "up"
    BY <1>5 DEF Accepts, Refuses, Delivers, Packets
  <2>2. /\ netc = "online" /\ ~ Crashed /\ session' = s /\ rx' = rx \o <<k, "rest">>
        /\ UNCHANGED <<mqtt_state, buf, netc, posted, told, bus, dropped, at>>
    BY <2>1 DEF BrokerSends
  <2>3. k \in Halves /\ "rest" \in Halves
    BY DEF Halves
  <2>4. rx' \in Seq(Halves) /\ <<k, "rest">> \in Seq(Halves)
    BY <2>2, <2>3
  <2>5. Accepting(rx)' => Accepting(rx) \/ k = "CONNACK"
    <3>1. Accepting(<<k, "rest">>) => k = "CONNACK"
      BY DEF Accepting
    <3> QED BY <2>2, <2>4, <3>1, AcceptingJoin DEF Accepting
  <2>6. k = "CONNACK" => s = "up"
    BY <2>1 DEF Later
  <2>7. session \in {"asked", "up"} /\ (session = "asked" \/ s = "up")
    BY <2>1
  <2>8. (k = "CONNACK" \/ Accepting(rx)) /\ Going => s = "up"
    BY <2>1, <2>6, <2>7
  <2>9. BytesOK'
    BY <2>2, <2>4
  <2>10. Going => SessionOk'
    BY <1>b, <2>2, <2>5, <2>7, <2>8
  <2>11. Going => Lead'
    BY <1>a, <2>2, <2>7
  <2> QED BY <2>2, <2>9, <2>10, <2>11
<1>6. CASE RetryExpires \/ PingExpires
  <2>1. BelievesUp' /\ ~ dropped' => BelievesUp /\ ~ dropped
    BY <1>0, <1>6, PutsAndBelief DEF RetryExpires, PingExpires
  <2>2. UNCHANGED <<mqtt_state, buf, rx, netc, session, posted, at>>
    BY <1>6 DEF RetryExpires, PingExpires
  <2> QED BY <1>0, <1>b, <1>c, <2>1, <2>2
<1> QED BY <1>1, <1>2, <1>3, <1>4, <1>5, <1>6 DEF World, Mishap

\* A script at rest that has handled its messages and heard "conack" last is
\* connected, to a broker that accepted this connection.
THEOREM ScriptIsNotMisled == Spec => []ScriptNotMisled
<1> DEFINE Inv == AliveInv /\ CareInv /\ LeadInv
<1>1. Init => Inv
  <2> SUFFICES ASSUME Init PROVE Inv
    OBVIOUS
  <2>1. AliveInv
    BY DEF Init, AliveInv, ThreadsOK, Threads, Places, Returns, NoEvent
  <2>2. CareInv
    BY InitIsCared
  <2>3. /\ BytesOK /\ netc = "off" /\ session = "none"
        /\ ~ Accepting(rx) /\ ~ Accepting(buf)
    BY DEF Init, BytesOK, NetStates, Accepting
  <2>4. ~ BelievesUp /\ at["tcpip"] = "idle"
    BY DEF Init, BelievesUp, Threads
  <2> QED BY <2>1, <2>2, <2>3, <2>4 DEF LeadInv, SessionOk, Lead
<1>2. Inv /\ [Next]_vars => Inv'
  <2> SUFFICES ASSUME Inv, [Next]_vars PROVE Inv'
    OBVIOUS
  <2>1. AliveInv'
    BY NextKeepsAlive
  <2>2. CareInv'
    BY NextKeepsCare
  <2>3. LeadInv'
    <3>1. CASE Next
      BY <3>1, CallKeepsLead, LuaKeepsLead, TcpipKeepsLead, WorldKeepsLead DEF Next
    <3>2. CASE UNCHANGED vars
      BY <3>2 DEF vars, client, timers, network, line, script, LeadInv, Going, BytesOK,
           SessionOk, Lead, Doomed, Unused, Connected, Failed, In, Busy, Crashed,
           BelievesUp, OnBus, Accepting
    <3> QED BY <3>1, <3>2
  <2> QED BY <2>1, <2>2, <2>3
<1>3. Inv => ScriptNotMisled
  <2> SUFFICES ASSUME Inv, Quiet, bus = <<>>, ~ dropped, told = "up"
               PROVE  netc = "online" /\ session = "up"
    BY DEF ScriptNotMisled
  <2>1. at["lua"] = "idle" /\ at["tcpip"] = "idle" /\ netc # "freed" /\ posted = NoEvent
    BY DEF Quiet, Threads
  <2>2. BelievesUp /\ Going
    BY <2>1 DEF BelievesUp, OnBus, Going, Crashed
  <2>3. ~ Doomed
    BY <2>1 DEF Doomed, In, Busy, Failed
  <2> QED BY <2>2, <2>3 DEF LeadInv, Lead
<1> QED BY <1>1, <1>2, <1>3, PTL DEF Spec
=============================================================================

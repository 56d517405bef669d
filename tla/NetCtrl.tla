------------------------------ MODULE NetCtrl ------------------------------
(***************************************************************************)
(* TCP client connections: the state machine of luat_network_adapter.c     *)
(* over the sockets of luat_lwip_ec7xx.c.                                  *)
(*                                                                         *)
(* Two sides run at once.  The application calls network_connect, _tx,     *)
(* _rx, _close, ... on a ctrl (task_handle NULL, timeout 0, as every Lua   *)
(* library does): one step under NW_LOCK, after a step that only reads.    *)
(* The tcpip thread runs the commands of the sockets in FIFO order, the    *)
(* callbacks of lwip and the fan-out of a link change; what it has to tell *)
(* a ctrl is first checked against the ctrl's tag (Raise) and handled in a *)
(* later step under NW_LOCK (Handle), application calls in between.        *)
(*                                                                         *)
(* A World is the part of the state that these functions change; they are  *)
(* operators from World to World, as the C functions call each other.      *)
(*                                                                         *)
(* Operators named Bug... are plausible defects of the definition after    *)
(* them; no other definition uses them.                                    *)
(***************************************************************************)
EXTENDS Integers, FiniteSets, Sequences, Orders

CONSTANTS
    Ctrl,           \* entries of ctrl_table in use
    Names,          \* domain names
    Literal,        \* a remote address that needs no DNS
    None,           \* no name, no ctrl, no event
    MAX_SOCK_NUM,   \* sockets of the lwip adapter
    MaxIp,          \* bound: addresses of a name
    MaxCalls,       \* bound: calls of network_connect
    MaxTx,          \* bound: packets sent on a connection
    MaxLink,        \* bound: changes of the link
    Readers,        \* ctrls whose application calls socket.rx
    ResetsClosing,  \* may lwip report an error on a socket that waits for
                    \* its EV_LWIP_SOCKET_CLOSE
    PcbsRunOut      \* may tcp_new fail for a socket made by the tcpip thread

ASSUME NameAssumption == None \notin Ctrl /\ None \notin Names /\ Literal \notin Names
ASSUME SockAssumption == MAX_SOCK_NUM \in Nat \ {0} /\ MaxIp \in Nat \ {0}
ASSUME BoundAssumption ==
    /\ {MaxCalls, MaxTx, MaxLink} \subseteq Nat
    /\ {ResetsClosing, PcbsRunOut} \subseteq BOOLEAN /\ Readers \subseteq Ctrl

VARIABLES
    ctrl,       \* ctrl -> its network_ctrl_t
    socket,     \* prvlwip.socket
    cmds,       \* what the tcpip thread has been sent
    next,       \* prvlwip.next_socket_index
    socket_tag, \* prvlwip.socket_tag, the last tag given out
    dns,        \* questions of the DNS client: ctrl and name
    ready,      \* prvlwip.netif_network_ready
    fanout,     \* ctrls that have not been told of the last link change
    posted,     \* event that has passed the tag check, or None
    entered,    \* ctrl -> call whose checks are done but not its locked part
    stuck,      \* ctrl whose lock the tcpip thread holds and waits for, or None
    calls, links,       \* counters for the bounds
    later,      \* ctrls with more data than socket.rx has been told the size of
    robbed,     \* history: ctrls whose valid socket a clean has closed
    crossed,    \* history: ctrls that handled an event of an earlier socket
    heard,      \* history: ctrls that handled RX_NEW last while socket.rx, told
                \* the size before, was about to read
    unanswered  \* history: ctrls whose question the DNS client has dropped

reading == <<later, heard>>

vars == <<ctrl, socket, cmds, next, socket_tag, dns, ready, fanout, posted,
          entered, stuck, calls, links, robbed, crossed, unanswered, reading>>

Sockets == 0 .. MAX_SOCK_NUM - 1
States  == {"LINK_OFF", "OFF_LINE", "WAIT_DNS", "CONNECTING", "ONLINE",
            "DISCONNECTING"}
Waits   == {"NONE", "LINK_UP", "ON_LINE", "TX_OK", "OFF_LINE", "EVENT"}
Gone    == {"ERROR", "REMOTE_CLOSE", "CLOSE_OK"}    \* the socket is of no use
Events  == [id : Gone \cup {"STATE", "DNS_RESULT", "CONNECT_OK", "RX_NEW", "TX_OK"},
            up : BOOLEAN, ips : 0 .. MaxIp, name : Names \cup {None}]
Posts   == [to : Ctrl, tag : Nat, event : Events]

ASSUME PostAssumption == None \notin Posts

FreeSocket == [in_use |-> FALSE, tag |-> 0, param |-> None, closing |-> FALSE,
               remote_close |-> FALSE, pcb |-> "none", rx |-> FALSE,
               tx_head |-> 0, wait_ack |-> 0]

NewCtrl == [state |-> "LINK_OFF", wait |-> "NONE", need_close |-> FALSE,
            auto_mode |-> FALSE, socket_id |-> -1, tag |-> 0,
            new_rx_flag |-> FALSE, tx_size |-> 0, ack_size |-> 0,
            name |-> None,                          \* domain_name or Literal
            ips |-> 0, cnt |-> 0, ipsOf |-> None]   \* dns_ip: whose, how many

\* new is what happens to the pcb of a socket made in this step: the
\* application leaves it to the tcpip thread ("later"), which makes its own at
\* once and finds memory ("made") or not ("full")
World == [ctrl |-> ctrl, socket |-> socket, cmds |-> cmds, next |-> next,
          socket_tag |-> socket_tag, robbed |-> robbed, stuck |-> stuck,
          new |-> "later"]

\* bound by \E so that TLC computes it once
Becomes(world) ==
    \E w \in {world} :
        /\ ctrl' = w.ctrl /\ socket' = w.socket /\ cmds' = w.cmds
        /\ next' = w.next /\ socket_tag' = w.socket_tag /\ robbed' = w.robbed
        /\ stuck' = w.stuck

Init ==
    /\ ctrl = [c \in Ctrl |-> NewCtrl]
    /\ socket = [i \in Sockets |-> FreeSocket]
    /\ cmds = <<>> /\ next = 0 /\ socket_tag = 0 /\ dns = {}
    /\ ready \in BOOLEAN /\ fanout = {} /\ posted = None
    /\ entered = [c \in Ctrl |-> "no"] /\ stuck = None
    /\ calls = 0 /\ links = 0 /\ robbed = {} /\ crossed = {}
    /\ later = {} /\ heard = {} /\ unanswered = {}

----------------------------------------------------------------------------
(* Sockets of the lwip adapter *)

Send(w, kind, i, of) ==
    [w EXCEPT !.cmds = Append(@, [kind |-> kind, id |-> i, of |-> of])]

\* net_lwip_check_socket of the ctrl's socket_id and tag
Valid(w, c) ==
    LET i == w.ctrl[c].socket_id
    IN  /\ i \in Sockets
        /\ w.socket[i].tag = w.ctrl[c].tag
        /\ w.socket[i].in_use /\ ~w.socket[i].closing

\* net_lwip_socket_force_close, of each of ids in turn
LwipForceClose(w, ids) ==
    LET open  == {i \in ids : w.socket[i].in_use /\ ~w.socket[i].closing}
        turns == Ascending(open)
    IN  [w EXCEPT
           !.socket = [i \in Sockets |-> IF i \in open THEN [@[i] EXCEPT !.closing = TRUE]
                                        ELSE @[i]],
           !.cmds = @ \o [k \in DOMAIN turns |->
                             [kind |-> "close", id |-> turns[k],
                              of |-> w.socket[turns[k]].tag]]]

\* the list of valid sockets is read back with vaild_socket_list[i] > 0
Kept(ids) == {i \in ids : i > 0}

\* closes the sockets that belong to no ctrl; robbed is the history of those
\* that do
Clean(w) ==
    LET valid  == {c \in Ctrl : Valid(w, c)}
        keep   == Kept({w.ctrl[c].socket_id : c \in valid})
    IN  [LwipForceClose(w, Sockets \ keep) EXCEPT
           !.ctrl = [c \in Ctrl |-> IF c \in valid THEN @[c]
                                   ELSE [@[c] EXCEPT !.socket_id = -1]],
           !.robbed = @ \cup {c \in valid : w.ctrl[c].socket_id \notin keep}]

\* network_socket_close, and what its callers do when it fails
CloseSocket(w, c) ==
    LET i == w.ctrl[c].socket_id
    IN  IF i < 0 THEN w
        ELSE IF w.socket[i].tag = w.ctrl[c].tag THEN LwipForceClose(w, {i})
        ELSE Clean(w)

BugForceCloseSocket(w, c) ==     \* the socket is forgotten, not closed
    [w EXCEPT !.ctrl[c] = [@ EXCEPT !.need_close = FALSE, !.socket_id = -1,
                                    !.new_rx_flag = FALSE, !.wait = "NONE"]]

ForceCloseSocket(w, c) ==
    [CloseSocket(w, c) EXCEPT
        !.ctrl[c] = [@ EXCEPT !.need_close = FALSE, !.socket_id = -1,
                              !.new_rx_flag = FALSE, !.name = None, !.ips = 0,
                              !.cnt = 0, !.ipsOf = None, !.wait = "NONE"]]

BugFreeSockets(w) == {i \in Sockets : ~w.socket[i].in_use \/ w.socket[i].closing}

FreeSockets(w) == {i \in Sockets : ~w.socket[i].in_use}

NextIndex(i) == (i + 1) % MAX_SOCK_NUM

\* the first free socket from next on, round the table
Picked(w) ==
    LET away(i) == (i - w.next + MAX_SOCK_NUM) % MAX_SOCK_NUM
    IN  CHOOSE x \in FreeSockets(w) :
            \A y \in FreeSockets(w) : away(x) <= away(y)

\* new is "full": the error is handled before the socket's id is returned
TakeSocket(w, c, i, t) ==
    LET taken == [w EXCEPT
                    !.socket[i] = [@ EXCEPT !.in_use = TRUE, !.tag = t, !.param = c,
                                            !.rx = FALSE, !.tx_head = 0, !.wait_ack = 0],
                    !.next = NextIndex(i), !.socket_tag = t,
                    !.ctrl[c].tag = t]
    IN  CASE w.new = "later" ->
               Send([taken EXCEPT !.ctrl[c].socket_id = i], "create", i, t)
          [] w.new = "made" ->
               [taken EXCEPT !.ctrl[c].socket_id = i, !.socket[i].pcb = "new"]
          [] w.new = "full" ->
               [taken EXCEPT !.socket[i].remote_close = TRUE, !.stuck = c]

Create(w, c) ==
    IF FreeSockets(w) = {}
    THEN [w EXCEPT !.ctrl[c].socket_id = -1, !.ctrl[c].tag = 0]
    ELSE TakeSocket(w, c, Picked(w), w.socket_tag + 1)

\* a failed creation is tried again after a clean
CreateOrClean(w, c) ==
    IF FreeSockets(w) = {} THEN Create(Clean(Create(w, c)), c) ELSE Create(w, c)

----------------------------------------------------------------------------
(* Functions of the state machine.  Those that may fail return the World   *)
(* and the result: 1 nothing to report, 0 success, -1 failure.             *)

Returns(w, r) == [w |-> w, r |-> r]

\* network_base_connect, up to network_socket_connect
NewSocket(w, c) ==
    CreateOrClean(IF w.ctrl[c].socket_id < 0 THEN w
                  ELSE [CloseSocket(w, c) EXCEPT
                          !.ctrl[c].need_close = FALSE, !.ctrl[c].socket_id = -1],
                  c)

\* every caller of network_base_connect goes on to CONNECTING or gives up
GoOn(made, c) ==
    IF made.ctrl[c].socket_id < 0 THEN Returns(made, -1)
    ELSE Returns(Send([made EXCEPT !.ctrl[c].state = "CONNECTING"], "connect",
                      made.ctrl[c].socket_id, made.ctrl[c].tag), 1)

Connecting(w, c) == GoOn(NewSocket(w, c), c)

PrepareConnect(w, c) ==
    IF w.ctrl[c].name = Literal THEN Connecting(w, c)
    ELSE IF w.ctrl[c].name \in Names
    THEN Returns([Send(w, "dns", c, w.ctrl[c].name)
                    EXCEPT !.ctrl[c].state = "WAIT_DNS"], 1)
    ELSE Returns(w, -1)

LinkOff(w, c, e) ==
    LET up == [w EXCEPT !.ctrl[c].state = "OFF_LINE"]
    IN  IF e.id # "STATE" \/ ~e.up THEN Returns(w, 1)
        ELSE CASE w.ctrl[c].wait = "LINK_UP" -> Returns(up, 0)
               [] w.ctrl[c].wait = "ON_LINE" -> PrepareConnect(up, c)
               [] OTHER -> Returns(up, 1)

WaitDns(w, c, e) ==
    IF w.ctrl[c].need_close \/ w.ctrl[c].wait # "ON_LINE" THEN Returns(w, -1)
    ELSE CASE e.id \in {"ERROR", "STATE"} -> Returns(w, -1)
           [] e.id = "DNS_RESULT" ->
                IF e.ips = 0 THEN Returns([w EXCEPT !.ctrl[c].ips = 0], -1)
                ELSE Connecting([w EXCEPT !.ctrl[c] =
                                  [@ EXCEPT !.ips = e.ips, !.cnt = 0,
                                            !.ipsOf = e.name]], c)
           [] OTHER -> Returns(w, 1)

\* the connection to one address has failed
NextIp(w, c) ==
    LET tried == [w EXCEPT !.ctrl[c].cnt = @ + 1]
    IN  IF w.ctrl[c].name = Literal THEN Returns(w, -1)
        ELSE IF tried.ctrl[c].cnt >= w.ctrl[c].ips THEN Returns(tried, -1)
        ELSE Connecting(tried, c)

BugOnConnecting(w, c, e) ==      \* the last address fails without an answer
    IF e.id \in Gone /\ w.ctrl[c].name # Literal
       /\ w.ctrl[c].cnt + 1 >= w.ctrl[c].ips
    THEN Returns(w, 1)
    ELSE IF e.id = "CONNECT_OK"
    THEN Returns([w EXCEPT !.ctrl[c].state = "ONLINE"], 0)
    ELSE Returns(w, IF e.id \in Gone THEN -1 ELSE 1)

OnConnecting(w, c, e) ==
    IF w.ctrl[c].need_close \/ w.ctrl[c].wait # "ON_LINE" THEN Returns(w, -1)
    ELSE CASE e.id \in Gone -> NextIp(w, c)
           [] e.id = "STATE" -> Returns(w, -1)          \* up as well as down
           [] e.id = "CONNECT_OK" ->
                Returns([w EXCEPT !.ctrl[c].state = "ONLINE"], 0)
           [] OTHER -> Returns(w, 1)

BugOnLine(w, c, e) ==            \* events are reported but not remembered
    Returns(w, IF e.id \in Gone THEN -1 ELSE IF e.id = "TX_OK" THEN 0 ELSE 1)

OnLine(w, c, e) ==
    LET lost  == [w EXCEPT !.ctrl[c].need_close = TRUE]
        acked == [w EXCEPT !.ctrl[c].ack_size = @ + 1]
        sock  == w.socket[w.ctrl[c].socket_id]      \* net_lwip_check_all_ack
        all   == IF w.ctrl[c].socket_id \in Sockets
                 THEN sock.wait_ack + sock.tx_head = 0 ELSE FALSE
        wait  == w.ctrl[c].wait
    IN  IF w.ctrl[c].need_close \/ wait = "OFF_LINE" THEN Returns(w, -1)
        ELSE CASE e.id \in Gone -> Returns(lost, -1)
               [] e.id = "STATE" -> IF e.up THEN Returns(w, 1) ELSE Returns(lost, -1)
               [] e.id = "TX_OK" ->
                    Returns(acked,
                            IF wait = "TX_OK"
                               /\ acked.ctrl[c].ack_size = w.ctrl[c].tx_size
                            THEN IF all THEN 0 ELSE -1
                            ELSE 1)
               [] e.id = "RX_NEW" ->
                    Returns([w EXCEPT !.ctrl[c].new_rx_flag = TRUE],
                            IF wait # "TX_OK" THEN 0 ELSE 1)
               [] OTHER -> Returns(w, 1)

Disconnecting(w, c, e) ==
    LET off == [ForceCloseSocket(w, c) EXCEPT !.ctrl[c].state = "OFF_LINE"]
    IN  IF w.ctrl[c].wait # "OFF_LINE" THEN Returns(w, -1)
        ELSE CASE e.id \in Gone -> Returns(off, 0)
               [] e.id = "STATE" -> Returns(IF e.up THEN off ELSE w, -1)
               [] OTHER -> Returns(w, 1)

StateFun(w, c, e) ==
    CASE w.ctrl[c].state = "LINK_OFF"      -> LinkOff(w, c, e)
      [] w.ctrl[c].state = "OFF_LINE"      -> Returns(w, 1)
      [] w.ctrl[c].state = "WAIT_DNS"      -> WaitDns(w, c, e)
      [] w.ctrl[c].state = "CONNECTING"    -> OnConnecting(w, c, e)
      [] w.ctrl[c].state = "ONLINE"        -> OnLine(w, c, e)
      [] w.ctrl[c].state = "DISCONNECTING" -> Disconnecting(w, c, e)

\* network_default_statemachine: a result that is reported ends the wait.
\* NW_LOCK is a binary semaphore: if the state function calls back here for
\* the same ctrl, the thread waits for itself and nothing more is done.
EndWait(done, c) ==
    IF done.r > 0 \/ done.w.stuck # None THEN done.w
    ELSE [done.w EXCEPT !.ctrl[c].wait = "NONE"]

StateMachine(w, c, e) == EndWait(StateFun(w, c, e), c)

\* the same on the tcpip thread
Handles(c, e) ==
    \E new \in {"made"} \cup (IF PcbsRunOut THEN {"full"} ELSE {}) :
        Becomes(StateMachine([World EXCEPT !.new = new], c, e))

----------------------------------------------------------------------------
(* The tcpip thread.  It does one thing at a time: nothing new while an    *)
(* event is posted or a link change is being told.                         *)

Free == posted = None /\ fanout = {} /\ stuck = None

Event(id) == [id |-> id, up |-> FALSE, ips |-> 0, name |-> None]

\* the test of network_default_socket_callback for events of a socket
Raise(c, tag, e) ==
    posted' = IF c \in Ctrl /\ ctrl[c].tag = tag /\ ctrl[c].auto_mode
              THEN [to |-> c, tag |-> tag, event |-> e] ELSE None

RaiseOf(i, id) == Raise(socket[i].param, socket[i].tag, Event(id))

\* socket.rx of c knows how much it will read
Sized(c) == entered[c] = "rx"

\* heard: user_callback comes after RX_NEW, at once where the state machine
\* returns 0.  Where the ctrl waits for TX_OK new_rx_flag is looked at after
\* NW_UNLOCK; socket.rx may have cleared it, and then there is no callback
Tell(c, e) ==
    heard' = IF e.id # "RX_NEW" THEN heard
             ELSE IF Sized(c) THEN heard \cup {c} ELSE heard \ {c}

Handle ==
    /\ posted # None /\ stuck = None
    /\ Handles(posted.to, posted.event)
    /\ Tell(posted.to, posted.event)
    /\ posted' = None
    /\ crossed' = IF posted.tag = ctrl[posted.to].tag THEN crossed
                  ELSE crossed \cup {posted.to}
    /\ UNCHANGED <<dns, ready, fanout, entered, calls, links, later, unanswered>>

\* net_lwip_check_network_ready; going down forgets the questions
LinkChange ==
    /\ Free /\ links < MaxLink
    /\ ready' = ~ready /\ links' = links + 1
    /\ dns' = IF ready THEN {} ELSE dns
    /\ fanout' = Ctrl
    /\ UNCHANGED <<ctrl, socket, cmds, next, socket_tag, posted, entered, calls,
                   stuck, robbed, crossed, unanswered, reading>>

NotifyLink(c) ==
    /\ posted = None /\ c \in fanout /\ stuck = None
    /\ fanout' = fanout \ {c}
    /\ IF ctrl[c].auto_mode
       THEN Handles(c, [Event("STATE") EXCEPT !.up = ready])
       ELSE UNCHANGED <<ctrl, socket, cmds, next, socket_tag, robbed, stuck>>
    /\ UNCHANGED <<dns, ready, posted, entered, calls, links, crossed, unanswered,
                   reading>>

Took(kind) == Free /\ cmds # <<>> /\ cmds[1].kind = kind /\ cmds' = Tail(cmds)

\* tcp_new may fail
RunCreate ==
    /\ Took("create")
    /\ LET i == cmds[1].id
       IN  \/ /\ socket' = [socket EXCEPT ![i].pcb = "new"]
              /\ UNCHANGED posted
           \/ /\ socket' = [socket EXCEPT ![i].remote_close = TRUE]
              /\ RaiseOf(i, "ERROR")
    /\ UNCHANGED <<ctrl, next, socket_tag, dns, ready, fanout, entered, calls,
                   links, stuck, robbed, crossed, unanswered, reading>>

\* so may tcp_connect
RunConnect ==
    /\ Took("connect")
    /\ LET i == cmds[1].id
       IN  \/ /\ socket[i].in_use /\ socket[i].pcb # "none"
              /\ socket' = [socket EXCEPT ![i].pcb = "connecting"]
              /\ UNCHANGED posted
           \/ /\ socket' = [socket EXCEPT ![i].remote_close =
                               @ \/ (socket[i].in_use /\ socket[i].pcb # "none")]
              /\ RaiseOf(i, "ERROR")
    /\ UNCHANGED <<ctrl, next, socket_tag, dns, ready, fanout, entered, calls,
                   links, stuck, robbed, crossed, unanswered, reading>>

RunDns ==
    /\ Took("dns")
    /\ dns' = dns \cup {[to |-> cmds[1].id, name |-> cmds[1].of]}
    /\ UNCHANGED <<ctrl, socket, next, socket_tag, ready, fanout, posted, entered,
                   calls, links, stuck, robbed, crossed, unanswered, reading>>

RunTx ==
    /\ Took("tx")
    /\ LET i == cmds[1].id
       IN  IF socket[i].in_use /\ socket[i].pcb # "none"
           THEN /\ socket' = [socket EXCEPT ![i].wait_ack = @ + socket[i].tx_head,
                                            ![i].tx_head = 0]
                /\ UNCHANGED posted
           ELSE RaiseOf(i, "ERROR") /\ UNCHANGED socket
    /\ UNCHANGED <<ctrl, next, socket_tag, dns, ready, fanout, entered, calls,
                   links, stuck, robbed, crossed, unanswered, reading>>

BugCloseDone(i) ==               \* state is not reset
    socket' = [socket EXCEPT ![i] = [FreeSocket EXCEPT !.tag = socket[i].tag,
                                     !.in_use = TRUE, !.closing = TRUE]]

\* net_lwip_tcp_close_done; the tag stays
CloseDone(i) ==
    socket' = [socket EXCEPT ![i] = [FreeSocket EXCEPT !.tag = socket[i].tag]]

\* EV_LWIP_SOCKET_CLOSE; "disconnect" is the one that asks for an answer.
\* A socket in use that has neither a pcb nor remote_close is left as it is.
RunClose ==
    /\ \E kind \in {"close", "disconnect"} : Took(kind)
    /\ LET i == cmds[1].id
       IN  IF socket[i].in_use /\ (socket[i].pcb # "none" \/ socket[i].remote_close)
           THEN /\ CloseDone(i)
                /\ IF cmds[1].kind = "disconnect" THEN RaiseOf(i, "CLOSE_OK")
                   ELSE UNCHANGED posted
           ELSE UNCHANGED <<socket, posted>>
    /\ UNCHANGED <<ctrl, next, socket_tag, dns, ready, fanout, entered, calls,
                   links, stuck, robbed, crossed, unanswered, reading>>

\* the DNS client answers a question; no address is a failure.  The answer is
\* not compared with a tag, only with what the ctrl waits for
DnsResult ==
    /\ Free
    /\ \E q \in dns, n \in 0 .. MaxIp :
          /\ dns' = dns \ {q}
          /\ posted' = IF ctrl[q.to].wait = "ON_LINE" /\ ctrl[q.to].auto_mode
                       THEN [to |-> q.to, tag |-> ctrl[q.to].tag,
                             event |-> [Event("DNS_RESULT") EXCEPT
                                          !.ips = n, !.name = q.name]]
                       ELSE None
    /\ UNCHANGED <<ctrl, socket, cmds, next, socket_tag, ready, fanout, entered,
                   calls, links, stuck, robbed, crossed, unanswered, reading>>

\* a question for which no valid server is left gets no answer; unanswered is
\* the history of those a ctrl still waits for
DnsDrops ==
    /\ Free
    /\ \E q \in dns :
          LET again == \/ \E p \in dns \ {q} : p.to = q.to
                       \/ \E k \in DOMAIN cmds : cmds[k].kind = "dns" /\ cmds[k].id = q.to
          IN  /\ dns' = dns \ {q}
              /\ unanswered' = IF ctrl[q.to].state # "WAIT_DNS" \/ again THEN unanswered
                               ELSE unanswered \cup {q.to}
    /\ UNCHANGED <<ctrl, socket, cmds, next, socket_tag, ready, fanout, posted,
                   entered, calls, links, stuck, robbed, crossed, reading>>

\* callbacks of lwip on a pcb
Callback(i) ==
    /\ Free
    /\ UNCHANGED <<ctrl, cmds, next, socket_tag, dns, ready, fanout, entered,
                   calls, links, stuck, robbed, crossed, unanswered, heard>>

Connected(i) ==
    /\ Callback(i) /\ UNCHANGED later /\ socket[i].pcb = "connecting"
    /\ socket' = [socket EXCEPT ![i].pcb = "open"]
    /\ RaiseOf(i, "CONNECT_OK")

TcpError(i) ==
    /\ Callback(i) /\ UNCHANGED later /\ socket[i].pcb \in {"connecting", "open"}
    /\ socket[i].closing => ResetsClosing
    /\ IF socket[i].closing \/ socket[i].remote_close
       THEN /\ socket' = [socket EXCEPT ![i].pcb = "none"]
            /\ UNCHANGED posted
       ELSE /\ socket' = [socket EXCEPT ![i].pcb = "none", ![i].remote_close = TRUE]
            /\ RaiseOf(i, "ERROR")

RemoteClose(i) ==
    /\ Callback(i) /\ UNCHANGED later
    /\ socket[i].pcb = "open" /\ ~socket[i].remote_close
    /\ socket' = [socket EXCEPT ![i].remote_close = TRUE]
    /\ RaiseOf(i, "REMOTE_CLOSE")

\* there may be no memory for the data
Receive(i) ==
    /\ Callback(i) /\ socket[i].pcb = "open" /\ ~socket[i].remote_close
    /\ \/ /\ socket' = [socket EXCEPT ![i].rx = TRUE]
          /\ later' = later \cup {c \in Ctrl : Sized(c) /\ ctrl[c].socket_id = i}
          /\ RaiseOf(i, "RX_NEW")
       \/ UNCHANGED <<socket, later>> /\ RaiseOf(i, "ERROR")

Sent(i) ==
    /\ Callback(i) /\ UNCHANGED later
    /\ socket[i].pcb = "open" /\ socket[i].wait_ack > 0
    /\ socket' = [socket EXCEPT ![i].wait_ack = @ - 1 + socket[i].tx_head,
                                ![i].tx_head = 0]
    /\ RaiseOf(i, "TX_OK")

Tcpip ==
    \/ Handle \/ LinkChange \/ DnsResult \/ DnsDrops
    \/ \E c \in Ctrl : NotifyLink(c)
    \/ RunCreate \/ RunConnect \/ RunDns \/ RunTx \/ RunClose
    \/ \E i \in Sockets : \/ Connected(i) \/ TcpError(i) \/ RemoteClose(i)
                          \/ Receive(i) \/ Sent(i)

----------------------------------------------------------------------------
(* The application.  A call on a ctrl ends before the next one begins.     *)

Call(c) ==
    /\ entered[c] = "no"
    /\ UNCHANGED <<dns, ready, fanout, posted, entered, calls, links, crossed,
                   unanswered, reading>>

\* NW_LOCK; the locked part of every call and handler is one step
NwLock(c) == stuck # c

Enter(c, call) ==
    /\ entered[c] = "no"
    /\ entered' = [entered EXCEPT ![c] = call]
    /\ UNCHANGED <<ctrl, socket, cmds, next, socket_tag, dns, ready, fanout,
                   posted, links, stuck, robbed, crossed, unanswered, reading>>

\* network_connect, before the lock
EnterConnect(c) ==
    /\ ctrl[c].socket_id < 0
    /\ calls < MaxCalls /\ calls' = calls + 1
    /\ Enter(c, "connect")

\* a connect that cannot begin
OffLine(made, c) ==
    IF made.r > 0 THEN made.w
    ELSE [made.w EXCEPT !.ctrl[c].state = "OFF_LINE", !.ctrl[c].wait = "NONE"]

LockedConnect(c) ==
    /\ entered[c] = "connect" /\ NwLock(c)
    /\ entered' = [entered EXCEPT ![c] = "no"]
    /\ \E to \in Names \cup {Literal} :
          \E begun \in {[World EXCEPT
                          !.ctrl[c] = [@ EXCEPT
                             !.tx_size = 0, !.ack_size = 0, !.need_close = FALSE,
                             !.name = to, !.auto_mode = TRUE, !.wait = "ON_LINE"],
                          !.robbed = @ \ {c}]} :
             Becomes(IF ready THEN OffLine(PrepareConnect(begun, c), c)
                     ELSE [begun EXCEPT !.ctrl[c].state = "LINK_OFF"])
    /\ crossed' = crossed \ {c} /\ unanswered' = unanswered \ {c}
    /\ heard' = heard \ {c}
    /\ UNCHANGED <<dns, ready, fanout, posted, calls, links, later>>

Close(c) ==
    /\ Call(c) /\ NwLock(c)
    /\ LET w   == [World EXCEPT !.ctrl[c] = [@ EXCEPT !.auto_mode = TRUE,
                                                      !.need_close = FALSE,
                                                      !.new_rx_flag = FALSE]]
           i   == ctrl[c].socket_id
           off(x) == [x EXCEPT !.ctrl[c].state = "OFF_LINE", !.ctrl[c].wait = "NONE"]
       IN  Becomes(IF i < 0 THEN off(w)
                   ELSE IF ctrl[c].state = "ONLINE" /\ Valid(World, c)
                   THEN Send([w EXCEPT !.ctrl[c].state = "DISCONNECTING",
                                       !.ctrl[c].wait = "OFF_LINE",
                                       !.socket[i].closing = TRUE],
                             "disconnect", i, socket[i].tag)
                   ELSE off(ForceCloseSocket(w, c)))

\* socket.close of luat_lib_socket.c takes no lock and leaves the state as it is
LuaClose(c) == Call(c) /\ Becomes(ForceCloseSocket(World, c))

EnterTx(c) ==
    /\ ~ctrl[c].need_close /\ ctrl[c].socket_id >= 0 /\ ctrl[c].state = "ONLINE"
    /\ ctrl[c].tx_size < MaxTx
    /\ Enter(c, "tx") /\ UNCHANGED calls

\* there may be no memory for the data
LockedTx(c) ==
    /\ entered[c] = "tx" /\ NwLock(c)
    /\ entered' = [entered EXCEPT ![c] = "no"]
    /\ LET i == ctrl[c].socket_id
       IN  \/ /\ Valid(World, c)
              /\ Becomes(Send([World EXCEPT !.socket[i].tx_head = @ + 1,
                                            !.ctrl[c].tx_size = @ + 1,
                                            !.ctrl[c].wait = "TX_OK"],
                              "tx", i, socket[i].tag))
           \/ Becomes([World EXCEPT !.ctrl[c].need_close = TRUE])
    /\ UNCHANGED <<dns, ready, fanout, posted, calls, links, crossed, unanswered,
                   reading>>

\* socket.rx calls network_rx twice: the first call asks for the size of what
\* has come, the second reads just that much.  Each looks at the ctrl before it
\* locks; that look is part of the locked step, for what may happen in between,
\* news that the connection is lost, might as well happen after it
MayRead(c) ==
    /\ ctrl[c].need_close => ctrl[c].new_rx_flag
    /\ ctrl[c].socket_id >= 0 /\ ctrl[c].state = "ONLINE"

SizeRx(c) ==
    /\ c \in Readers /\ entered[c] = "no" /\ NwLock(c)
    /\ MayRead(c)
    /\ Becomes([World EXCEPT !.ctrl[c].auto_mode = TRUE])
    /\ entered' = [entered EXCEPT ![c] =
                     IF Valid(World, c) /\ socket[ctrl[c].socket_id].rx THEN "rx"
                     ELSE "no"]
    /\ heard' = heard \ {c}
    /\ UNCHANGED <<dns, ready, fanout, posted, calls, links, crossed, unanswered,
                   later>>

\* what came after the size was asked for stays in the socket; what was heard
\* matters only of such data
LockedRx(c) ==
    /\ entered[c] = "rx" /\ NwLock(c)
    /\ entered' = [entered EXCEPT ![c] = "no"]
    /\ LET read == [World EXCEPT !.ctrl[c].new_rx_flag = FALSE]
       IN  Becomes(IF ~MayRead(c) THEN World
                   ELSE IF Valid(World, c)
                   THEN [read EXCEPT !.socket[ctrl[c].socket_id].rx = @ /\ c \in later]
                   ELSE read)
    /\ later' = later \ {c}
    /\ heard' = IF c \in later THEN heard ELSE heard \ {c}
    /\ UNCHANGED <<dns, ready, fanout, posted, calls, links, crossed, unanswered>>

WaitEvent(c) ==
    /\ Call(c) /\ NwLock(c)
    /\ \/ ctrl[c].new_rx_flag
       \/ ~ctrl[c].need_close /\ ctrl[c].socket_id >= 0 /\ ctrl[c].state = "ONLINE"
    /\ Becomes([World EXCEPT !.ctrl[c].auto_mode =
                               IF ctrl[c].new_rx_flag THEN @ ELSE TRUE,
                             !.ctrl[c].wait = "EVENT"])

\* not in the code is the guard on socket_id: the applications call it before
\* they connect
WaitLinkUp(c) ==
    /\ Call(c) /\ NwLock(c) /\ ctrl[c].socket_id < 0
    /\ Becomes([World EXCEPT !.ctrl[c] =
                  [@ EXCEPT !.auto_mode = TRUE,
                            !.state = IF ready THEN "OFF_LINE" ELSE "LINK_OFF",
                            !.wait = IF ready THEN "NONE" ELSE "LINK_UP"]])

Application ==
    \E c \in Ctrl :
        \/ EnterConnect(c) \/ LockedConnect(c) \/ Close(c) \/ LuaClose(c)
        \/ EnterTx(c) \/ LockedTx(c)
        \/ SizeRx(c) \/ LockedRx(c) \/ WaitEvent(c) \/ WaitLinkUp(c)

Next == Tcpip \/ Application

Spec == Init /\ [][Next]_vars

\* a connection attempt and a packet sent are answered or given up by TCP
Answer(i) ==
    \/ Connected(i)
    \/ Sent(i)
    \/ TcpError(i) /\ (socket[i].pcb = "connecting" \/ socket[i].wait_ack > 0)

\* the tcpip thread finishes what it tells the ctrls, and its mailbox is FIFO,
\* so nothing in it waits for ever; the DNS client answers or drops every
\* question in the end; a call that has been entered is finished
Fairness ==
    /\ WF_vars(Handle \/ \E c \in Ctrl : NotifyLink(c))
    /\ SF_vars(RunCreate \/ RunConnect \/ RunDns \/ RunTx \/ RunClose)
    /\ SF_vars(DnsResult \/ DnsDrops)
    /\ \A i \in Sockets : SF_vars(Answer(i))
    /\ \A c \in Ctrl : WF_vars(LockedConnect(c) \/ LockedTx(c) \/ LockedRx(c))

FairSpec == Spec /\ Fairness

----------------------------------------------------------------------------
(* Type invariant. *)
NetTypeOK ==
    /\ ctrl \in [Ctrl -> [state : States, wait : Waits, need_close : BOOLEAN,
                          auto_mode : BOOLEAN, socket_id : Sockets \cup {-1},
                          tag : Nat, new_rx_flag : BOOLEAN, tx_size : Nat,
                          ack_size : Nat, name : Names \cup {Literal, None},
                          ips : 0 .. MaxIp, cnt : Nat, ipsOf : Names \cup {None}]]
    /\ socket \in [Sockets -> [in_use : BOOLEAN, tag : Nat,
                               param : Ctrl \cup {None}, closing : BOOLEAN,
                               remote_close : BOOLEAN,
                               pcb : {"none", "new", "connecting", "open"},
                               rx : BOOLEAN, tx_head : Nat, wait_ack : Nat]]
    /\ next \in Sockets /\ socket_tag \in Nat
    /\ ready \in BOOLEAN /\ fanout \subseteq Ctrl
    /\ entered \in [Ctrl -> {"no", "connect", "tx", "rx"}]
    /\ stuck \in Ctrl \cup {None}
    /\ robbed \subseteq Ctrl /\ crossed \subseteq Ctrl
    /\ later \subseteq Ctrl /\ heard \subseteq Ctrl /\ unanswered \subseteq Ctrl

\* Every command in the mailbox is for the connection that sent it, and none
\* follows the command to close: a socket is not given to another ctrl while
\* commands of the last one are on their way.
CommandsInTime ==
    \A k \in DOMAIN cmds : cmds[k].kind # "dns" =>
        /\ socket[cmds[k].id].in_use
        /\ socket[cmds[k].id].tag = cmds[k].of
        /\ cmds[k].kind \in {"close", "disconnect"} =>
             \A j \in k + 1 .. Len(cmds) :
                cmds[j].kind # "dns" => cmds[j].id # cmds[k].id

\* No socket is lost: one that is in use and not being closed is held, with
\* its tag, by the ctrl it was made for, so that network_close reaches it.
NoOrphanSocket ==
    \A i \in Sockets : socket[i].in_use /\ ~socket[i].closing =>
        \E c \in Ctrl : /\ socket[i].param = c /\ ctrl[c].socket_id = i
                        /\ ctrl[c].tag = socket[i].tag

\* A ctrl that would send (on line, no need to close) has a connection of its
\* own that is open, or news of its end are posted; but for a ctrl whose socket
\* a clean took away, and one that handled an event of an earlier socket.
OnlineIsConnected ==
    \A c \in Ctrl \ (robbed \cup crossed) :
        ctrl[c].state = "ONLINE" /\ ~ctrl[c].need_close /\ ctrl[c].socket_id >= 0 =>
            /\ Valid(World, c)
            /\ LET s == socket[ctrl[c].socket_id]
               IN  \/ s.pcb = "open" /\ ~s.remote_close
                   \/ posted # None /\ posted.to = c

\* Data that waits in the socket of a ctrl on line is announced by its
\* new_rx_flag, will be by the event that is posted, or is about to be read by
\* the socket.rx that runs.  What comes after that call has asked for the size
\* stays behind with the flag cleared: then its event was handled in the meantime
\* and the application told of it, but perhaps not where it waits for TX_OK.
\* (A part of the invariant is that everything has its type.)
DataAnnounced ==
    /\ NetTypeOK
    /\ \A c \in Ctrl \ (robbed \cup crossed) :
            /\ ctrl[c].state = "ONLINE" /\ ~ctrl[c].need_close
            /\ Valid(World, c) /\ socket[ctrl[c].socket_id].rx
            => \/ ctrl[c].new_rx_flag \/ (posted # None /\ posted.to = c)
               \/ c \in heard \/ (Sized(c) /\ c \notin later)

Requested(c) ==
    /\ \/ ctrl[c].wait \in {"ON_LINE", "OFF_LINE"} /\ ctrl[c].state # "LINK_OFF"
       \/ ctrl[c].wait = "TX_OK" /\ ~ctrl[c].need_close
    /\ c \notin robbed \cup unanswered

\* Every connect, send and disconnect comes to an end, whatever the link and the
\* peer do and however late the DNS client answers; but for a ctrl whose socket
\* a clean took away, for one whose question the DNS client dropped, which
\* nobody tells, and for what is sent on a connection that has been reported
\* lost.
RequestsEnd == \A c \in Ctrl : Requested(c) ~> ~Requested(c)

\* A socket that is to be closed becomes free again.
SocketsReturn ==
    \A i \in Sockets : socket[i].in_use /\ socket[i].closing ~> ~socket[i].in_use

----------------------------------------------------------------------------
(* What the repository says of the code and the code does not keep: TLC    *)
(* refutes each of these, CloseAnswered where ResetsClosing = TRUE,        *)
(* AllAddressesTried by a question that is dropped and, where PcbsRunOut = *)
(* TRUE, without one, DnsOfThisName with two names and CleanKeepsValid in  *)
(* the instance of two ctrls.                                              *)

\* luat_network_adapter.h says of socket_clean: keeps the valid sockets and
\* closes the invalid ones.
CleanKeepsValid == robbed = {}

\* network_socket_disconnect: the user has to wait for the close ok callback,
\* so one comes.
CloseAnswered ==
    \A c \in Ctrl : ctrl[c].wait = "OFF_LINE" ~> ctrl[c].wait # "OFF_LINE"

\* network_connect resolves a name and tries to connect to its addresses until
\* one succeeds or all have failed: so every attempt comes to an end.
AllAddressesTried ==
    \A c \in Ctrl :
        LET trying == ctrl[c].wait = "ON_LINE"
                      /\ ctrl[c].state \in {"WAIT_DNS", "CONNECTING"}
        IN  trying ~> ~trying

\* network_connect resolves the name it is given and tries the addresses of
\* that name.
DnsOfThisName ==
    \A c \in Ctrl : ctrl[c].state = "CONNECTING" /\ ctrl[c].wait = "ON_LINE"
                    /\ ctrl[c].name \in Names
                    => ctrl[c].ipsOf = ctrl[c].name
=============================================================================

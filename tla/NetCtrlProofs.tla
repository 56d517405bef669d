--------------------------- MODULE NetCtrlProofs ---------------------------
(***************************************************************************)
(* Proofs about NetCtrl, for any ctrls, names, sockets and numbers of      *)
(* calls, packets and changes of the link, whatever lwip reports; a socket *)
(* made by the tcpip thread finds a pcb.                                   *)
(*                                                                         *)
(* The functions of the adapter are operators from World to World, so the  *)
(* invariant is stated of a World and there is a lemma per function: what  *)
(* it makes of the books (Books), and what it leaves to the other ctrls    *)
(* (Moves).                                                                *)
(***************************************************************************)
EXTENDS NetCtrl, OrdersProofs

\* What follows in one sequence what another one holds.
LEMMA ConcatOf ==
    ASSUME NEW S, NEW p \in Seq(S), NEW q \in Seq(S)
    PROVE  /\ p \o q \in Seq(S) /\ Len(p) \in Nat /\ Len(q) \in Nat
           /\ DOMAIN p = 1 .. Len(p) /\ DOMAIN (p \o q) = 1 .. Len(p) + Len(q)
           /\ \A k \in 1 .. Len(p) : (p \o q)[k] = p[k]
           /\ \A k \in Len(p) + 1 .. Len(p) + Len(q) : (p \o q)[k] = q[k - Len(p)]
  OBVIOUS

----------------------------------------------------------------------------
\* What a World is made of.

CtrlRec == [state : States, wait : Waits, need_close : BOOLEAN,
            auto_mode : BOOLEAN, socket_id : Sockets \cup {-1},
            tag : Nat, new_rx_flag : BOOLEAN, tx_size : Nat,
            ack_size : Nat, name : Names \cup {Literal, None},
            ips : 0 .. MaxIp, cnt : Nat, ipsOf : Names \cup {None}]

SockRec == [in_use : BOOLEAN, tag : Nat, param : Ctrl \cup {None}, closing : BOOLEAN,
            remote_close : BOOLEAN, pcb : {"none", "new", "connecting", "open"},
            rx : BOOLEAN, tx_head : Nat, wait_ack : Nat]

Commands == [kind : {"create", "connect", "tx", "close", "disconnect"},
             id : Sockets, of : Nat]
            \cup [kind : {"dns"}, id : Ctrl, of : Names]

Worlds == [ctrl : [Ctrl -> CtrlRec], socket : [Sockets -> SockRec],
           cmds : Seq(Commands), next : Sockets, socket_tag : Nat,
           robbed : SUBSET Ctrl, stuck : {None}, new : {"later", "made"}]

\* A tag is given out once.
Tagged(w) ==
    /\ \A i \in Sockets : /\ w.socket[i].tag <= w.socket_tag
                          /\ w.socket[i].in_use => w.socket[i].tag > 0
    /\ \A c \in Ctrl : w.ctrl[c].tag <= w.socket_tag
    /\ \A i, j \in Sockets :
          w.socket[i].tag = w.socket[j].tag => i = j \/ w.socket[i].tag = 0
    /\ \A c, d \in Ctrl :
          w.ctrl[c].tag = w.ctrl[d].tag => c = d \/ w.ctrl[c].tag = 0

Idle(w) == \A i \in Sockets : ~ w.socket[i].in_use =>
    /\ ~ w.socket[i].closing /\ ~ w.socket[i].remote_close
    /\ w.socket[i].pcb = "none"

ForSocket(w) == {k \in DOMAIN w.cmds : w.cmds[k].kind # "dns"}
Closes == {"close", "disconnect"}

\* CommandsInTime, and who is to be closed is marked.
InTime(w) == \A k \in ForSocket(w) :
    /\ w.socket[w.cmds[k].id].in_use
    /\ w.socket[w.cmds[k].id].tag = w.cmds[k].of
    /\ w.cmds[k].kind \in Closes =>
         /\ w.socket[w.cmds[k].id].closing
         /\ \A j \in ForSocket(w) : j > k => w.cmds[j].id # w.cmds[k].id

\* A socket is created once and connected once; until then nothing has arrived
\* on it, and the peer has not closed it.
Births(w) ==
    /\ \A k \in ForSocket(w) :
         LET m == w.cmds[k]
             s == w.socket[m.id]
         IN  /\ m.kind = "create" => s.pcb = "none" /\ ~ s.remote_close /\ ~ s.rx
             /\ m.kind = "connect" => /\ s.pcb \in {"none", "new"} /\ ~ s.rx
                                      /\ s.pcb = "new" => ~ s.remote_close
             /\ m.kind \in {"create", "connect"} => \A j \in ForSocket(w) :
                  w.cmds[j].kind = m.kind /\ w.cmds[j].id = m.id => j = k
    /\ \A i \in Sockets :
         /\ w.socket[i].pcb \in {"new", "connecting"} => ~ w.socket[i].rx
         /\ w.socket[i].pcb = "connecting" => ~ w.socket[i].remote_close

Owned(w) == \A i \in Sockets : w.socket[i].in_use /\ ~ w.socket[i].closing =>
    \E c \in Ctrl : /\ w.socket[i].param = c /\ w.ctrl[c].socket_id = i
                    /\ w.ctrl[c].tag = w.socket[i].tag

Books(w) == Tagged(w) /\ Idle(w) /\ InTime(w) /\ Births(w) /\ Owned(w)

\* What a function that runs for c leaves to the others: a ctrl keeps its valid
\* socket unless it is robbed of it, and a socket keeps its connection until
\* it has a new tag.
SocketMoves(s, t, last) ==
    \/ t.tag > last
    \/ /\ t.tag = s.tag /\ t.pcb = s.pcb /\ t.remote_close = s.remote_close
       /\ t.rx => s.rx
       /\ t.in_use => s.in_use
       /\ s.closing => t.closing

Moves(w, v, c) ==
    /\ v.new = w.new /\ w.robbed \subseteq v.robbed /\ w.socket_tag <= v.socket_tag
    /\ \/ v.ctrl[c].tag > w.socket_tag \/ v.ctrl[c].tag = 0
       \/ /\ v.ctrl[c].tag = w.ctrl[c].tag
          /\ v.ctrl[c].socket_id \in {-1, w.ctrl[c].socket_id}
    /\ \A d \in Ctrl \ {c} :
         /\ v.ctrl[d] \in {w.ctrl[d], [w.ctrl[d] EXCEPT !.socket_id = -1]}
         /\ Valid(w, d) => \/ v.ctrl[d] = w.ctrl[d] /\ Valid(v, d)
                           \/ d \in v.robbed
         /\ Valid(v, d) => Valid(w, d)
    /\ \A i \in Sockets : SocketMoves(w.socket[i], v.socket[i], w.socket_tag)

\* The parts of a World.
LEMMA ShapeOf ==
    ASSUME NEW w \in Worlds
    PROVE  /\ w.ctrl \in [Ctrl -> CtrlRec] /\ w.socket \in [Sockets -> SockRec]
           /\ w.cmds \in Seq(Commands) /\ w.next \in Sockets /\ w.socket_tag \in Nat
           /\ w.robbed \subseteq Ctrl /\ w.stuck = None /\ w.new \in {"later", "made"}
  BY DEF Worlds

\* A ctrl of a World.
LEMMA CtrlShape ==
    ASSUME NEW w \in Worlds, NEW c \in Ctrl
    PROVE  /\ w.ctrl[c] \in CtrlRec /\ w.ctrl[c].state \in States
           /\ w.ctrl[c].wait \in Waits /\ w.ctrl[c].need_close \in BOOLEAN
           /\ w.ctrl[c].auto_mode \in BOOLEAN /\ w.ctrl[c].new_rx_flag \in BOOLEAN
           /\ w.ctrl[c].socket_id \in Int /\ w.ctrl[c].tag \in Nat
           /\ (w.ctrl[c].socket_id < 0 <=> w.ctrl[c].socket_id = -1)
           /\ (w.ctrl[c].socket_id >= 0 <=> w.ctrl[c].socket_id \in Sockets)
           /\ {w.ctrl[c].tx_size, w.ctrl[c].ack_size, w.ctrl[c].cnt} \subseteq Nat
           /\ w.ctrl[c].ips \in 0 .. MaxIp
<1>1. w.ctrl[c] \in CtrlRec
  BY ShapeOf
<1>2. w.ctrl[c].socket_id \in Sockets \cup {-1} /\ w.ctrl[c].tag \in Nat
  BY <1>1 DEF CtrlRec
<1>3. \A i \in Sockets : i \in Int /\ i >= 0
  BY SockAssumption DEF Sockets
<1>4. /\ w.ctrl[c].socket_id \in Int
      /\ (w.ctrl[c].socket_id < 0 <=> w.ctrl[c].socket_id = -1)
      /\ (w.ctrl[c].socket_id >= 0 <=> w.ctrl[c].socket_id \in Sockets)
  BY <1>2, <1>3
<1> QED BY <1>1, <1>2, <1>4 DEF CtrlRec

\* A socket of a World.
LEMMA SockShape ==
    ASSUME NEW w \in Worlds, NEW i \in Sockets
    PROVE  /\ w.socket[i] \in SockRec /\ w.socket[i].tag \in Nat
           /\ {w.socket[i].in_use, w.socket[i].closing, w.socket[i].remote_close,
               w.socket[i].rx} \subseteq BOOLEAN
           /\ w.socket[i].pcb \in {"none", "new", "connecting", "open"}
           /\ {w.socket[i].tx_head, w.socket[i].wait_ack} \subseteq Nat
  BY ShapeOf DEF SockRec

\* Functions follow one another.
LEMMA MovesOn ==
    ASSUME NEW w \in Worlds, NEW v \in Worlds, NEW u \in Worlds, NEW c \in Ctrl,
           Tagged(w), Moves(w, v, c), Moves(v, u, c)
    PROVE  Moves(w, u, c)
<1>1. /\ w.socket_tag \in Nat /\ v.socket_tag \in Nat /\ u.socket_tag \in Nat
      /\ w.socket_tag <= v.socket_tag /\ v.socket_tag <= u.socket_tag
      /\ u.new = w.new /\ w.robbed \subseteq u.robbed /\ v.robbed \subseteq u.robbed
  BY ShapeOf DEF Moves
<1>2. \/ u.ctrl[c].tag > w.socket_tag \/ u.ctrl[c].tag = 0
      \/ /\ u.ctrl[c].tag = w.ctrl[c].tag
         /\ u.ctrl[c].socket_id \in {-1, w.ctrl[c].socket_id}
  <2>1. /\ w.ctrl[c].tag \in Nat /\ v.ctrl[c].tag \in Nat /\ u.ctrl[c].tag \in Nat
    BY CtrlShape
  <2>2. CASE u.ctrl[c].tag > v.socket_tag
    BY <1>1, <2>1, <2>2
  <2> QED BY <2>1, <2>2 DEF Moves
<1>3. ASSUME NEW d \in Ctrl \ {c}
      PROVE  /\ u.ctrl[d] \in {w.ctrl[d], [w.ctrl[d] EXCEPT !.socket_id = -1]}
             /\ Valid(w, d) => \/ u.ctrl[d] = w.ctrl[d] /\ Valid(u, d)
                               \/ d \in u.robbed
             /\ Valid(u, d) => Valid(w, d)
  <2>1. w.ctrl[d] \in CtrlRec
    BY CtrlShape
  <2>2. /\ v.ctrl[d] \in {w.ctrl[d], [w.ctrl[d] EXCEPT !.socket_id = -1]}
        /\ u.ctrl[d] \in {v.ctrl[d], [v.ctrl[d] EXCEPT !.socket_id = -1]}
    BY <1>3 DEF Moves
  <2>3. [[w.ctrl[d] EXCEPT !.socket_id = -1] EXCEPT !.socket_id = -1]
          = [w.ctrl[d] EXCEPT !.socket_id = -1]
    BY <2>1 DEF CtrlRec
  <2>4. u.ctrl[d] \in {w.ctrl[d], [w.ctrl[d] EXCEPT !.socket_id = -1]}
    BY <2>2, <2>3
  <2> QED BY <1>1, <1>3, <2>4 DEF Moves
<1>4. ASSUME NEW i \in Sockets
      PROVE  SocketMoves(w.socket[i], u.socket[i], w.socket_tag)
  <2>1. /\ SocketMoves(w.socket[i], v.socket[i], w.socket_tag)
        /\ SocketMoves(v.socket[i], u.socket[i], v.socket_tag)
    BY DEF Moves
  <2>2. /\ w.socket[i].tag \in Nat /\ v.socket[i].tag \in Nat /\ u.socket[i].tag \in Nat
    BY SockShape
  <2> QED BY <1>1, <2>1, <2>2 DEF SocketMoves
<1>5. w.socket_tag <= u.socket_tag
  BY <1>1
<1> HIDE DEF Moves, SocketMoves
<1> QED BY <1>1, <1>2, <1>3, <1>4, <1>5 DEF Moves

\* Nothing done is a step too.
LEMMA StandsStill ==
    ASSUME NEW w \in Worlds, NEW c \in Ctrl
    PROVE  Moves(w, w, c)
  BY ShapeOf DEF Moves, SocketMoves

Tuned(w, c, r) == [w EXCEPT !.ctrl[c] = r]

\* A ctrl may change its fields, and let go of a socket that is not valid.
LEMMA Tunes ==
    ASSUME NEW w \in Worlds, Books(w), NEW c \in Ctrl, NEW r \in CtrlRec,
           r.tag = w.ctrl[c].tag,
           r.socket_id = w.ctrl[c].socket_id \/ (r.socket_id = -1 /\ ~ Valid(w, c)),
           NEW v, v = Tuned(w, c, r)
    PROVE  /\ v \in Worlds /\ Books(v) /\ Moves(w, v, c)
           /\ v.ctrl[c] = r /\ v.robbed = w.robbed /\ v.socket = w.socket
           /\ v.cmds = w.cmds /\ v.socket_tag = w.socket_tag
           /\ \A d \in Ctrl : Valid(v, d) <=> Valid(w, d)
<1>1. v \in Worlds
  BY DEF Worlds, Tuned
<1>2. /\ v.ctrl[c] = r /\ v.robbed = w.robbed /\ v.socket = w.socket /\ v.new = w.new
      /\ v.cmds = w.cmds /\ v.socket_tag = w.socket_tag
      /\ \A d \in Ctrl \ {c} : v.ctrl[d] = w.ctrl[d]
  BY DEF Worlds, Tuned
<1>3. \A d \in Ctrl : v.ctrl[d].tag = w.ctrl[d].tag
  BY <1>2
<1>4. -1 \notin Sockets
  BY SockAssumption DEF Sockets
<1>5. \A d \in Ctrl : Valid(v, d) <=> Valid(w, d)
  <2>1. \A d \in Ctrl \ {c} : Valid(v, d) <=> Valid(w, d)
    BY <1>2 DEF Valid
  <2>2. Valid(v, c) <=> Valid(w, c)
    BY <1>2, <1>4 DEF Valid
  <2> QED BY <2>1, <2>2
<1>6. Tagged(v) /\ Idle(v) /\ InTime(v) /\ Births(v)
  <2>1. Tagged(v) /\ Idle(v)
    BY <1>2, <1>3 DEF Books, Tagged, Idle
  <2>2. InTime(v)
    BY <1>2 DEF Books, InTime, ForSocket
  <2>3. Births(v)
    BY <1>2, SMTT(60) DEF Books, Births, ForSocket
  <2> QED BY <2>1, <2>2, <2>3
<1>7. Owned(v)
  <2> SUFFICES ASSUME NEW i \in Sockets, w.socket[i].in_use, ~ w.socket[i].closing
               PROVE  \E d \in Ctrl : /\ w.socket[i].param = d /\ v.ctrl[d].socket_id = i
                                      /\ v.ctrl[d].tag = w.socket[i].tag
    BY <1>2 DEF Owned
  <2>1. PICK d \in Ctrl : /\ w.socket[i].param = d /\ w.ctrl[d].socket_id = i
                          /\ w.ctrl[d].tag = w.socket[i].tag
    BY DEF Books, Owned
  <2>2. Valid(w, d)
    BY <2>1 DEF Valid
  <2>3. v.ctrl[d].socket_id = i
    BY <1>2, <2>1, <2>2
  <2> QED BY <1>3, <2>1, <2>3
<1>8. Moves(w, v, c)
  <2>1. \A i \in Sockets : SocketMoves(w.socket[i], v.socket[i], w.socket_tag)
    BY <1>2 DEF SocketMoves
  <2>2. w.socket_tag \in Nat
    BY ShapeOf
  <2> QED BY <1>2, <1>5, <2>1, <2>2 DEF Moves
<1> QED BY <1>1, <1>2, <1>5, <1>6, <1>7, <1>8 DEF Books
----------------------------------------------------------------------------
\* Sockets that are closed

Shut(w, ids) == [i \in Sockets |->
    IF i \in ids /\ w.socket[i].in_use /\ ~ w.socket[i].closing
    THEN [w.socket[i] EXCEPT !.closing = TRUE] ELSE w.socket[i]]

\* Closing sockets keeps the books: each that was open gets one command to
\* close, behind every other command for it.
LEMMA Shuts ==
    ASSUME NEW w \in Worlds, Books(w), NEW ids \in SUBSET Sockets,
           NEW v, v = LwipForceClose(w, ids)
    PROVE  /\ v \in Worlds /\ Books(v)
           /\ v.ctrl = w.ctrl /\ v.robbed = w.robbed /\ v.socket_tag = w.socket_tag
           /\ v.new = w.new /\ v.next = w.next
           /\ v.socket = Shut(w, ids)
<1> DEFINE open  == {i \in ids : w.socket[i].in_use /\ ~ w.socket[i].closing}
           turns == Ascending(open)
           N     == Cardinality(open)
           q     == [k \in DOMAIN turns |-> [kind |-> "close", id |-> turns[k],
                                              of |-> w.socket[turns[k]].tag]]
           L     == Len(w.cmds)
<1>1. open \in SUBSET Int /\ IsFiniteSet(open) /\ open \in SUBSET Sockets
  <2>1. MAX_SOCK_NUM - 1 \in Int /\ MAX_SOCK_NUM \in Int
    BY SockAssumption
  <2>2. IsFiniteSet(Sockets)
    BY <2>1, FS_Interval DEF Sockets
  <2>3. open \in SUBSET Sockets
    OBVIOUS
  <2>4. \A i \in Sockets : i \in Int
    BY <2>1 DEF Sockets
  <2> QED BY <2>2, <2>3, <2>4, FS_Subset
<1>2. /\ N \in Nat /\ turns \in [1 .. N -> open]
      /\ \A k, l \in 1 .. N : k < l => turns[k] < turns[l]
  <2> HIDE DEF open
  <2> QED BY <1>1, AscendingLists
<1>3. \A k, l \in 1 .. N : k < l => turns[k] # turns[l]
  <2>1. \A k \in 1 .. N : turns[k] \in Int
    BY <1>1, <1>2
  <2> HIDE DEF turns, N
  <2> QED BY <1>2, <2>1
<1>4. /\ v.ctrl = w.ctrl /\ v.robbed = w.robbed /\ v.socket_tag = w.socket_tag
      /\ v.new = w.new /\ v.next = w.next /\ v.stuck = w.stuck
      /\ v.socket = [i \in Sockets |-> IF i \in open THEN [w.socket[i] EXCEPT !.closing = TRUE]
                                       ELSE w.socket[i]]
      /\ v.cmds = w.cmds \o q
      /\ v = [w EXCEPT !.socket = v.socket, !.cmds = v.cmds]
  <2> HIDE DEF open
  <2> QED BY DEF LwipForceClose, Worlds, open
<1>5. /\ v.socket = Shut(w, ids)
      /\ \A i \in Sockets :
           /\ v.socket[i].in_use = w.socket[i].in_use /\ v.socket[i].tag = w.socket[i].tag
           /\ v.socket[i].pcb = w.socket[i].pcb /\ v.socket[i].rx = w.socket[i].rx
           /\ v.socket[i].remote_close = w.socket[i].remote_close
           /\ v.socket[i].param = w.socket[i].param
           /\ i \notin open => v.socket[i] = w.socket[i]
           /\ i \in open => v.socket[i].closing
           /\ v.socket[i] \in SockRec
  <2>1. v.socket = Shut(w, ids)
    BY <1>4 DEF Shut
  <2>2. \A i \in Sockets : w.socket[i] \in SockRec
    BY SockShape
  <2>3. \A i \in Sockets : /\ i \in open => v.socket[i] = [w.socket[i] EXCEPT !.closing = TRUE]
                           /\ i \notin open => v.socket[i] = w.socket[i]
    BY <1>4
  <2> HIDE DEF open
  <2>4. ASSUME NEW i \in Sockets
        PROVE  /\ v.socket[i].in_use = w.socket[i].in_use /\ v.socket[i].tag = w.socket[i].tag
               /\ v.socket[i].pcb = w.socket[i].pcb /\ v.socket[i].rx = w.socket[i].rx
               /\ v.socket[i].remote_close = w.socket[i].remote_close
               /\ v.socket[i].param = w.socket[i].param
               /\ i \in open => v.socket[i].closing
               /\ v.socket[i] \in SockRec
    <3>1. CASE i \in open
      BY <2>2, <2>3, <3>1, ZenonT(60) DEF SockRec
    <3>2. CASE i \notin open
      BY <2>2, <2>3, <3>2
    <3> QED BY <3>1, <3>2
  <2> QED BY <2>1, <2>3, <2>4
<1>6. /\ q \in Seq(Commands) /\ Len(q) = N
      /\ \A k \in 1 .. N : /\ q[k].kind = "close" /\ q[k].id = turns[k] /\ turns[k] \in open
                           /\ q[k].of = w.socket[turns[k]].tag
  <2>1. DOMAIN turns = 1 .. N /\ \A k \in 1 .. N : turns[k] \in open /\ turns[k] \in Sockets
    BY <1>1, <1>2
  <2>2. \A k \in 1 .. N : w.socket[turns[k]].tag \in Nat
    BY <2>1, SockShape
  <2> HIDE DEF turns, open, N
  <2>3. \A k \in 1 .. N : q[k] \in Commands
    BY <2>1, <2>2 DEF Commands
  <2>4. q = [k \in 1 .. N |-> q[k]]
    BY <2>1
  <2>5. q \in Seq(Commands) /\ Len(q) = N
    BY <1>2, <2>3, <2>4
  <2> QED BY <2>1, <2>5
<1> HIDE DEF q, turns, N
<1>7. /\ v.cmds \in Seq(Commands) /\ L \in Nat /\ DOMAIN w.cmds = 1 .. L
      /\ DOMAIN v.cmds = 1 .. L + N
      /\ \A k \in 1 .. L : v.cmds[k] = w.cmds[k]
      /\ \A k \in L + 1 .. L + N : k - L \in 1 .. N /\ v.cmds[k] = q[k - L]
  <2>1. w.cmds \in Seq(Commands)
    BY ShapeOf
  <2>2. v.cmds = w.cmds \o q /\ q \in Seq(Commands) /\ Len(q) = N
    BY <1>4, <1>6
  <2>3. /\ v.cmds \in Seq(Commands) /\ L \in Nat
        /\ DOMAIN w.cmds = 1 .. L /\ DOMAIN v.cmds = 1 .. L + N
        /\ \A k \in 1 .. L : v.cmds[k] = w.cmds[k]
        /\ \A k \in L + 1 .. L + N : v.cmds[k] = q[k - L]
    BY <2>1, <2>2, ConcatOf
  <2>4. \A k \in L + 1 .. L + N : k - L \in 1 .. N
    BY <1>2, <2>3
  <2> HIDE DEF L
  <2> QED BY <2>3, <2>4
<1>8. v \in Worlds
  <2>1. v.socket \in [Sockets -> SockRec]
    BY <1>4, <1>5
  <2> HIDE DEF open
  <2> QED BY <1>4, <1>7, <2>1 DEF Worlds
<1>9. \A k \in 1 .. L : w.cmds[k].kind # "dns" => w.cmds[k].id \in Sockets
  <2>1. \A k \in 1 .. L : w.cmds[k] \in Commands
    BY <1>7, ShapeOf
  <2> QED BY <2>1 DEF Commands
<1>10. ForSocket(w) \subseteq 1 .. L /\ ForSocket(v) = ForSocket(w) \cup (L + 1 .. L + N)
  <2>1. \A k \in L + 1 .. L + N : v.cmds[k].kind = "close"
    BY <1>6, <1>7
  <2>2. \A k \in 1 .. L + N : k \in 1 .. L \/ k \in L + 1 .. L + N
    BY <1>2, <1>7
  <2>3. \A k \in L + 1 .. L + N : k \in 1 .. L + N
    BY <1>7
  <2>4. \A k \in 1 .. L : k \in 1 .. L + N
    BY <1>2, <1>7
  <2> QED BY <1>7, <2>1, <2>2, <2>3, <2>4 DEF ForSocket
<1> HIDE DEF L, open
<1>14. \A i \in Sockets :
         /\ w.socket[i].closing => v.socket[i].closing
         /\ v.socket[i].closing => w.socket[i].closing \/ i \in open
  <2>1. \A i \in Sockets : i \in open => ~ w.socket[i].closing
    BY DEF open
  <2> QED BY <1>5, <2>1
<1>11. Tagged(v) /\ Idle(v) /\ Owned(v)
  <2>4. v.ctrl = w.ctrl /\ v.socket_tag = w.socket_tag
    BY <1>4
  <2>1. Tagged(v)
    BY <1>5, <2>4 DEF Books, Tagged
  <2>2. Idle(v)
    <3>1. \A i \in Sockets : i \in open => w.socket[i].in_use
      BY DEF open
    <3> QED BY <1>5, <3>1 DEF Books, Idle
  <2>3. Owned(v)
    <3> SUFFICES ASSUME NEW i \in Sockets, v.socket[i].in_use, ~ v.socket[i].closing
                 PROVE  \E c \in Ctrl : /\ v.socket[i].param = c /\ w.ctrl[c].socket_id = i
                                        /\ w.ctrl[c].tag = v.socket[i].tag
      BY <2>4 DEF Owned
    <3>1. w.socket[i].in_use /\ ~ w.socket[i].closing
      BY <1>5, <1>14
    <3> QED BY <1>5, <3>1 DEF Books, Owned
  <2> QED BY <2>1, <2>2, <2>3
<1>12. InTime(v)
  <2>1. ASSUME NEW k \in ForSocket(w)
        PROVE  /\ v.cmds[k] = w.cmds[k] /\ v.cmds[k].id \in Sockets
               /\ v.socket[v.cmds[k].id].in_use
               /\ v.socket[v.cmds[k].id].tag = v.cmds[k].of
               /\ v.cmds[k].kind \in Closes =>
                     /\ v.cmds[k].id \notin open
                     /\ v.socket[v.cmds[k].id].closing
                     /\ \A j \in ForSocket(w) : j > k => v.cmds[j].id # v.cmds[k].id
    <3>1. v.cmds[k] = w.cmds[k] /\ w.cmds[k].id \in Sockets
      BY <1>7, <1>9, <1>10 DEF ForSocket
    <3>2. /\ w.socket[w.cmds[k].id].in_use
          /\ w.socket[w.cmds[k].id].tag = w.cmds[k].of
          /\ w.cmds[k].kind \in Closes =>
               /\ w.socket[w.cmds[k].id].closing
               /\ \A j \in ForSocket(w) : j > k => w.cmds[j].id # w.cmds[k].id
      BY DEF Books, InTime
    <3>3. \A j \in ForSocket(w) : v.cmds[j] = w.cmds[j]
      BY <1>7, <1>10
    <3> QED BY <1>5, <3>1, <3>2, <3>3 DEF open
  <2>2. ASSUME NEW k \in L + 1 .. L + N
        PROVE  /\ v.cmds[k].id \in open /\ v.cmds[k].id \in Sockets
               /\ v.socket[v.cmds[k].id].in_use /\ v.socket[v.cmds[k].id].closing
               /\ v.socket[v.cmds[k].id].tag = v.cmds[k].of
               /\ \A j \in L + 1 .. L + N : j > k => v.cmds[j].id # v.cmds[k].id
    <3>1. \A j \in L + 1 .. L + N :
             j - L \in 1 .. N /\ v.cmds[j].id = turns[j - L] /\ turns[j - L] \in open
             /\ v.cmds[j].of = w.socket[turns[j - L]].tag
      BY <1>6, <1>7
    <3>2. v.cmds[k].id \in open /\ v.cmds[k].id \in Sockets
      BY <1>1, <3>1
    <3>3. /\ v.socket[v.cmds[k].id].in_use /\ v.socket[v.cmds[k].id].closing
          /\ v.socket[v.cmds[k].id].tag = v.cmds[k].of
      BY <1>5, <3>1, <3>2 DEF open
    <3>4. \A j \in L + 1 .. L + N : j > k => v.cmds[j].id # v.cmds[k].id
      <4> TAKE j \in L + 1 .. L + N
      <4>1. j > k => k - L < j - L
        BY <1>7
      <4> QED BY <1>3, <3>1, <4>1
    <3> QED BY <3>2, <3>3, <3>4
  <2>3. \A k \in L + 1 .. L + N, j \in ForSocket(w) : ~ (j > k)
    BY <1>7, <1>10
  <2> HIDE DEF ForSocket
  <2> QED BY <1>10, <2>1, <2>2, <2>3 DEF InTime
<1>13. Births(v)
  <2>1. ASSUME NEW k \in ForSocket(v), v.cmds[k].kind \in {"create", "connect"}
        PROVE  k \in ForSocket(w) /\ v.cmds[k] = w.cmds[k] /\ v.cmds[k].id \in Sockets
    <3>1. \A j \in L + 1 .. L + N : v.cmds[j].kind = "close"
      BY <1>6, <1>7
    <3>2. k \in ForSocket(w)
      BY <1>10, <2>1, <3>1
    <3> QED BY <1>7, <1>9, <1>10, <3>2 DEF ForSocket
  <2>2. \A i \in Sockets : /\ v.socket[i].pcb \in {"new", "connecting"} => ~ v.socket[i].rx
                           /\ v.socket[i].pcb = "connecting" => ~ v.socket[i].remote_close
    BY <1>5 DEF Books, Births
  <2>3. ASSUME NEW k \in ForSocket(v)
        PROVE  LET m == v.cmds[k]
                   s == v.socket[m.id]
               IN  /\ m.kind = "create" => s.pcb = "none" /\ ~ s.remote_close /\ ~ s.rx
                   /\ m.kind = "connect" => /\ s.pcb \in {"none", "new"} /\ ~ s.rx
                                            /\ s.pcb = "new" => ~ s.remote_close
                   /\ m.kind \in {"create", "connect"} => \A j \in ForSocket(v) :
                        v.cmds[j].kind = m.kind /\ v.cmds[j].id = m.id => j = k
    <3>1. CASE v.cmds[k].kind \in {"create", "connect"}
      <4>1. k \in ForSocket(w) /\ v.cmds[k] = w.cmds[k] /\ v.cmds[k].id \in Sockets
        BY <2>1, <3>1
      <4>2. \A j \in ForSocket(v) : v.cmds[j].kind = v.cmds[k].kind
                => j \in ForSocket(w) /\ v.cmds[j] = w.cmds[j]
        BY <2>1, <3>1
      <4> QED BY <1>5, <3>1, <4>1, <4>2 DEF Books, Births
    <3>2. CASE v.cmds[k].kind \notin {"create", "connect"}
      BY <3>2
    <3> QED BY <3>1, <3>2
  <2> QED BY <2>2, <2>3 DEF Births
<1> QED BY <1>4, <1>5, <1>8, <1>11, <1>12, <1>13 DEF Books

\* Changing ctrls but not their tags keeps the books as long as every open
\* socket still has its owner.
LEMMA Reowned ==
    ASSUME NEW u \in Worlds, NEW v \in Worlds, Books(u), v.socket = u.socket,
           v.cmds = u.cmds, v.socket_tag = u.socket_tag,
           \A d \in Ctrl : v.ctrl[d].tag = u.ctrl[d].tag,
           Owned(v)
    PROVE  Books(v)
<1>1. Tagged(v) /\ Idle(v)
  BY DEF Books, Tagged, Idle
<1>2. InTime(v)
  BY DEF Books, InTime, ForSocket
<1>3. Births(v)
  BY SMTT(60) DEF Books, Births, ForSocket
<1> QED BY <1>1, <1>2, <1>3 DEF Books

\* A valid socket has one ctrl.
LEMMA ValidIsOwn ==
    ASSUME NEW w \in Worlds, Books(w), NEW c \in Ctrl, Valid(w, c)
    PROVE  /\ w.ctrl[c].socket_id \in Sockets /\ w.ctrl[c].tag > 0
           /\ w.socket[w.ctrl[c].socket_id].param = c
           /\ w.socket[w.ctrl[c].socket_id].tag = w.ctrl[c].tag
           /\ \A d \in Ctrl : Valid(w, d) /\ w.ctrl[d].socket_id = w.ctrl[c].socket_id => d = c
<1> DEFINE i == w.ctrl[c].socket_id
<1>1. /\ i \in Sockets /\ w.socket[i].tag = w.ctrl[c].tag
      /\ w.socket[i].in_use /\ ~ w.socket[i].closing
  BY DEF Valid
<1>2. w.socket[i].tag > 0 /\ w.socket[i].tag \in Nat
  BY <1>1, SockShape DEF Books, Tagged
<1>3. \A d \in Ctrl : w.ctrl[d].tag = w.ctrl[c].tag => d = c
  BY <1>1, <1>2 DEF Books, Tagged
<1>4. PICK d \in Ctrl : w.socket[i].param = d /\ w.ctrl[d].tag = w.socket[i].tag
  BY <1>1 DEF Books, Owned
<1>5. d = c
  BY <1>1, <1>3, <1>4
<1>6. \A e \in Ctrl : Valid(w, e) /\ w.ctrl[e].socket_id = i => e = c
  BY <1>1, <1>3 DEF Valid
<1> QED BY <1>1, <1>2, <1>4, <1>5, <1>6

\* What closing a set of sockets does to one of them.
LEMMA ShutMoves ==
    ASSUME NEW w \in Worlds, NEW ids, NEW i \in Sockets
    PROVE  /\ SocketMoves(w.socket[i], Shut(w, ids)[i], w.socket_tag)
           /\ i \notin ids => Shut(w, ids)[i] = w.socket[i]
           /\ i \in ids => ~ Shut(w, ids)[i].in_use \/ Shut(w, ids)[i].closing
           /\ Shut(w, ids)[i].in_use = w.socket[i].in_use
           /\ Shut(w, ids)[i].tag = w.socket[i].tag
           /\ w.socket[i].closing => Shut(w, ids)[i].closing
           /\ Shut(w, ids)[i].param = w.socket[i].param
<1>1. w.socket[i] \in SockRec
  BY SockShape
<1> DEFINE t == Shut(w, ids)[i]
<1>2. t = IF i \in ids /\ w.socket[i].in_use /\ ~ w.socket[i].closing
          THEN [w.socket[i] EXCEPT !.closing = TRUE] ELSE w.socket[i]
  BY DEF Shut
<1> HIDE DEF t
<1>3. /\ t.in_use = w.socket[i].in_use /\ t.tag = w.socket[i].tag
      /\ t.pcb = w.socket[i].pcb /\ t.rx = w.socket[i].rx
      /\ t.remote_close = w.socket[i].remote_close /\ t.param = w.socket[i].param
      /\ w.socket[i].closing => t.closing
  BY <1>1, <1>2 DEF SockRec
<1>4. i \notin ids => t = w.socket[i]
  BY <1>2
<1>5. i \in ids => ~ t.in_use \/ t.closing
  BY <1>1, <1>2 DEF SockRec
<1>6. SocketMoves(w.socket[i], t, w.socket_tag)
  BY <1>3 DEF SocketMoves
<1> QED BY <1>3, <1>4, <1>5, <1>6 DEF t

\* A clean keeps the books; the ctrls it takes a valid socket from are robbed.
LEMMA Cleans ==
    ASSUME NEW w \in Worlds, Books(w), NEW c \in Ctrl, ~ Valid(w, c),
           NEW v, v = Clean(w)
    PROVE  /\ v \in Worlds /\ Books(v) /\ Moves(w, v, c) /\ ~ Valid(v, c)
           /\ v.ctrl[c] = [w.ctrl[c] EXCEPT !.socket_id = -1]
           /\ v.socket_tag = w.socket_tag
           /\ \A i \in Sockets : v.socket[i].in_use = w.socket[i].in_use
<1> DEFINE valid == {d \in Ctrl : Valid(w, d)}
           keep  == Kept({w.ctrl[d].socket_id : d \in valid})
           u     == LwipForceClose(w, Sockets \ keep)
<1>1. /\ u \in Worlds /\ Books(u)
      /\ u.ctrl = w.ctrl /\ u.robbed = w.robbed /\ u.socket_tag = w.socket_tag
      /\ u.new = w.new /\ u.socket = Shut(w, Sockets \ keep)
  <2> HIDE DEF keep
  <2> QED BY Shuts
<1>2. v = [u EXCEPT !.ctrl = [d \in Ctrl |-> IF d \in valid THEN @[d]
                                            ELSE [@[d] EXCEPT !.socket_id = -1]],
                    !.robbed = @ \cup {d \in valid : w.ctrl[d].socket_id \notin keep}]
  BY DEF Clean
<1> HIDE DEF keep, u
<1>3. /\ v.ctrl = [d \in Ctrl |-> IF d \in valid THEN w.ctrl[d]
                                  ELSE [w.ctrl[d] EXCEPT !.socket_id = -1]]
      /\ v.robbed = w.robbed \cup {d \in valid : w.ctrl[d].socket_id \notin keep}
      /\ v.socket = u.socket /\ v.cmds = u.cmds /\ v.socket_tag = w.socket_tag
      /\ v.new = w.new
  BY <1>1, <1>2 DEF Worlds
<1>4. \A d \in Ctrl : /\ Valid(w, d) => v.ctrl[d] = w.ctrl[d]
                      /\ ~ Valid(w, d) => v.ctrl[d] = [w.ctrl[d] EXCEPT !.socket_id = -1]
                      /\ Valid(w, d) /\ w.ctrl[d].socket_id \notin keep => d \in v.robbed
  BY <1>3
<1>5. \A d \in Ctrl : /\ v.ctrl[d] \in CtrlRec /\ v.ctrl[d].tag = w.ctrl[d].tag
                      /\ ~ Valid(w, d) => v.ctrl[d].socket_id = -1
  <2> TAKE d \in Ctrl
  <2>1. w.ctrl[d] \in CtrlRec
    BY CtrlShape
  <2> QED BY <1>4, <2>1, ZenonT(60) DEF CtrlRec
<1>6. v \in Worlds
  <2>1. v.ctrl \in [Ctrl -> CtrlRec]
    BY <1>3, <1>5
  <2>2. v.robbed \subseteq Ctrl
    BY <1>3, ShapeOf
  <2> QED BY <1>1, <1>2, <2>1, <2>2 DEF Worlds
<1>7. Owned(v)
  <2> SUFFICES ASSUME NEW i \in Sockets, u.socket[i].in_use, ~ u.socket[i].closing
               PROVE  \E d \in Ctrl : /\ u.socket[i].param = d /\ v.ctrl[d].socket_id = i
                                      /\ v.ctrl[d].tag = u.socket[i].tag
    BY <1>3 DEF Owned
  <2>1. /\ w.socket[i].in_use /\ ~ w.socket[i].closing
        /\ u.socket[i].tag = w.socket[i].tag /\ u.socket[i].param = w.socket[i].param
    BY <1>1, ShutMoves
  <2>2. PICK d \in Ctrl : /\ w.socket[i].param = d /\ w.ctrl[d].socket_id = i
                          /\ w.ctrl[d].tag = w.socket[i].tag
    BY <2>1 DEF Books, Owned
  <2>3. Valid(w, d)
    BY <2>1, <2>2 DEF Valid
  <2> QED BY <1>4, <2>1, <2>2, <2>3, ZenonT(60)
<1>8. Books(v)
  <2>1. v.socket = u.socket /\ v.cmds = u.cmds /\ v.socket_tag = u.socket_tag
    BY <1>1, <1>3
  <2>2. \A d \in Ctrl : v.ctrl[d].tag = u.ctrl[d].tag
    BY <1>1, <1>5
  <2> QED BY <1>1, <1>6, <1>7, <2>1, <2>2, Reowned
<1>9. -1 \notin Sockets
  BY SockAssumption DEF Sockets
<1>10. \A d \in Ctrl : Valid(v, d) => Valid(w, d)
  BY <1>5, <1>9 DEF Valid
<1>11. ASSUME NEW d \in Ctrl, Valid(w, d), d \notin v.robbed PROVE Valid(v, d)
  <2>1. w.ctrl[d].socket_id \in keep /\ w.ctrl[d].socket_id \in Sockets
    BY <1>4, <1>11 DEF Valid
  <2>2. v.socket[w.ctrl[d].socket_id] = w.socket[w.ctrl[d].socket_id]
    BY <1>1, <1>3, <2>1, ShutMoves
  <2> QED BY <1>4, <1>11, <2>2 DEF Valid
<1>12. \A i \in Sockets : /\ SocketMoves(w.socket[i], v.socket[i], w.socket_tag)
                          /\ v.socket[i].in_use = w.socket[i].in_use
  BY <1>1, <1>3, ShutMoves
<1>13. Moves(w, v, c)
  <2>1. w.socket_tag <= v.socket_tag
    BY <1>3, ShapeOf
  <2>2. v.ctrl[c].tag = w.ctrl[c].tag /\ v.ctrl[c].socket_id = -1
    BY <1>5
  <2>3. w.robbed \subseteq v.robbed /\ v.new = w.new
    BY <1>3
  <2> QED BY <1>4, <1>10, <1>11, <1>12, <2>1, <2>2, <2>3 DEF Moves
<1> QED BY <1>3, <1>4, <1>6, <1>8, <1>10, <1>12, <1>13

\* After network_socket_close the ctrl has no valid socket.
LEMMA ClosesSocket ==
    ASSUME NEW w \in Worlds, Books(w), NEW c \in Ctrl,
           NEW v, v = CloseSocket(w, c)
    PROVE  /\ v \in Worlds /\ Books(v) /\ Moves(w, v, c) /\ ~ Valid(v, c)
           /\ v.ctrl[c] \in {w.ctrl[c], [w.ctrl[c] EXCEPT !.socket_id = -1]}
<1> DEFINE i == w.ctrl[c].socket_id
<1>1. i \in Int /\ (~ (i < 0) => i \in Sockets)
  BY CtrlShape
<1>2. CASE i < 0
  <2>1. v = w
    BY <1>2 DEF CloseSocket
  <2>2. ~ Valid(w, c)
    <3>1. \A j \in Sockets : ~ (j < 0)
      BY SockAssumption DEF Sockets
    <3> QED BY <1>2, <3>1 DEF Valid
  <2> QED BY <2>1, <2>2, StandsStill
<1>3. CASE ~ (i < 0) /\ w.socket[i].tag = w.ctrl[c].tag
  <2>1. v = LwipForceClose(w, {i}) /\ i \in Sockets
    BY <1>1, <1>3 DEF CloseSocket
  <2>2. /\ v \in Worlds /\ Books(v)
        /\ v.ctrl = w.ctrl /\ v.robbed = w.robbed /\ v.socket_tag = w.socket_tag
        /\ v.new = w.new /\ v.socket = Shut(w, {i})
    <3>1. {i} \in SUBSET Sockets
      BY <2>1
    <3> QED BY <2>1, <3>1, Shuts
  <2>9. \A j \in Sockets :
           /\ SocketMoves(w.socket[j], v.socket[j], w.socket_tag)
           /\ j # i => v.socket[j] = w.socket[j]
           /\ j = i => ~ v.socket[j].in_use \/ v.socket[j].closing
           /\ v.socket[j].in_use = w.socket[j].in_use
           /\ v.socket[j].tag = w.socket[j].tag
           /\ w.socket[j].closing => v.socket[j].closing
    BY <2>2, ShutMoves
  <2>3. ~ Valid(v, c)
    BY <2>1, <2>2, <2>9 DEF Valid
  <2>4. ASSUME NEW d \in Ctrl, Valid(v, d) PROVE Valid(w, d)
    <3> HIDE DEF i
    <3>1. w.ctrl[d].socket_id \in Sockets /\ v.ctrl[d] = w.ctrl[d]
      BY <2>2, <2>4 DEF Valid
    <3>2. LET j == w.ctrl[d].socket_id
          IN  /\ v.socket[j].tag = w.ctrl[d].tag
              /\ v.socket[j].in_use /\ ~ v.socket[j].closing
      BY <2>4, <3>1 DEF Valid
    <3> QED BY <2>9, <3>1, <3>2 DEF Valid
  <2>5. ASSUME NEW d \in Ctrl \ {c}, Valid(w, d) PROVE Valid(v, d)
    <3>1. w.ctrl[d].socket_id \in Sockets /\ w.ctrl[d].tag > 0
          /\ w.socket[w.ctrl[d].socket_id].tag = w.ctrl[d].tag
      BY <2>5, ValidIsOwn
    <3>2. w.ctrl[d].socket_id # i
      <4>1. w.ctrl[d].tag = w.ctrl[c].tag => d = c \/ w.ctrl[d].tag = 0
        BY DEF Books, Tagged
      <4> QED BY <1>3, <3>1, <4>1, CtrlShape
    <3>3. v.socket[w.ctrl[d].socket_id] = w.socket[w.ctrl[d].socket_id]
      BY <2>9, <3>1, <3>2
    <3> QED BY <2>2, <2>5, <3>3 DEF Valid
  <2>6. \A j \in Sockets : SocketMoves(w.socket[j], v.socket[j], w.socket_tag)
    BY <2>9
  <2>7. w.socket_tag <= v.socket_tag
    BY <2>2, ShapeOf
  <2>8. Moves(w, v, c)
    BY <2>2, <2>4, <2>5, <2>6, <2>7 DEF Moves
  <2> QED BY <2>2, <2>3, <2>8
<1>4. CASE ~ (i < 0) /\ w.socket[i].tag # w.ctrl[c].tag
  <2>1. v = Clean(w)
    BY <1>4 DEF CloseSocket
  <2>2. ~ Valid(w, c)
    BY <1>4 DEF Valid
  <2> QED BY <2>1, <2>2, Cleans, ZenonT(60)
<1> QED BY <1>2, <1>3, <1>4

\* The callers forget the socket, and more.
LEMMA Drops ==
    ASSUME NEW w \in Worlds, Books(w), NEW c \in Ctrl, NEW r \in CtrlRec,
           r.tag = w.ctrl[c].tag, r.socket_id = -1,
           NEW v, v = Tuned(CloseSocket(w, c), c, r)
    PROVE  /\ v \in Worlds /\ Books(v) /\ Moves(w, v, c) /\ ~ Valid(v, c)
           /\ v.ctrl[c] = r
<1> DEFINE u == CloseSocket(w, c)
<1>1. /\ u \in Worlds /\ Books(u) /\ Moves(w, u, c) /\ ~ Valid(u, c)
      /\ u.ctrl[c] \in {w.ctrl[c], [w.ctrl[c] EXCEPT !.socket_id = -1]}
  BY ClosesSocket
<1> HIDE DEF u
<1>2. u.ctrl[c].tag = w.ctrl[c].tag
  <2>1. w.ctrl[c] \in CtrlRec
    BY CtrlShape
  <2> QED BY <1>1, <2>1 DEF CtrlRec
<1>3. v = Tuned(u, c, r)
  BY DEF u
<1>4. /\ v \in Worlds /\ Books(v) /\ Moves(u, v, c) /\ v.ctrl[c] = r
      /\ (Valid(v, c) <=> Valid(u, c))
  <2>1. r.socket_id = u.ctrl[c].socket_id \/ (r.socket_id = -1 /\ ~ Valid(u, c))
    BY <1>1
  <2>2. r.tag = u.ctrl[c].tag
    BY <1>2
  <2>3. /\ v \in Worlds /\ Books(v) /\ Moves(u, v, c) /\ v.ctrl[c] = r
        /\ \A d \in Ctrl : Valid(v, d) <=> Valid(u, d)
    BY <1>1, <1>3, <2>1, <2>2, Tunes
  <2> QED BY <2>3
<1>5. Moves(w, v, c)
  BY <1>1, <1>4, MovesOn DEF Books
<1> QED BY <1>1, <1>4, <1>5

Forgot(s) == [s EXCEPT !.need_close = FALSE, !.socket_id = -1, !.new_rx_flag = FALSE,
                       !.name = None, !.ips = 0, !.cnt = 0, !.ipsOf = None,
                       !.wait = "NONE"]

\* network_force_close_socket leaves c without a socket.
LEMMA ForceCloses ==
    ASSUME NEW w \in Worlds, Books(w), NEW c \in Ctrl,
           NEW v, v = ForceCloseSocket(w, c)
    PROVE  /\ v \in Worlds /\ Books(v) /\ Moves(w, v, c) /\ ~ Valid(v, c)
           /\ v.ctrl[c] = Forgot(w.ctrl[c])
<1> DEFINE u == CloseSocket(w, c)
           r == Forgot(w.ctrl[c])
<1>1. /\ u \in Worlds
      /\ u.ctrl[c] \in {w.ctrl[c], [w.ctrl[c] EXCEPT !.socket_id = -1]}
  BY ClosesSocket
<1>2. w.ctrl[c] \in CtrlRec
  BY CtrlShape
<1>3. r \in CtrlRec /\ r.tag = w.ctrl[c].tag /\ r.socket_id = -1
  <2>1. 0 \in 0 .. MaxIp
    BY SockAssumption
  <2> QED BY <1>2, <2>1 DEF Forgot, CtrlRec, Waits
<1>4. Forgot(u.ctrl[c]) = r
  BY <1>1, <1>2 DEF Forgot, CtrlRec
<1>5. v = Tuned(u, c, Forgot(u.ctrl[c]))
  BY DEF ForceCloseSocket, Forgot, Tuned
<1>6. v = Tuned(CloseSocket(w, c), c, r)
  <2> HIDE DEF r
  <2> QED BY <1>4, <1>5
<1> HIDE DEF r, u
<1>7. /\ v \in Worlds /\ Books(v) /\ Moves(w, v, c) /\ ~ Valid(v, c)
      /\ v.ctrl[c] = r
  BY <1>3, <1>6, Drops
<1> QED BY <1>7 DEF r
----------------------------------------------------------------------------
\* Commands that are sent

\* A command at the end of the mailbox.
LEMMA AppendOf ==
    ASSUME NEW S, NEW p \in Seq(S), NEW m \in S
    PROVE  /\ Append(p, m) \in Seq(S) /\ Len(p) \in Nat
           /\ DOMAIN p = 1 .. Len(p) /\ DOMAIN Append(p, m) = 1 .. Len(p) + 1
           /\ \A k \in 1 .. Len(p) : Append(p, m)[k] = p[k]
           /\ Append(p, m)[Len(p) + 1] = m
  OBVIOUS

\* No command in the mailbox for socket i, but for those of a kind in kinds.
Quiet(w, i, kinds) == \A k \in ForSocket(w) : w.cmds[k].id = i => w.cmds[k].kind \in kinds

\* What may be sent to a socket when.
Fits(w, m) ==
    LET s == w.socket[m.id]
    IN  /\ s.in_use /\ s.tag = m.of
        /\ m.kind \in Closes => s.closing
        /\ m.kind = "create" => /\ s.pcb = "none" /\ ~ s.remote_close /\ ~ s.rx
                                /\ Quiet(w, m.id, {})
        /\ m.kind = "connect" => /\ s.pcb \in {"none", "new"} /\ ~ s.rx
                                 /\ s.pcb = "new" => ~ s.remote_close
                                 /\ Quiet(w, m.id, {"create"})
        /\ Quiet(w, m.id, {"create", "connect", "tx"})

\* A command that fits its socket may be sent.
LEMMA Sends ==
    ASSUME NEW w \in Worlds, Books(w), NEW c \in Ctrl,
           NEW kind, NEW i, NEW of, NEW m, m = [kind |-> kind, id |-> i, of |-> of],
           m \in Commands, m.kind = "dns" \/ Fits(w, m),
           NEW v, v = Send(w, kind, i, of)
    PROVE  /\ v \in Worlds /\ Books(v) /\ Moves(w, v, c)
           /\ v.ctrl = w.ctrl /\ v.socket = w.socket /\ v.robbed = w.robbed
           /\ v.socket_tag = w.socket_tag
           /\ \A d \in Ctrl : Valid(v, d) <=> Valid(w, d)
<1> DEFINE L == Len(w.cmds)
<1>1. /\ v.ctrl = w.ctrl /\ v.socket = w.socket /\ v.robbed = w.robbed
      /\ v.socket_tag = w.socket_tag /\ v.new = w.new
      /\ v.cmds = Append(w.cmds, m) /\ v = [w EXCEPT !.cmds = v.cmds]
  BY DEF Send, Worlds
<1>2. w.cmds \in Seq(Commands)
  BY ShapeOf
<1>3. /\ v.cmds \in Seq(Commands) /\ L \in Nat /\ DOMAIN w.cmds = 1 .. L
      /\ DOMAIN v.cmds = 1 .. L + 1
      /\ \A k \in 1 .. L : v.cmds[k] = w.cmds[k]
      /\ v.cmds[L + 1] = m
  BY <1>1, <1>2, AppendOf
<1>4. v \in Worlds
  BY <1>1, <1>3 DEF Worlds
<1>5. \A d \in Ctrl : Valid(v, d) <=> Valid(w, d)
  BY <1>1 DEF Valid
<1>6. Moves(w, v, c)
  <2>1. \A j \in Sockets : SocketMoves(w.socket[j], v.socket[j], w.socket_tag)
    BY <1>1 DEF SocketMoves
  <2>2. w.socket_tag \in Nat
    BY ShapeOf
  <2> QED BY <1>1, <1>5, <2>1, <2>2 DEF Moves
<1>7. Tagged(v) /\ Idle(v) /\ Owned(v)
  BY <1>1 DEF Books, Tagged, Idle, Owned
<1>8. /\ ForSocket(w) \subseteq 1 .. L
      /\ m.kind = "dns" => ForSocket(v) = ForSocket(w)
      /\ m.kind # "dns" => ForSocket(v) = ForSocket(w) \cup {L + 1}
      /\ \A k \in ForSocket(w) : v.cmds[k] = w.cmds[k] /\ k < L + 1
  <2>1. \A k : k \in 1 .. L + 1 <=> k \in 1 .. L \/ k = L + 1
    BY <1>3
  <2>2. \A k \in 1 .. L : k < L + 1
    BY <1>3
  <2> HIDE DEF L
  <2> QED BY <1>3, <2>1, <2>2 DEF ForSocket
<1> HIDE DEF L
<1>11. ASSUME NEW k \in ForSocket(w)
       PROVE  /\ v.socket[v.cmds[k].id].in_use
              /\ v.socket[v.cmds[k].id].tag = v.cmds[k].of
              /\ v.cmds[k].kind \in Closes =>
                    /\ v.socket[v.cmds[k].id].closing
                    /\ \A j \in ForSocket(w) : j > k => v.cmds[j].id # v.cmds[k].id
  <2>1. /\ w.socket[w.cmds[k].id].in_use
        /\ w.socket[w.cmds[k].id].tag = w.cmds[k].of
        /\ w.cmds[k].kind \in Closes =>
              /\ w.socket[w.cmds[k].id].closing
              /\ \A j \in ForSocket(w) : j > k => w.cmds[j].id # w.cmds[k].id
    BY DEF Books, InTime
  <2>2. \A j \in ForSocket(w) : v.cmds[j] = w.cmds[j]
    BY <1>8
  <2>3. v.cmds[k] = w.cmds[k] /\ v.socket = w.socket
    BY <1>1, <2>2
  <2> QED BY <2>1, <2>2, <2>3
<1>12. ASSUME NEW k \in ForSocket(w)
       PROVE  LET n == v.cmds[k]
                  s == v.socket[n.id]
              IN  /\ n.kind = "create" => s.pcb = "none" /\ ~ s.remote_close /\ ~ s.rx
                  /\ n.kind = "connect" => /\ s.pcb \in {"none", "new"} /\ ~ s.rx
                                           /\ s.pcb = "new" => ~ s.remote_close
                  /\ n.kind \in {"create", "connect"} => \A j \in ForSocket(w) :
                       v.cmds[j].kind = n.kind /\ v.cmds[j].id = n.id => j = k
  <2>1. LET n == w.cmds[k]
            s == w.socket[n.id]
        IN  /\ n.kind = "create" => s.pcb = "none" /\ ~ s.remote_close /\ ~ s.rx
            /\ n.kind = "connect" => /\ s.pcb \in {"none", "new"} /\ ~ s.rx
                                     /\ s.pcb = "new" => ~ s.remote_close
            /\ n.kind \in {"create", "connect"} => \A j \in ForSocket(w) :
                 w.cmds[j].kind = n.kind /\ w.cmds[j].id = n.id => j = k
    BY DEF Books, Births
  <2>2. \A j \in ForSocket(w) : v.cmds[j] = w.cmds[j]
    BY <1>8
  <2>3. v.cmds[k] = w.cmds[k] /\ v.socket = w.socket
    BY <1>1, <2>2
  <2> QED BY <2>1, <2>2, <2>3
<1>13. \A j \in Sockets :
          /\ v.socket[j].pcb \in {"new", "connecting"} => ~ v.socket[j].rx
          /\ v.socket[j].pcb = "connecting" => ~ v.socket[j].remote_close
  BY <1>1 DEF Books, Births
<1>9. CASE m.kind = "dns"
  <2>1. InTime(v)
    BY <1>8, <1>9, <1>11, SMTT(30) DEF InTime
  <2>2. Births(v)
    BY <1>8, <1>9, <1>12, <1>13, ZenonT(60) DEF Births
  <2> QED BY <1>1, <1>4, <1>5, <1>6, <1>7, <2>1, <2>2 DEF Books
<1>10. CASE m.kind # "dns"
  <2>1. Fits(w, m)
    BY <1>10
  <2>2. ForSocket(v) = ForSocket(w) \cup {L + 1}
    BY <1>8, <1>10
  <2>3. ASSUME NEW k \in ForSocket(w)
        PROVE  /\ v.cmds[k] = w.cmds[k]
               /\ v.cmds[k].id = m.id => v.cmds[k].kind \in {"create", "connect", "tx"}
               /\ m.kind = "create" => v.cmds[k].id # m.id
               /\ m.kind = "connect" /\ v.cmds[k].id = m.id => v.cmds[k].kind = "create"
    BY <1>8, <2>1 DEF Fits, Quiet
  <2>4. InTime(v)
    <3>1. ASSUME NEW k \in ForSocket(w)
          PROVE  /\ v.socket[v.cmds[k].id].in_use
                 /\ v.socket[v.cmds[k].id].tag = v.cmds[k].of
                 /\ v.cmds[k].kind \in Closes =>
                       /\ v.socket[v.cmds[k].id].closing
                       /\ \A j \in ForSocket(w) : j > k => v.cmds[j].id # v.cmds[k].id
                       /\ m.id # v.cmds[k].id
      <4>1. v.cmds[k].kind \in Closes => m.id # v.cmds[k].id
        BY <2>3 DEF Closes
      <4> QED BY <1>11, <4>1
    <3>2. /\ v.socket[m.id].in_use /\ v.socket[m.id].tag = m.of
          /\ m.kind \in Closes => v.socket[m.id].closing
      BY <1>1, <2>1 DEF Fits
    <3>3. \A k \in ForSocket(v) : ~ (k > L + 1)
      BY <1>3, <1>8, <2>2, SMTT(30)
    <3> QED BY <1>3, <2>2, <3>1, <3>2, <3>3 DEF InTime
  <2>5. Births(v)
    <3>1. ASSUME NEW k \in ForSocket(w)
          PROVE  LET n == v.cmds[k]
                     s == v.socket[n.id]
                 IN  /\ n.kind = "create" => s.pcb = "none" /\ ~ s.remote_close /\ ~ s.rx
                     /\ n.kind = "connect" => /\ s.pcb \in {"none", "new"} /\ ~ s.rx
                                              /\ s.pcb = "new" => ~ s.remote_close
                     /\ n.kind \in {"create", "connect"} => \A j \in ForSocket(v) :
                          v.cmds[j].kind = n.kind /\ v.cmds[j].id = n.id => j = k
      <4>2. v.cmds[k].kind \in {"create", "connect"} /\ m.kind = v.cmds[k].kind
               => m.id # v.cmds[k].id
        BY <2>3
      <4> QED BY <1>3, <1>12, <2>2, <4>2
    <3>2. LET s == v.socket[m.id]
          IN  /\ m.kind = "create" => s.pcb = "none" /\ ~ s.remote_close /\ ~ s.rx
              /\ m.kind = "connect" => /\ s.pcb \in {"none", "new"} /\ ~ s.rx
                                       /\ s.pcb = "new" => ~ s.remote_close
              /\ m.kind \in {"create", "connect"} => \A j \in ForSocket(v) :
                   v.cmds[j].kind = m.kind /\ v.cmds[j].id = m.id => j = L + 1
      BY <1>1, <2>1, <2>2, <2>3 DEF Fits
    <3>3. m = v.cmds[L + 1]
      BY <1>3
    <3>4. \A k \in ForSocket(v) :
            LET n == v.cmds[k]
                s == v.socket[n.id]
            IN  /\ n.kind = "create" => s.pcb = "none" /\ ~ s.remote_close /\ ~ s.rx
                /\ n.kind = "connect" => /\ s.pcb \in {"none", "new"} /\ ~ s.rx
                                         /\ s.pcb = "new" => ~ s.remote_close
                /\ n.kind \in {"create", "connect"} => \A j \in ForSocket(v) :
                     v.cmds[j].kind = n.kind /\ v.cmds[j].id = n.id => j = k
      <4> SUFFICES ASSUME NEW k \in ForSocket(v)
                   PROVE  LET n == v.cmds[k]
                              s == v.socket[n.id]
                          IN  /\ n.kind = "create" => s.pcb = "none" /\ ~ s.remote_close /\ ~ s.rx
                              /\ n.kind = "connect" => /\ s.pcb \in {"none", "new"} /\ ~ s.rx
                                                       /\ s.pcb = "new" => ~ s.remote_close
                              /\ n.kind \in {"create", "connect"} => \A j \in ForSocket(v) :
                                   v.cmds[j].kind = n.kind /\ v.cmds[j].id = n.id => j = k
        OBVIOUS
      <4>1. CASE k \in ForSocket(w)
        BY <4>1, <3>1
      <4>2. CASE k = L + 1
        BY <4>2, <3>2, <3>3
      <4> QED BY <2>2, <4>1, <4>2
    <3> QED BY <1>13, <3>4, ZenonT(30) DEF Births
  <2> QED BY <1>1, <1>4, <1>5, <1>6, <1>7, <2>4, <2>5 DEF Books
<1> QED BY <1>9, <1>10
----------------------------------------------------------------------------
\* Sockets that are made

\* The search for a free socket finds one if there is one.
LEMMA PickedFree ==
    ASSUME NEW w \in Worlds, FreeSockets(w) # {}
    PROVE  Picked(w) \in FreeSockets(w)
<1> DEFINE away(i) == (i - w.next + MAX_SOCK_NUM) % MAX_SOCK_NUM
           S == {away(i) : i \in FreeSockets(w)}
<1>1. MAX_SOCK_NUM \in Int /\ MAX_SOCK_NUM > 0 /\ w.next \in Int
  BY SockAssumption, ShapeOf DEF Sockets
<1>2. \A i \in FreeSockets(w) : away(i) \in 0 .. MAX_SOCK_NUM - 1
  <2>1. \A a \in Int : a % MAX_SOCK_NUM \in 0 .. MAX_SOCK_NUM - 1
    BY <1>1
  <2>2. \A i \in FreeSockets(w) : i - w.next + MAX_SOCK_NUM \in Int
    BY <1>1 DEF FreeSockets, Sockets
  <2> QED BY <2>1, <2>2
<1>3. S \in SUBSET Int /\ S # {} /\ IsFiniteSet(S)
  <2>1. S \subseteq 0 .. MAX_SOCK_NUM - 1
    BY <1>2
  <2>2. IsFiniteSet(0 .. MAX_SOCK_NUM - 1)
    BY <1>1, FS_Interval
  <2>3. S # {}
    OBVIOUS
  <2>4. \A a \in 0 .. MAX_SOCK_NUM - 1 : a \in Int
    BY <1>1
  <2> HIDE DEF S
  <2>5. S \subseteq Int
    BY <2>1, <2>4
  <2> QED BY <2>1, <2>2, <2>3, <2>5, FS_Subset
<1>4. PICK a \in S : \A b \in S : a <= b
  <2> HIDE DEF S
  <2> QED BY <1>3, LeastIs
<1>5. PICK x \in FreeSockets(w) : a = away(x)
  OBVIOUS
<1>6. \A y \in FreeSockets(w) : away(x) <= away(y)
  BY <1>4, <1>5
<1> QED BY <1>6 DEF Picked

\* A socket as its ctrl got it: nothing has happened to it.
Fresh(v, c) ==
    LET i == v.ctrl[c].socket_id
        s == v.socket[i]
    IN  /\ Valid(v, c) /\ s.pcb \in {"none", "new"} /\ ~ s.rx /\ ~ s.remote_close
        /\ Quiet(v, i, {"create"})

\* A free socket is given, under a new tag, to a ctrl that holds none.
Given(w, v, c, i) ==
    LET s == v.socket[i]
    IN  /\ s.in_use /\ s.tag = w.socket_tag + 1 /\ s.param = c /\ ~ s.closing
        /\ ~ s.remote_close /\ ~ s.rx /\ s.pcb \in {"none", "new"}
        /\ v.ctrl[c].socket_id = i /\ v.ctrl[c].tag = w.socket_tag + 1
        /\ \A j \in Sockets \ {i} : v.socket[j] = w.socket[j]
        /\ \A d \in Ctrl \ {c} : v.ctrl[d] = w.ctrl[d]
        /\ v.cmds = w.cmds /\ v.socket_tag = w.socket_tag + 1 /\ v.robbed = w.robbed
        /\ v.new = w.new

\* A free socket taken for c is given to c alone, with a tag of its own.
LEMMA Gives ==
    ASSUME NEW w \in Worlds, Books(w), NEW c \in Ctrl, ~ Valid(w, c),
           NEW i \in FreeSockets(w), NEW v \in Worlds, Given(w, v, c, i)
    PROVE  Books(v) /\ Moves(w, v, c) /\ Fresh(v, c) /\ Quiet(v, i, {})
<1> DEFINE s == v.socket[i]
<1>0. /\ s.in_use /\ s.tag = w.socket_tag + 1 /\ s.param = c /\ ~ s.closing
      /\ ~ s.remote_close /\ ~ s.rx /\ s.pcb \in {"none", "new"}
      /\ v.cmds = w.cmds /\ v.socket_tag = w.socket_tag + 1 /\ v.robbed = w.robbed
      /\ v.new = w.new
  BY DEF Given
<1>1. i \in Sockets /\ ~ w.socket[i].in_use /\ w.socket_tag \in Nat
  BY ShapeOf DEF FreeSockets
<1>2. /\ v.socket[i] = s /\ \A j \in Sockets \ {i} : v.socket[j] = w.socket[j]
      /\ \A d \in Ctrl \ {c} : v.ctrl[d] = w.ctrl[d]
      /\ v.ctrl[c].socket_id = i /\ v.ctrl[c].tag = w.socket_tag + 1
  BY DEF Given
<1> HIDE DEF s
<1>3. \A j \in Sockets : w.socket[j].tag \in Nat /\ w.socket[j].tag <= w.socket_tag
  BY SockShape DEF Books, Tagged
<1>4. \A d \in Ctrl : w.ctrl[d].tag \in Nat /\ w.ctrl[d].tag <= w.socket_tag
  BY CtrlShape DEF Books, Tagged
<1>5. Tagged(v)
  <2>1. \A j \in Sockets : /\ v.socket[j].tag <= w.socket_tag + 1
                           /\ v.socket[j].in_use => v.socket[j].tag > 0
    BY <1>0, <1>1, <1>2, <1>3 DEF Books, Tagged
  <2>2. \A d \in Ctrl : v.ctrl[d].tag <= w.socket_tag + 1
    BY <1>0, <1>1, <1>2, <1>4
  <2>3. \A j, k \in Sockets : v.socket[j].tag = v.socket[k].tag => j = k \/ v.socket[j].tag = 0
    BY <1>0, <1>1, <1>2, <1>3 DEF Books, Tagged
  <2>4. \A d, e \in Ctrl : v.ctrl[d].tag = v.ctrl[e].tag => d = e \/ v.ctrl[d].tag = 0
    BY <1>0, <1>1, <1>2, <1>4 DEF Books, Tagged
  <2> QED BY <1>0, <2>1, <2>2, <2>3, <2>4 DEF Tagged
<1>6. Idle(v)
  BY <1>0, <1>2 DEF Books, Idle
<1>7. ForSocket(v) = ForSocket(w) /\ \A k \in ForSocket(w) :
         /\ v.cmds[k] = w.cmds[k] /\ w.cmds[k].id # i
         /\ v.socket[w.cmds[k].id] = w.socket[w.cmds[k].id]
  <2>1. ForSocket(v) = ForSocket(w)
    BY <1>0 DEF ForSocket
  <2>2. ASSUME NEW k \in ForSocket(w) PROVE w.cmds[k].id # i /\ w.cmds[k].id \in Sockets
    <3>1. w.cmds[k] \in Commands /\ w.cmds[k].kind # "dns"
      BY ShapeOf DEF ForSocket
    <3>2. w.cmds[k].id \in Sockets
      BY <3>1 DEF Commands
    <3>3. w.socket[w.cmds[k].id].in_use
      BY DEF Books, InTime
    <3> QED BY <1>1, <3>2, <3>3
  <2> QED BY <1>0, <1>2, <2>1, <2>2
<1>8. InTime(v)
  <2>1. \A k \in ForSocket(w) :
           /\ w.socket[w.cmds[k].id].in_use
           /\ w.socket[w.cmds[k].id].tag = w.cmds[k].of
           /\ w.cmds[k].kind \in Closes =>
                /\ w.socket[w.cmds[k].id].closing
                /\ \A j \in ForSocket(w) : j > k => w.cmds[j].id # w.cmds[k].id
    BY DEF Books, InTime
  <2> QED BY <1>0, <1>7, <2>1 DEF InTime
<1>9. Births(v)
  <2>1. \A k \in ForSocket(w) :
         LET m == w.cmds[k]
             t == w.socket[m.id]
         IN  /\ m.kind = "create" => t.pcb = "none" /\ ~ t.remote_close /\ ~ t.rx
             /\ m.kind = "connect" => /\ t.pcb \in {"none", "new"} /\ ~ t.rx
                                      /\ t.pcb = "new" => ~ t.remote_close
             /\ m.kind \in {"create", "connect"} => \A j \in ForSocket(w) :
                  w.cmds[j].kind = m.kind /\ w.cmds[j].id = m.id => j = k
    BY DEF Books, Births
  <2>2. \A j \in Sockets :
          /\ v.socket[j].pcb \in {"new", "connecting"} => ~ v.socket[j].rx
          /\ v.socket[j].pcb = "connecting" => ~ v.socket[j].remote_close
    BY <1>0, <1>2 DEF Books, Births
  <2> QED BY <1>0, <1>7, <2>1, <2>2, SMTT(60) DEF Births
<1>10. Owned(v)
  <2> SUFFICES ASSUME NEW j \in Sockets, v.socket[j].in_use, ~ v.socket[j].closing
               PROVE  \E d \in Ctrl : /\ v.socket[j].param = d /\ v.ctrl[d].socket_id = j
                                      /\ v.ctrl[d].tag = v.socket[j].tag
    BY DEF Owned
  <2>1. CASE j = i
    BY <1>0, <1>2, <2>1
  <2>2. CASE j # i
    <3>1. PICK d \in Ctrl : /\ w.socket[j].param = d /\ w.ctrl[d].socket_id = j
                            /\ w.ctrl[d].tag = w.socket[j].tag
      BY <1>0, <1>2, <2>2 DEF Books, Owned
    <3>2. d # c
      BY <1>0, <1>2, <2>2, <3>1 DEF Valid
    <3> QED BY <1>0, <1>2, <2>2, <3>1, <3>2
  <2> QED BY <2>1, <2>2
<1>11. Valid(v, c) /\ Quiet(v, i, {}) /\ Fresh(v, c)
  <2>1. Valid(v, c)
    BY <1>0, <1>1, <1>2 DEF Valid
  <2>2. Quiet(v, i, {}) /\ Quiet(v, i, {"create"})
    BY <1>0, <1>7 DEF Quiet
  <2> QED BY <1>0, <1>2, <2>1, <2>2 DEF Fresh
<1>12. Moves(w, v, c)
  <2>1. ASSUME NEW d \in Ctrl \ {c} PROVE Valid(w, d) <=> Valid(v, d)
    <3>1. v.ctrl[d] = w.ctrl[d] /\ w.ctrl[d].tag # s.tag
      BY <1>0, <1>1, <1>2, <1>4
    <3>2. w.ctrl[d].socket_id = i => ~ Valid(w, d) /\ ~ Valid(v, d)
      BY <1>0, <1>1, <1>2, <3>1 DEF Valid
    <3>3. w.ctrl[d].socket_id # i => (Valid(w, d) <=> Valid(v, d))
      BY <1>0, <1>2, <3>1 DEF Valid
    <3> QED BY <3>2, <3>3
  <2>2. \A j \in Sockets : SocketMoves(w.socket[j], v.socket[j], w.socket_tag)
    BY <1>0, <1>1, <1>2 DEF SocketMoves
  <2>3. v.ctrl[c].tag > w.socket_tag /\ w.socket_tag <= v.socket_tag
    BY <1>0, <1>1, <1>2
  <2> QED BY <1>0, <1>2, <2>1, <2>2, <2>3 DEF Moves
<1> QED BY <1>0, <1>2, <1>5, <1>6, <1>8, <1>9, <1>10, <1>11, <1>12 DEF Books

\* What of a ctrl the making of a socket leaves as it is.
Same(r, s) == /\ s.state = r.state /\ s.wait = r.wait /\ s.auto_mode = r.auto_mode
              /\ s.new_rx_flag = r.new_rx_flag /\ s.name = r.name /\ s.ips = r.ips

\* network_create_soceket gives c a socket of its own, or none.
LEMMA Creates ==
    ASSUME NEW w \in Worlds, Books(w), NEW c \in Ctrl, ~ Valid(w, c),
           NEW v, v = Create(w, c)
    PROVE  /\ v \in Worlds /\ Books(v) /\ Moves(w, v, c)
           /\ Same(w.ctrl[c], v.ctrl[c])
           /\ FreeSockets(w) = {} => /\ v.ctrl[c].socket_id = -1
                                     /\ v.socket = w.socket
           /\ FreeSockets(w) # {} => Fresh(v, c)
<1>1. w.ctrl[c] \in CtrlRec /\ w.socket_tag \in Nat
  BY CtrlShape, ShapeOf
<1>2. CASE FreeSockets(w) = {}
  <2> DEFINE r == [w.ctrl[c] EXCEPT !.socket_id = -1, !.tag = 0]
  <2>1. v = [w EXCEPT !.ctrl[c].socket_id = -1, !.ctrl[c].tag = 0]
    BY <1>2 DEF Create
  <2>2. v = Tuned(w, c, r)
    BY <2>1 DEF Worlds, Tuned
  <2>3. r \in CtrlRec /\ r.tag = 0 /\ r.socket_id = -1 /\ Same(w.ctrl[c], r)
    BY <1>1 DEF CtrlRec, Same
  <2> HIDE DEF r
  <2>4. /\ v \in Worlds /\ v.ctrl[c] = r /\ v.robbed = w.robbed /\ v.socket = w.socket
        /\ v.cmds = w.cmds /\ v.socket_tag = w.socket_tag /\ v.new = w.new
        /\ \A d \in Ctrl \ {c} : v.ctrl[d] = w.ctrl[d]
    BY <2>2, <2>3 DEF Worlds, Tuned
  <2>5. -1 \notin Sockets
    BY SockAssumption DEF Sockets
  <2>6. \A d \in Ctrl : Valid(v, d) <=> Valid(w, d)
    <3>1. ~ Valid(v, c)
      BY <2>3, <2>4, <2>5 DEF Valid
    <3>2. \A d \in Ctrl \ {c} : Valid(v, d) <=> Valid(w, d)
      BY <2>4 DEF Valid
    <3> QED BY <3>1, <3>2
  <2>7. Tagged(v)
    <3>1. v.ctrl[c].tag = 0 /\ v.ctrl[c].tag <= v.socket_tag
      BY <1>1, <2>3, <2>4
    <3> QED BY <2>4, <3>1 DEF Books, Tagged
  <2>8. Idle(v)
    BY <2>4 DEF Books, Idle
  <2>9. InTime(v)
    BY <2>4 DEF Books, InTime, ForSocket
  <2>10. Births(v)
    BY <2>4, SMTT(60) DEF Books, Births, ForSocket
  <2>11. Owned(v)
    <3> SUFFICES ASSUME NEW i \in Sockets, w.socket[i].in_use, ~ w.socket[i].closing
                 PROVE  \E d \in Ctrl : /\ w.socket[i].param = d /\ v.ctrl[d].socket_id = i
                                        /\ v.ctrl[d].tag = w.socket[i].tag
      BY <2>4 DEF Owned
    <3>1. PICK d \in Ctrl : /\ w.socket[i].param = d /\ w.ctrl[d].socket_id = i
                            /\ w.ctrl[d].tag = w.socket[i].tag
      BY DEF Books, Owned
    <3>2. d # c
      BY <3>1 DEF Valid
    <3> QED BY <2>4, <3>1, <3>2
  <2>12. Moves(w, v, c)
    <3>1. \A i \in Sockets : SocketMoves(w.socket[i], v.socket[i], w.socket_tag)
      BY <2>4 DEF SocketMoves
    <3>2. w.socket_tag <= v.socket_tag /\ v.ctrl[c].tag = 0
      BY <1>1, <2>3, <2>4
    <3> QED BY <2>4, <2>6, <3>1, <3>2 DEF Moves
  <2> QED BY <1>2, <2>3, <2>4, <2>7, <2>8, <2>9, <2>10, <2>11, <2>12 DEF Books
<1>3. CASE FreeSockets(w) # {}
  <2> DEFINE i == Picked(w)
             t == w.socket_tag + 1
             n == NextIndex(i)
             p == IF w.new = "later" THEN "none" ELSE "new"
             got == [w.socket[i] EXCEPT !.in_use = TRUE, !.tag = t, !.param = c,
                                        !.rx = FALSE, !.tx_head = 0, !.wait_ack = 0]
             s == [got EXCEPT !.pcb = p]
             tagged == [w.ctrl[c] EXCEPT !.tag = t]
             r == [tagged EXCEPT !.socket_id = i]
             taken == [w EXCEPT !.socket[i] = got, !.next = n, !.socket_tag = t,
                                !.ctrl[c] = tagged]
             u == [w EXCEPT !.socket[i] = s, !.next = n, !.socket_tag = t, !.ctrl[c] = r]
  <2>1. i \in FreeSockets(w) /\ i \in Sockets
    BY <1>3, PickedFree DEF FreeSockets
  <2>2. w.socket[i] \in SockRec /\ ~ w.socket[i].closing /\ ~ w.socket[i].remote_close
        /\ w.socket[i].pcb = "none"
    BY <2>1, SockShape DEF Books, Idle, FreeSockets
  <2>3. v = TakeSocket(w, c, i, t)
    BY <1>3 DEF Create
  <2>4. n \in Sockets
    BY <2>1, SockAssumption DEF NextIndex, Sockets
  <2>15. t \in Nat /\ p \in {"none", "new"}
    BY <1>1
  <2>17. /\ w.new = "later" => p = "none"
         /\ w.new = "made" => p = "new"
    OBVIOUS
  <2>16. v = CASE w.new = "later" -> Send([taken EXCEPT !.ctrl[c].socket_id = i], "create", i, t)
               [] w.new = "made"  -> [taken EXCEPT !.ctrl[c].socket_id = i,
                                                   !.socket[i].pcb = "new"]
               [] w.new = "full"  -> [taken EXCEPT !.socket[i].remote_close = TRUE,
                                                   !.stuck = c]
    <3>1. taken = [w EXCEPT !.socket[i] =
                             [@ EXCEPT !.in_use = TRUE, !.tag = t, !.param = c, !.rx = FALSE,
                                       !.tx_head = 0, !.wait_ack = 0],
                            !.next = n, !.socket_tag = t, !.ctrl[c].tag = t]
      OBVIOUS
    <3> HIDE DEF i, t, n, taken
    <3> QED BY <2>3, <3>1 DEF TakeSocket, n
  <2> HIDE DEF i, t, p, n
  <2>18. /\ got \in SockRec /\ got.in_use /\ got.tag = t /\ got.param = c
         /\ ~ got.closing /\ ~ got.remote_close /\ ~ got.rx /\ got.pcb = "none"
    BY <2>2, <2>15 DEF SockRec
  <2>19. tagged \in CtrlRec /\ Same(w.ctrl[c], tagged) /\ tagged.tag = t
    BY <1>1, <2>15 DEF CtrlRec, Same
  <2> HIDE DEF got, tagged
  <2>5. /\ s \in SockRec /\ s.in_use /\ s.tag = t /\ s.param = c /\ ~ s.closing
        /\ ~ s.remote_close /\ ~ s.rx /\ s.pcb = p /\ p \in {"none", "new"}
    BY <2>15, <2>18 DEF SockRec
  <2>6. /\ r \in CtrlRec /\ Same(w.ctrl[c], r)
    BY <2>1, <2>19 DEF CtrlRec, Same
  <2>20. p = "none" => s = got
    BY <2>18 DEF SockRec
  <2>7. w.new = "later" => v = Send(u, "create", i, t)
    <3>1. [taken EXCEPT !.ctrl[c].socket_id = i]
            = [w EXCEPT !.socket[i] = got, !.next = n, !.socket_tag = t, !.ctrl[c] = r]
      <4> HIDE DEF r
      <4> QED BY ZenonT(60) DEF Worlds, r
    <3> HIDE DEF taken, s, r
    <3> QED BY <2>16, <2>17, <2>20, <3>1
  <2>8. w.new = "made" => v = u
    <3> DEFINE held == [taken EXCEPT !.ctrl[c].socket_id = i]
    <3>1. held = [w EXCEPT !.socket[i] = got, !.next = n, !.socket_tag = t, !.ctrl[c] = r]
      <4> HIDE DEF r
      <4> QED BY ZenonT(60) DEF Worlds, r
    <3>2. [taken EXCEPT !.ctrl[c].socket_id = i, !.socket[i].pcb = "new"]
            = [held EXCEPT !.socket[i].pcb = "new"]
      <4> HIDE DEF taken
      <4> QED OBVIOUS
    <3> HIDE DEF held, r
    <3>3. [held EXCEPT !.socket[i].pcb = "new"]
            = [w EXCEPT !.socket[i] = [got EXCEPT !.pcb = "new"],
                        !.next = n, !.socket_tag = t, !.ctrl[c] = r]
      BY <2>1, <3>1, ZenonT(60) DEF Worlds
    <3> HIDE DEF taken
    <3> QED BY <2>16, <2>17, <3>2, <3>3
  <2> HIDE DEF s, r
  <2>9. /\ u \in Worlds /\ u.ctrl = [w.ctrl EXCEPT ![c] = r]
        /\ u.socket = [w.socket EXCEPT ![i] = s]
        /\ u.cmds = w.cmds /\ u.socket_tag = t /\ u.robbed = w.robbed
        /\ u.new = w.new
    BY <2>1, <2>4, <2>5, <2>6, <2>15 DEF Worlds
  <2> HIDE DEF u
  <2>10. /\ Books(u) /\ Moves(w, u, c) /\ Fresh(u, c) /\ Quiet(u, i, {})
         /\ u.ctrl[c].socket_id = i /\ u.ctrl[c].tag = t /\ u.socket[i] = s
    <3>1. r.socket_id = i /\ r.tag = t
      BY <2>1, <2>19 DEF r, CtrlRec
    <3>2. t = w.socket_tag + 1
      BY DEF t
    <3>3. /\ u.ctrl[c] = r /\ u.socket[i] = s
          /\ \A j \in Sockets \ {i} : u.socket[j] = w.socket[j]
          /\ \A d \in Ctrl \ {c} : u.ctrl[d] = w.ctrl[d]
      BY <2>1, <2>9, ShapeOf
    <3>4. Given(w, u, c, i)
      BY <2>5, <2>9, <3>1, <3>2, <3>3 DEF Given
    <3>5. Books(u) /\ Moves(w, u, c) /\ Fresh(u, c) /\ Quiet(u, i, {})
      BY <2>1, <2>9, <3>4, Gives
    <3> QED BY <3>1, <3>3, <3>5
  <2>11. u.ctrl[c] = r
    BY <2>9, ShapeOf
  <2>12. CASE w.new = "made"
    BY <1>3, <2>6, <2>8, <2>9, <2>10, <2>11, <2>12
  <2>13. CASE w.new = "later"
    <3> DEFINE m == [kind |-> "create", id |-> i, of |-> t]
    <3>1. m \in Commands
      BY <2>1, <2>15 DEF Commands
    <3>2. Fits(u, m)
      <4>1. s.pcb = "none"
        BY <2>5, <2>13 DEF p
      <4>2. Quiet(u, i, {"create", "connect", "tx"})
        BY <2>10 DEF Quiet
      <4> QED BY <2>5, <2>10, <4>1, <4>2 DEF Fits, Closes
    <3>3. /\ v \in Worlds /\ Books(v) /\ Moves(u, v, c) /\ v.ctrl = u.ctrl
          /\ v.socket = u.socket /\ \A d \in Ctrl : Valid(v, d) <=> Valid(u, d)
      BY <2>7, <2>9, <2>10, <2>13, <3>1, <3>2, Sends
    <3>4. v.cmds = Append(u.cmds, m)
      BY <2>7, <2>9, <2>13 DEF Send, Worlds
    <3>5. Quiet(v, i, {"create"})
      <4>1. u.cmds \in Seq(Commands)
        BY <2>9, ShapeOf
      <4>2. /\ Len(u.cmds) \in Nat /\ DOMAIN u.cmds = 1 .. Len(u.cmds)
            /\ DOMAIN v.cmds = 1 .. Len(u.cmds) + 1
            /\ \A k \in 1 .. Len(u.cmds) : v.cmds[k] = u.cmds[k]
            /\ v.cmds[Len(u.cmds) + 1] = m
        BY <3>1, <3>4, <4>1, AppendOf
      <4>3. \A k \in 1 .. Len(u.cmds) + 1 : k \in 1 .. Len(u.cmds) \/ k = Len(u.cmds) + 1
        BY <4>2
      <4>4. \A k \in ForSocket(v) : \/ k \in ForSocket(u) /\ v.cmds[k] = u.cmds[k]
                                    \/ v.cmds[k] = m
        BY <4>2, <4>3 DEF ForSocket
      <4> QED BY <2>10, <4>4 DEF Quiet
    <3>6. Fresh(v, c)
      BY <2>10, <3>3, <3>5 DEF Fresh
    <3>7. Moves(w, v, c)
      BY <2>9, <2>10, <3>3, MovesOn DEF Books
    <3> QED BY <1>3, <2>6, <2>11, <3>3, <3>6, <3>7
  <2>14. w.new \in {"later", "made"}
    BY ShapeOf
  <2> QED BY <2>12, <2>13, <2>14
<1> QED BY <1>2, <1>3

Step(w, v, c) == v \in Worlds /\ Books(v) /\ Moves(w, v, c)

\* Steps for the same ctrl follow one another.
LEMMA StepOn ==
    ASSUME NEW w \in Worlds, Books(w), NEW c \in Ctrl, NEW v, NEW u,
           Step(w, v, c), Step(v, u, c)
    PROVE  Step(w, u, c)
  BY MovesOn DEF Step, Books

\* No socket is not a valid one.
LEMMA NotValid ==
    ASSUME NEW w \in Worlds, NEW c \in Ctrl, w.ctrl[c].socket_id < 0
    PROVE  ~ Valid(w, c)
<1>1. -1 \notin Sockets
  BY SockAssumption DEF Sockets
<1> QED BY <1>1, CtrlShape DEF Valid

\* What a ctrl has after an attempt to get a socket.
Tried(w, v, c) == /\ Step(w, v, c) /\ Same(w.ctrl[c], v.ctrl[c])
                  /\ v.ctrl[c].socket_id = -1 \/ Fresh(v, c)

\* A creation that is tried again after a clean.
LEMMA CreatesOrCleans ==
    ASSUME NEW w \in Worlds, Books(w), NEW c \in Ctrl, ~ Valid(w, c),
           NEW v, v = CreateOrClean(w, c)
    PROVE  Tried(w, v, c)
<1>1. CASE FreeSockets(w) # {}
  <2>1. v = Create(w, c)
    BY <1>1 DEF CreateOrClean
  <2> QED BY <1>1, <2>1, Creates DEF Tried, Step
<1>2. CASE FreeSockets(w) = {}
  <2> DEFINE x == Create(w, c)
             y == Clean(x)
  <2>1. /\ x \in Worlds /\ Books(x) /\ Moves(w, x, c)
        /\ Same(w.ctrl[c], x.ctrl[c]) /\ x.ctrl[c].socket_id = -1
        /\ x.socket = w.socket
    BY <1>2, Creates
  <2> HIDE DEF x
  <2>2. ~ Valid(x, c)
    BY <2>1, NotValid
  <2>3. /\ y \in Worlds /\ Books(y) /\ Moves(x, y, c) /\ ~ Valid(y, c)
        /\ y.ctrl[c] = [x.ctrl[c] EXCEPT !.socket_id = -1]
        /\ \A i \in Sockets : y.socket[i].in_use = x.socket[i].in_use
    BY <2>1, <2>2, Cleans
  <2>4. Same(x.ctrl[c], y.ctrl[c])
    <3>1. x.ctrl[c] \in CtrlRec
      BY <2>1, CtrlShape
    <3> QED BY <2>3, <3>1 DEF Same, CtrlRec
  <2>5. FreeSockets(y) = {}
    BY <1>2, <2>1, <2>3 DEF FreeSockets
  <2>6. v = Create(y, c)
    BY <1>2 DEF CreateOrClean, x
  <2> HIDE DEF y
  <2>7. /\ v \in Worlds /\ Books(v) /\ Moves(y, v, c)
        /\ Same(y.ctrl[c], v.ctrl[c]) /\ v.ctrl[c].socket_id = -1
    BY <2>3, <2>5, <2>6, Creates
  <2>8. Step(w, v, c)
    <3>1. Step(w, x, c) /\ Step(x, y, c) /\ Step(y, v, c)
      BY <2>1, <2>3, <2>7 DEF Step
    <3>2. Step(w, y, c)
      BY <3>1, StepOn
    <3> QED BY <3>1, <3>2, StepOn
  <2>9. Same(w.ctrl[c], v.ctrl[c])
    BY <2>1, <2>4, <2>7 DEF Same
  <2> QED BY <2>7, <2>8, <2>9 DEF Tried
<1> QED BY <1>1, <1>2

\* network_base_connect up to the socket, with the earlier one given up.
LEMMA NewSockets ==
    ASSUME NEW w \in Worlds, Books(w), NEW c \in Ctrl,
           NEW v, v = NewSocket(w, c)
    PROVE  Tried(w, v, c)
<1>1. CASE w.ctrl[c].socket_id < 0
  <2>1. v = CreateOrClean(w, c)
    BY <1>1 DEF NewSocket
  <2> QED BY <1>1, <2>1, NotValid, CreatesOrCleans
<1>2. CASE ~ (w.ctrl[c].socket_id < 0)
  <2> DEFINE u == CloseSocket(w, c)
             r == [w.ctrl[c] EXCEPT !.need_close = FALSE, !.socket_id = -1]
             x == Tuned(u, c, r)
  <2>1. w.ctrl[c] \in CtrlRec
    BY CtrlShape
  <2>2. r \in CtrlRec /\ r.tag = w.ctrl[c].tag /\ r.socket_id = -1 /\ Same(w.ctrl[c], r)
    BY <2>1 DEF CtrlRec, Same
  <2>3. /\ u \in Worlds
        /\ u.ctrl[c] \in {w.ctrl[c], [w.ctrl[c] EXCEPT !.socket_id = -1]}
    BY ClosesSocket
  <2> HIDE DEF u
  <2>4. [u EXCEPT !.ctrl[c].need_close = FALSE, !.ctrl[c].socket_id = -1] = x
    <3>1. [u.ctrl[c] EXCEPT !.need_close = FALSE, !.socket_id = -1] = r
      BY <2>1, <2>3 DEF CtrlRec
    <3> QED BY <2>3, <3>1 DEF Worlds, Tuned
  <2>5. v = CreateOrClean(x, c)
    BY <1>2, <2>4 DEF NewSocket, u
  <2> HIDE DEF r
  <2>6. /\ x \in Worlds /\ Books(x) /\ Moves(w, x, c) /\ ~ Valid(x, c) /\ x.ctrl[c] = r
    BY <2>2, Drops DEF u
  <2> HIDE DEF x
  <2>7. Tried(x, v, c)
    BY <2>5, <2>6, CreatesOrCleans
  <2>8. Step(w, v, c)
    BY <2>6, <2>7, StepOn DEF Step, Tried
  <2>9. Same(w.ctrl[c], v.ctrl[c])
    BY <2>2, <2>6, <2>7 DEF Same, Tried
  <2> QED BY <2>7, <2>8, <2>9 DEF Tried
<1> QED BY <1>1, <1>2
----------------------------------------------------------------------------
\* Functions of the state machine

\* What a function that returned r leaves of its ctrl, whose state was s.
Results(w, ret, c) ==
    /\ Step(w, ret.w, c) /\ ret.r \in {-1, 0, 1}
    /\ ret.w.ctrl[c].wait = w.ctrl[c].wait
    /\ ret.w.ctrl[c].auto_mode = w.ctrl[c].auto_mode

\* The connection has begun, or there is no socket for it.
Begun(w, ret, c) ==
    /\ Results(w, ret, c)
    /\ ret.r \in {-1, 1}
    /\ ret.r = 1 => ret.w.ctrl[c].state = "CONNECTING" /\ Valid(ret.w, c)
    /\ ret.r = -1 => ret.w.ctrl[c].state = w.ctrl[c].state

\* An attempt to connect leaves c CONNECTING with a valid socket, or without one.
LEMMA Connects ==
    ASSUME NEW w \in Worlds, Books(w), NEW c \in Ctrl,
           NEW ret, ret = Connecting(w, c)
    PROVE  Begun(w, ret, c)
<1> DEFINE u == NewSocket(w, c)
<1>1. Tried(w, u, c)
  BY NewSockets
<1>2. ret = GoOn(u, c)
  BY DEF Connecting
<1> HIDE DEF u
<1>3. /\ u \in Worlds /\ Books(u) /\ Step(w, u, c) /\ Same(w.ctrl[c], u.ctrl[c])
      /\ u.ctrl[c].socket_id = -1 \/ Fresh(u, c)
  BY <1>1 DEF Tried, Step
<1>4. CASE u.ctrl[c].socket_id < 0
  <2>1. ret.w = u /\ ret.r = -1
    BY <1>2, <1>4 DEF GoOn, Returns
  <2> QED BY <1>3, <2>1 DEF Begun, Results, Same
<1>5. CASE ~ (u.ctrl[c].socket_id < 0)
  <2> DEFINE r == [u.ctrl[c] EXCEPT !.state = "CONNECTING"]
             x == Tuned(u, c, r)
             i == u.ctrl[c].socket_id
             t == u.ctrl[c].tag
             m == [kind |-> "connect", id |-> i, of |-> t]
  <2>1. u.ctrl[c] \in CtrlRec /\ Fresh(u, c) /\ i \in Sockets /\ t \in Nat
    BY <1>3, <1>5, CtrlShape DEF Fresh, Valid
  <2>2. /\ r \in CtrlRec /\ r.tag = t /\ r.socket_id = i /\ r.wait = u.ctrl[c].wait
        /\ r.auto_mode = u.ctrl[c].auto_mode /\ r.state = "CONNECTING"
    BY <2>1 DEF CtrlRec, States
  <2>3. ret.w = Send(x, "connect", i, t) /\ ret.r = 1
    <3>1. [u EXCEPT !.ctrl[c].state = "CONNECTING"] = x
      BY DEF Tuned
    <3>2. x.ctrl[c] = r
      BY <1>3 DEF Tuned, Worlds
    <3> HIDE DEF x, r
    <3> QED BY <1>2, <1>5, <2>2, <3>1, <3>2 DEF GoOn, Returns
  <2> HIDE DEF r
  <2>4. /\ x \in Worlds /\ Books(x) /\ Moves(u, x, c) /\ x.ctrl[c] = r
        /\ x.socket = u.socket /\ x.cmds = u.cmds
        /\ \A d \in Ctrl : Valid(x, d) <=> Valid(u, d)
    BY <1>3, <2>2, Tunes
  <2> HIDE DEF x
  <2>5. m \in Commands
    BY <2>1 DEF Commands
  <2>6. Fits(x, m)
    <3>1. /\ u.socket[i].in_use /\ u.socket[i].tag = t /\ u.socket[i].pcb \in {"none", "new"}
          /\ ~ u.socket[i].rx /\ ~ u.socket[i].remote_close
      BY <2>1 DEF Fresh, Valid
    <3>2. Quiet(x, i, {"create"}) /\ Quiet(x, i, {"create", "connect", "tx"})
      BY <2>1, <2>4 DEF Fresh, Quiet, ForSocket
    <3> QED BY <2>4, <3>1, <3>2 DEF Fits, Closes
  <2>7. /\ ret.w \in Worlds /\ Books(ret.w) /\ Moves(x, ret.w, c) /\ ret.w.ctrl = x.ctrl
        /\ Valid(ret.w, c) <=> Valid(x, c)
    BY <2>3, <2>4, <2>5, <2>6, Sends
  <2>8. Step(w, ret.w, c)
    <3>1. Step(u, x, c) /\ Step(x, ret.w, c)
      BY <2>4, <2>7 DEF Step
    <3>2. Step(u, ret.w, c)
      BY <1>3, <3>1, StepOn
    <3> QED BY <1>3, <3>2, StepOn
  <2>9. Valid(ret.w, c)
    BY <2>1, <2>4, <2>7 DEF Fresh
  <2> QED BY <1>3, <2>2, <2>3, <2>4, <2>7, <2>8, <2>9, SMTT(30) DEF Begun, Results, Same
<1> QED BY <1>4, <1>5

\* What a ctrl that waits has, and that one that was never used has nothing.
Unused(w, c) == ~ w.ctrl[c].auto_mode =>
    /\ w.ctrl[c].state \in {"LINK_OFF", "OFF_LINE"} /\ w.ctrl[c].wait = "NONE"
    /\ ~ w.ctrl[c].new_rx_flag /\ w.ctrl[c].socket_id = -1

Awaits(w, c) ==
    /\ c \notin w.robbed /\ w.ctrl[c].state = "CONNECTING" /\ w.ctrl[c].wait = "ON_LINE"
       => Valid(w, c)
    /\ w.ctrl[c].wait = "OFF_LINE" => w.ctrl[c].state = "DISCONNECTING"

\* How event e leaves a ctrl that is on line after it.
OnLineAfter(w, v, c, e) == v.ctrl[c].state = "ONLINE" =>
    /\ v.socket = w.socket /\ v.ctrl[c].socket_id = w.ctrl[c].socket_id
    /\ v.ctrl[c].tag = w.ctrl[c].tag
    /\ \/ /\ w.ctrl[c].state = "CONNECTING" /\ w.ctrl[c].wait = "ON_LINE"
          /\ e.id = "CONNECT_OK"
       \/ /\ w.ctrl[c].state = "ONLINE"
          /\ w.ctrl[c].need_close \/ e.id \in Gone => v.ctrl[c].need_close
          /\ w.ctrl[c].new_rx_flag => v.ctrl[c].new_rx_flag
          /\ e.id = "RX_NEW" => v.ctrl[c].new_rx_flag \/ v.ctrl[c].need_close

Outcome(w, ret, c, e) ==
    /\ Step(w, ret.w, c) /\ ret.r \in {-1, 0, 1}
    /\ Unused(ret.w, c)
    /\ ret.r = 1 => Awaits(ret.w, c)
    /\ OnLineAfter(w, ret.w, c, e)

\* A ctrl may change what is not its socket or its tag.
LEMMA Sets ==
    ASSUME NEW w \in Worlds, Books(w), NEW c \in Ctrl, NEW r \in CtrlRec,
           r.tag = w.ctrl[c].tag, r.socket_id = w.ctrl[c].socket_id,
           NEW v, v = Tuned(w, c, r)
    PROVE  /\ v \in Worlds /\ Books(v) /\ Step(w, v, c)
           /\ v.ctrl[c] = r /\ v.socket = w.socket /\ v.robbed = w.robbed
           /\ \A d \in Ctrl : Valid(v, d) <=> Valid(w, d)
<1>1. /\ v \in Worlds /\ Books(v) /\ Moves(w, v, c)
      /\ v.ctrl[c] = r /\ v.socket = w.socket /\ v.robbed = w.robbed
      /\ \A d \in Ctrl : Valid(v, d) <=> Valid(w, d)
  BY Tunes
<1> QED BY <1>1 DEF Step

\* A ctrl may be left as it is.
LEMMA Stays ==
    ASSUME NEW w \in Worlds, Books(w), NEW c \in Ctrl
    PROVE  Step(w, w, c)
  BY StandsStill DEF Step

\* network_prepare_connect: asks the DNS client, connects or gives up.
LEMMA Prepares ==
    ASSUME NEW w \in Worlds, Books(w), NEW c \in Ctrl,
           NEW ret, ret = PrepareConnect(w, c)
    PROVE  /\ Results(w, ret, c) /\ ret.r \in {-1, 1}
           /\ ret.r = 1 => \/ ret.w.ctrl[c].state = "WAIT_DNS"
                           \/ ret.w.ctrl[c].state = "CONNECTING" /\ Valid(ret.w, c)
           /\ ret.r = -1 => ret.w.ctrl[c].state = w.ctrl[c].state
<1>1. CASE w.ctrl[c].name = Literal
  <2>1. ret = Connecting(w, c)
    BY <1>1 DEF PrepareConnect
  <2> QED BY <2>1, Connects DEF Begun
<1>2. CASE w.ctrl[c].name # Literal /\ w.ctrl[c].name \in Names
  <2> DEFINE x == Send(w, "dns", c, w.ctrl[c].name)
             r == [x.ctrl[c] EXCEPT !.state = "WAIT_DNS"]
  <2>1. ret.w = [x EXCEPT !.ctrl[c].state = "WAIT_DNS"] /\ ret.r = 1
    BY <1>2 DEF PrepareConnect, Returns
  <2>2. /\ x \in Worlds /\ Books(x) /\ Moves(w, x, c) /\ x.ctrl = w.ctrl
    <3>1. [kind |-> "dns", id |-> c, of |-> w.ctrl[c].name] \in Commands
      BY <1>2 DEF Commands
    <3> QED BY <3>1, Sends
  <2> HIDE DEF x
  <2>3. ret.w = Tuned(x, c, r)
    BY <2>1 DEF Tuned
  <2>4. /\ r \in CtrlRec /\ r.tag = x.ctrl[c].tag /\ r.socket_id = x.ctrl[c].socket_id
        /\ r.state = "WAIT_DNS" /\ r.wait = w.ctrl[c].wait
        /\ r.auto_mode = w.ctrl[c].auto_mode
    <3>1. x.ctrl[c] \in CtrlRec
      BY <2>2, CtrlShape
    <3> QED BY <2>2, <3>1 DEF CtrlRec, States
  <2> HIDE DEF r
  <2>5. Step(x, ret.w, c) /\ ret.w.ctrl[c] = r
    BY <2>2, <2>3, <2>4, Sets
  <2>6. Step(w, ret.w, c)
    BY <2>2, <2>5, StepOn DEF Step
  <2>7. /\ ret.w.ctrl[c].wait = w.ctrl[c].wait /\ ret.w.ctrl[c].state = "WAIT_DNS"
        /\ ret.w.ctrl[c].auto_mode = w.ctrl[c].auto_mode
    BY <2>4, <2>5
  <2>8. Results(w, ret, c)
    BY <2>1, <2>6, <2>7 DEF Results
  <2> QED BY <2>1, <2>7, <2>8
<1>3. CASE w.ctrl[c].name # Literal /\ w.ctrl[c].name \notin Names
  <2>1. ret.w = w /\ ret.r = -1
    BY <1>3 DEF PrepareConnect, Returns
  <2> QED BY <2>1, Stays DEF Results
<1> QED BY <1>1, <1>2, <1>3

\* network_state_link_off.
LEMMA LinkOffs ==
    ASSUME NEW w \in Worlds, Books(w), NEW c \in Ctrl, NEW e \in Events,
           w.ctrl[c].state = "LINK_OFF", Unused(w, c), Awaits(w, c),
           NEW ret, ret = LinkOff(w, c, e)
    PROVE  Outcome(w, ret, c, e)
<1> DEFINE r == [w.ctrl[c] EXCEPT !.state = "OFF_LINE"]
           up == Tuned(w, c, r)
<1>1. [w EXCEPT !.ctrl[c].state = "OFF_LINE"] = up
  BY DEF Tuned
<1>2. /\ r \in CtrlRec /\ r.tag = w.ctrl[c].tag /\ r.socket_id = w.ctrl[c].socket_id
      /\ r.state = "OFF_LINE" /\ r.wait = w.ctrl[c].wait /\ r.auto_mode = w.ctrl[c].auto_mode
      /\ r.new_rx_flag = w.ctrl[c].new_rx_flag
  <2>1. w.ctrl[c] \in CtrlRec
    BY CtrlShape
  <2> QED BY <2>1 DEF CtrlRec, States
<1> HIDE DEF r
<1>3. up \in Worlds /\ Books(up) /\ Step(w, up, c) /\ up.ctrl[c] = r
  BY <1>2, Sets
<1>4. \/ ret = Returns(w, 1)
      \/ ret = Returns(up, 0)
      \/ ret = Returns(up, 1)
      \/ ret = PrepareConnect(up, c) /\ w.ctrl[c].wait = "ON_LINE"
  <2>1. ret = IF e.id # "STATE" \/ ~e.up THEN Returns(w, 1)
              ELSE CASE w.ctrl[c].wait = "LINK_UP" -> Returns(up, 0)
                     [] w.ctrl[c].wait = "ON_LINE" -> PrepareConnect(up, c)
                     [] OTHER -> Returns(up, 1)
    <3> HIDE DEF up
    <3> QED BY <1>1 DEF LinkOff
  <2> HIDE DEF up
  <2> QED BY <2>1, e \in Events DEF Events
<1> HIDE DEF up
<1>5. CASE ret = Returns(w, 1)
  <2>1. ret.w = w /\ ret.r = 1
    BY <1>5 DEF Returns
  <2> QED BY <2>1, Stays DEF Outcome, OnLineAfter
<1>6. CASE ret = Returns(up, 0) \/ ret = Returns(up, 1)
  <2>1. ret.w = up /\ ret.r \in {0, 1}
    BY <1>6 DEF Returns
  <2>2. Unused(up, c) /\ Awaits(up, c) /\ up.ctrl[c].state # "ONLINE"
    BY <1>2, <1>3 DEF Unused, Awaits
  <2> QED BY <1>3, <2>1, <2>2 DEF Outcome, OnLineAfter
<1>7. CASE ret = PrepareConnect(up, c) /\ w.ctrl[c].wait = "ON_LINE"
  <2>1. /\ Results(up, ret, c) /\ ret.r \in {-1, 1}
        /\ ret.r = 1 => \/ ret.w.ctrl[c].state = "WAIT_DNS"
                        \/ ret.w.ctrl[c].state = "CONNECTING" /\ Valid(ret.w, c)
        /\ ret.r = -1 => ret.w.ctrl[c].state = up.ctrl[c].state
    BY <1>3, <1>7, Prepares
  <2>2. Step(w, ret.w, c)
    BY <1>3, <2>1, StepOn DEF Results
  <2>3. ret.w.ctrl[c].auto_mode /\ ret.w.ctrl[c].wait = "ON_LINE"
    BY <1>2, <1>3, <1>7, <2>1 DEF Results, Unused
  <2>4. Unused(ret.w, c) /\ (ret.r = 1 => Awaits(ret.w, c))
    BY <2>1, <2>3 DEF Unused, Awaits
  <2>5. ret.w.ctrl[c].state # "ONLINE"
    BY <1>2, <1>3, <2>1
  <2> QED BY <2>1, <2>2, <2>4, <2>5 DEF Outcome, OnLineAfter
<1> QED BY <1>4, <1>5, <1>6, <1>7

\* Nothing has changed.
LEMMA Ignores ==
    ASSUME NEW w \in Worlds, Books(w), NEW c \in Ctrl, NEW e,
           Unused(w, c), Awaits(w, c), w.ctrl[c].state # "ONLINE",
           NEW ret, ret.w = w, ret.r \in {-1, 0, 1}
    PROVE  Outcome(w, ret, c, e)
  BY Stays DEF Outcome, OnLineAfter

\* A field has changed, and the ctrl gives up.
LEMMA GivesUp ==
    ASSUME NEW w \in Worlds, Books(w), NEW c \in Ctrl, NEW e,
           NEW r \in CtrlRec, r.tag = w.ctrl[c].tag, r.socket_id = w.ctrl[c].socket_id,
           r.auto_mode, r.state # "ONLINE",
           NEW ret, ret.w = Tuned(w, c, r), ret.r \in {-1, 0}
    PROVE  Outcome(w, ret, c, e)
<1>1. Step(w, ret.w, c) /\ ret.w.ctrl[c] = r
  BY Sets
<1>2. Unused(ret.w, c) /\ OnLineAfter(w, ret.w, c, e)
  BY <1>1 DEF Unused, OnLineAfter
<1>3. ret.r # 1
  OBVIOUS
<1> QED BY <1>1, <1>2, <1>3 DEF Outcome

\* A field has changed, and a connection begins.
LEMMA BeginsAnew ==
    ASSUME NEW w \in Worlds, Books(w), NEW c \in Ctrl, NEW e,
           NEW r \in CtrlRec, r.tag = w.ctrl[c].tag, r.socket_id = w.ctrl[c].socket_id,
           r.auto_mode, r.state # "ONLINE", r.wait # "OFF_LINE",
           NEW ret, ret = Connecting(Tuned(w, c, r), c)
    PROVE  Outcome(w, ret, c, e)
<1> DEFINE x == Tuned(w, c, r)
<1>1. x \in Worlds /\ Books(x) /\ Step(w, x, c) /\ x.ctrl[c] = r
  BY Sets
<1> HIDE DEF x
<1>2. Begun(x, ret, c)
  BY <1>1, Connects DEF x
<1>3. Step(w, ret.w, c)
  BY <1>1, <1>2, StepOn DEF Begun, Results
<1>4. ret.w.ctrl[c].auto_mode /\ ret.w.ctrl[c].wait # "OFF_LINE"
      /\ ret.w.ctrl[c].state # "ONLINE"
  BY <1>1, <1>2 DEF Begun, Results
<1>5. Unused(ret.w, c) /\ OnLineAfter(w, ret.w, c, e)
  BY <1>4 DEF Unused, OnLineAfter
<1>6. ret.r = 1 => Awaits(ret.w, c)
  BY <1>2, <1>4 DEF Awaits, Begun
<1> QED BY <1>2, <1>3, <1>5, <1>6 DEF Outcome, Begun

\* network_state_wait_dns.
LEMMA WaitDnss ==
    ASSUME NEW w \in Worlds, Books(w), NEW c \in Ctrl, NEW e \in Events,
           w.ctrl[c].state = "WAIT_DNS", Unused(w, c), Awaits(w, c),
           NEW ret, ret = WaitDns(w, c, e)
    PROVE  Outcome(w, ret, c, e)
<1> DEFINE r == [w.ctrl[c] EXCEPT !.ips = 0]
           s == [w.ctrl[c] EXCEPT !.ips = e.ips, !.cnt = 0, !.ipsOf = e.name]
<1>1. w.ctrl[c] \in CtrlRec /\ w.ctrl[c].auto_mode
  BY CtrlShape DEF Unused
<1>2. e.ips \in 0 .. MaxIp /\ e.name \in Names \cup {None} /\ 0 \in 0 .. MaxIp
  BY SockAssumption DEF Events
<1>3. /\ r \in CtrlRec /\ r.tag = w.ctrl[c].tag /\ r.socket_id = w.ctrl[c].socket_id
      /\ r.auto_mode /\ r.state = "WAIT_DNS"
  BY <1>1, <1>2 DEF CtrlRec
<1>4. /\ s \in CtrlRec /\ s.tag = w.ctrl[c].tag /\ s.socket_id = w.ctrl[c].socket_id
      /\ s.auto_mode /\ s.state = "WAIT_DNS" /\ s.wait = w.ctrl[c].wait
  BY <1>1, <1>2 DEF CtrlRec
<1>5. \/ ret = Returns(w, -1)
      \/ ret = Returns(Tuned(w, c, r), -1)
      \/ ret = Connecting(Tuned(w, c, s), c) /\ w.ctrl[c].wait = "ON_LINE"
      \/ ret = Returns(w, 1)
  <2>1. [w EXCEPT !.ctrl[c].ips = 0] = Tuned(w, c, r)
    BY DEF Tuned
  <2>2. [w EXCEPT !.ctrl[c] = [@ EXCEPT !.ips = e.ips, !.cnt = 0, !.ipsOf = e.name]]
          = Tuned(w, c, s)
    BY DEF Tuned
  <2> HIDE DEF r, s
  <2>3. ret = IF w.ctrl[c].need_close \/ w.ctrl[c].wait # "ON_LINE" THEN Returns(w, -1)
              ELSE CASE e.id \in {"ERROR", "STATE"} -> Returns(w, -1)
                     [] e.id = "DNS_RESULT" ->
                          IF e.ips = 0 THEN Returns(Tuned(w, c, r), -1)
                          ELSE Connecting(Tuned(w, c, s), c)
                     [] OTHER -> Returns(w, 1)
    BY <2>1, <2>2 DEF WaitDns
  <2> QED BY <2>3
<1> HIDE DEF r, s
<1>6. CASE ret = Returns(w, -1) \/ ret = Returns(w, 1)
  <2>1. ret.w = w /\ ret.r \in {-1, 0, 1}
    BY <1>6 DEF Returns
  <2> QED BY <2>1, Ignores
<1>7. CASE ret = Returns(Tuned(w, c, r), -1)
  <2>1. ret.w = Tuned(w, c, r) /\ ret.r \in {-1, 0}
    BY <1>7 DEF Returns
  <2> QED BY <1>3, <2>1, GivesUp
<1>8. CASE ret = Connecting(Tuned(w, c, s), c) /\ w.ctrl[c].wait = "ON_LINE"
  BY <1>4, <1>8, BeginsAnew
<1> QED BY <1>5, <1>6, <1>7, <1>8

\* network_state_connecting: ON_LINE is reached only by CONNECT_OK.
LEMMA OnConnectings ==
    ASSUME NEW w \in Worlds, Books(w), NEW c \in Ctrl, NEW e \in Events,
           w.ctrl[c].state = "CONNECTING", Unused(w, c), Awaits(w, c),
           NEW ret, ret = OnConnecting(w, c, e)
    PROVE  Outcome(w, ret, c, e)
<1> DEFINE r == [w.ctrl[c] EXCEPT !.cnt = @ + 1]
           s == [w.ctrl[c] EXCEPT !.state = "ONLINE"]
           on == Tuned(w, c, s)
<1>1. w.ctrl[c] \in CtrlRec /\ w.ctrl[c].auto_mode
  BY CtrlShape DEF Unused
<1>2. /\ r \in CtrlRec /\ r.tag = w.ctrl[c].tag /\ r.socket_id = w.ctrl[c].socket_id
      /\ r.auto_mode /\ r.state = "CONNECTING" /\ r.wait = w.ctrl[c].wait
  BY <1>1 DEF CtrlRec
<1>3. /\ s \in CtrlRec /\ s.tag = w.ctrl[c].tag /\ s.socket_id = w.ctrl[c].socket_id
      /\ s.auto_mode /\ s.state = "ONLINE"
  BY <1>1 DEF CtrlRec, States
<1>4. \/ ret = Returns(w, -1)
      \/ ret = Returns(w, 1)
      \/ ret = Returns(Tuned(w, c, r), -1)
      \/ ret = Connecting(Tuned(w, c, r), c) /\ w.ctrl[c].wait = "ON_LINE"
      \/ /\ ret = Returns(on, 0) /\ e.id = "CONNECT_OK"
         /\ w.ctrl[c].wait = "ON_LINE"
  <2>1. [w EXCEPT !.ctrl[c].cnt = @ + 1] = Tuned(w, c, r)
    BY DEF Tuned
  <2>2. [w EXCEPT !.ctrl[c].state = "ONLINE"] = on
    BY DEF Tuned
  <2> HIDE DEF r, on
  <2>3. NextIp(w, c) \in {Returns(w, -1), Returns(Tuned(w, c, r), -1),
                          Connecting(Tuned(w, c, r), c)}
    BY <2>1 DEF NextIp
  <2>4. ret = IF w.ctrl[c].need_close \/ w.ctrl[c].wait # "ON_LINE" THEN Returns(w, -1)
              ELSE CASE e.id \in Gone -> NextIp(w, c)
                     [] e.id = "STATE" -> Returns(w, -1)
                     [] e.id = "CONNECT_OK" -> Returns(on, 0)
                     [] OTHER -> Returns(w, 1)
    BY <2>2 DEF OnConnecting
  <2> QED BY <2>3, <2>4
<1> HIDE DEF r, s
<1>5. CASE ret = Returns(w, -1) \/ ret = Returns(w, 1)
  <2>1. ret.w = w /\ ret.r \in {-1, 0, 1}
    BY <1>5 DEF Returns
  <2> QED BY <2>1, Ignores
<1>6. CASE ret = Returns(Tuned(w, c, r), -1)
  <2>1. ret.w = Tuned(w, c, r) /\ ret.r \in {-1, 0}
    BY <1>6 DEF Returns
  <2> QED BY <1>2, <2>1, GivesUp
<1>7. CASE ret = Connecting(Tuned(w, c, r), c) /\ w.ctrl[c].wait = "ON_LINE"
  BY <1>2, <1>7, BeginsAnew
<1>8. CASE /\ ret = Returns(on, 0) /\ e.id = "CONNECT_OK"
           /\ w.ctrl[c].wait = "ON_LINE"
  <2>1. ret.w = on /\ ret.r = 0
    BY <1>8 DEF Returns
  <2>2. Step(w, on, c) /\ on.ctrl[c] = s /\ on.socket = w.socket
    BY <1>3, Sets
  <2> HIDE DEF on
  <2>3. Unused(on, c) /\ OnLineAfter(w, on, c, e)
    BY <1>3, <1>8, <2>2 DEF Unused, OnLineAfter
  <2> QED BY <2>1, <2>2, <2>3 DEF Outcome
<1> QED BY <1>4, <1>5, <1>6, <1>7, <1>8

\* network_state_on_line remembers the end of the connection and new data.
LEMMA OnLines ==
    ASSUME NEW w \in Worlds, Books(w), NEW c \in Ctrl, NEW e \in Events,
           w.ctrl[c].state = "ONLINE", Unused(w, c), Awaits(w, c),
           NEW ret, ret = OnLine(w, c, e)
    PROVE  Outcome(w, ret, c, e)
<1> DEFINE lost  == [w.ctrl[c] EXCEPT !.need_close = TRUE]
           acked == [w.ctrl[c] EXCEPT !.ack_size = @ + 1]
           news  == [w.ctrl[c] EXCEPT !.new_rx_flag = TRUE]
           now   == ret.w.ctrl[c]
<1>1. w.ctrl[c] \in CtrlRec /\ w.ctrl[c].auto_mode /\ w.ctrl[c].wait # "OFF_LINE"
  BY CtrlShape DEF Unused, Awaits
<1>2. \A r \in {w.ctrl[c], lost, acked, news} :
         /\ r \in CtrlRec /\ r.tag = w.ctrl[c].tag /\ r.socket_id = w.ctrl[c].socket_id
         /\ r.auto_mode /\ r.state = "ONLINE" /\ r.wait = w.ctrl[c].wait
         /\ w.ctrl[c].need_close => r.need_close
         /\ w.ctrl[c].new_rx_flag => r.new_rx_flag
  <2>1. /\ w.ctrl[c].need_close \in BOOLEAN /\ w.ctrl[c].new_rx_flag \in BOOLEAN
        /\ w.ctrl[c].ack_size \in Nat
    BY <1>1 DEF CtrlRec
  <2>2. /\ lost \in CtrlRec /\ lost.tag = w.ctrl[c].tag
        /\ lost.socket_id = w.ctrl[c].socket_id /\ lost.auto_mode
        /\ lost.state = "ONLINE" /\ lost.wait = w.ctrl[c].wait /\ lost.need_close
        /\ lost.new_rx_flag = w.ctrl[c].new_rx_flag
    BY <1>1 DEF CtrlRec
  <2>3. /\ acked \in CtrlRec /\ acked.tag = w.ctrl[c].tag
        /\ acked.socket_id = w.ctrl[c].socket_id /\ acked.auto_mode
        /\ acked.state = "ONLINE" /\ acked.wait = w.ctrl[c].wait
        /\ acked.need_close = w.ctrl[c].need_close
        /\ acked.new_rx_flag = w.ctrl[c].new_rx_flag
    BY <1>1, <2>1 DEF CtrlRec
  <2>4. /\ news \in CtrlRec /\ news.tag = w.ctrl[c].tag
        /\ news.socket_id = w.ctrl[c].socket_id /\ news.auto_mode
        /\ news.state = "ONLINE" /\ news.wait = w.ctrl[c].wait
        /\ news.need_close = w.ctrl[c].need_close /\ news.new_rx_flag
    BY <1>1 DEF CtrlRec
  <2> HIDE DEF lost, acked, news
  <2> QED BY <1>1, <2>2, <2>3, <2>4
<1>3. \E r \in {w.ctrl[c], lost, acked, news} :
         /\ ret.w = Tuned(w, c, r) /\ ret.r \in {-1, 0, 1}
         /\ e.id \in Gone => r.need_close
         /\ e.id = "RX_NEW" => r.new_rx_flag \/ r.need_close
  <2>1. /\ [w EXCEPT !.ctrl[c].need_close = TRUE] = Tuned(w, c, lost)
        /\ [w EXCEPT !.ctrl[c].ack_size = @ + 1] = Tuned(w, c, acked)
        /\ [w EXCEPT !.ctrl[c].new_rx_flag = TRUE] = Tuned(w, c, news)
    BY DEF Tuned
  <2>2. w = Tuned(w, c, w.ctrl[c])
    BY DEF Tuned, Worlds
  <2>3. lost.need_close /\ news.new_rx_flag
    BY <1>1 DEF CtrlRec
  <2> HIDE DEF lost, acked, news
  <2>4. CASE w.ctrl[c].need_close
    <3>1. ret.w = w /\ ret.r = -1
      BY <2>4 DEF OnLine, Returns
    <3> QED BY <2>2, <2>4, <3>1
  <2>5. CASE ~ w.ctrl[c].need_close
    <3>1. CASE e.id \in Gone
      <4>1. ret.w = Tuned(w, c, lost) /\ ret.r = -1
        BY <1>1, <2>1, <2>5, <3>1 DEF OnLine, Returns, Gone
      <4> QED BY <2>3, <3>1, <4>1
    <3>2. CASE e.id = "STATE"
      <4>1. (ret.w = Tuned(w, c, lost) /\ ret.r = -1) \/ (ret.w = w /\ ret.r = 1)
        BY <1>1, <2>1, <2>5, <3>2 DEF OnLine, Returns, Gone
      <4> QED BY <2>2, <3>2, <4>1 DEF Gone
    <3>3. CASE e.id = "TX_OK"
      <4>1. ret.w = Tuned(w, c, acked) /\ ret.r \in {-1, 0, 1}
        BY <1>1, <2>1, <2>5, <3>3 DEF OnLine, Returns, Gone
      <4> QED BY <3>3, <4>1 DEF Gone
    <3>4. CASE e.id = "RX_NEW"
      <4>1. ret.w = Tuned(w, c, news) /\ ret.r \in {-1, 0, 1}
        BY <1>1, <2>1, <2>5, <3>4 DEF OnLine, Returns, Gone
      <4> QED BY <2>3, <3>4, <4>1 DEF Gone
    <3>5. CASE e.id \notin Gone \cup {"STATE", "TX_OK", "RX_NEW"}
      <4>1. ret.w = w /\ ret.r = 1
        BY <1>1, <2>5, <3>5 DEF OnLine, Returns
      <4> QED BY <2>2, <3>5, <4>1
    <3> QED BY <3>1, <3>2, <3>3, <3>4, <3>5
  <2> QED BY <2>4, <2>5
<1> HIDE DEF lost, acked, news
<1>4. PICK r \in {w.ctrl[c], lost, acked, news} :
         /\ ret.w = Tuned(w, c, r) /\ ret.r \in {-1, 0, 1}
         /\ e.id \in Gone => r.need_close
         /\ e.id = "RX_NEW" => r.new_rx_flag \/ r.need_close
  BY <1>3
<1>5. /\ r \in CtrlRec /\ r.tag = w.ctrl[c].tag /\ r.socket_id = w.ctrl[c].socket_id
      /\ r.auto_mode /\ r.state = "ONLINE" /\ r.wait = w.ctrl[c].wait
      /\ w.ctrl[c].need_close => r.need_close
      /\ w.ctrl[c].new_rx_flag => r.new_rx_flag
  BY <1>2
<1>6. Step(w, ret.w, c) /\ ret.w.ctrl[c] = r /\ ret.w.socket = w.socket
  BY <1>4, <1>5, Sets
<1>7. Unused(ret.w, c) /\ Awaits(ret.w, c)
  BY <1>1, <1>5, <1>6 DEF Unused, Awaits
<1>8. OnLineAfter(w, ret.w, c, e)
  BY <1>4, <1>5, <1>6 DEF OnLineAfter
<1> QED BY <1>4, <1>6, <1>7, <1>8 DEF Outcome

\* network_state_disconnecting.
LEMMA Disconnectings ==
    ASSUME NEW w \in Worlds, Books(w), NEW c \in Ctrl, NEW e \in Events,
           w.ctrl[c].state = "DISCONNECTING", Unused(w, c), Awaits(w, c),
           NEW ret, ret = Disconnecting(w, c, e)
    PROVE  Outcome(w, ret, c, e)
<1> DEFINE u == ForceCloseSocket(w, c)
           r == [u.ctrl[c] EXCEPT !.state = "OFF_LINE"]
           off == Tuned(u, c, r)
<1>1. w.ctrl[c] \in CtrlRec /\ w.ctrl[c].auto_mode
  BY CtrlShape DEF Unused
<1>2. /\ u \in Worlds /\ Books(u) /\ Moves(w, u, c)
      /\ u.ctrl[c] = Forgot(w.ctrl[c])
  BY ForceCloses
<1> HIDE DEF u
<1>3. u.ctrl[c].auto_mode
  BY <1>1, <1>2 DEF Forgot, CtrlRec
<1>4. /\ r \in CtrlRec /\ r.tag = u.ctrl[c].tag /\ r.socket_id = u.ctrl[c].socket_id
      /\ r.auto_mode /\ r.state = "OFF_LINE"
  <2>1. u.ctrl[c] \in CtrlRec
    BY <1>2, CtrlShape
  <2> QED BY <1>3, <2>1 DEF CtrlRec, States
<1>5. \/ ret = Returns(w, -1)
      \/ ret = Returns(w, 1)
      \/ ret = Returns(off, 0)
      \/ ret = Returns(off, -1)
  <2>1. [ForceCloseSocket(w, c) EXCEPT !.ctrl[c].state = "OFF_LINE"] = off
    BY DEF Tuned, u
  <2> HIDE DEF off
  <2>2. ret = IF w.ctrl[c].wait # "OFF_LINE" THEN Returns(w, -1)
              ELSE CASE e.id \in Gone -> Returns(off, 0)
                     [] e.id = "STATE" -> Returns(IF e.up THEN off ELSE w, -1)
                     [] OTHER -> Returns(w, 1)
    BY <2>1 DEF Disconnecting
  <2> QED BY <2>2
<1> HIDE DEF r
<1>6. CASE ret = Returns(w, -1) \/ ret = Returns(w, 1)
  <2>1. ret.w = w /\ ret.r \in {-1, 0, 1}
    BY <1>6 DEF Returns
  <2> QED BY <2>1, Ignores
<1>7. CASE ret = Returns(off, 0) \/ ret = Returns(off, -1)
  <2>1. ret.w = off /\ ret.r \in {-1, 0, 1} /\ ret.r # 1
    BY <1>7 DEF Returns
  <2>2. Step(u, off, c) /\ off.ctrl[c] = r
    BY <1>2, <1>4, Sets
  <2> HIDE DEF off
  <2>3. Step(w, off, c)
    BY <1>2, <2>2, StepOn DEF Step
  <2>4. Unused(off, c) /\ OnLineAfter(w, off, c, e)
    BY <1>4, <2>2 DEF Unused, OnLineAfter
  <2> QED BY <2>1, <2>3, <2>4 DEF Outcome
<1> QED BY <1>5, <1>6, <1>7

\* An event is handled.
LEMMA StateMachines ==
    ASSUME NEW w \in Worlds, Books(w), NEW c \in Ctrl, NEW e \in Events,
           Unused(w, c), Awaits(w, c),
           NEW v, v = StateMachine(w, c, e)
    PROVE  Step(w, v, c) /\ Unused(v, c) /\ Awaits(v, c) /\ OnLineAfter(w, v, c, e)
<1> DEFINE ret == StateFun(w, c, e)
<1>1. w.ctrl[c].state \in States
  BY CtrlShape
<1>2. Outcome(w, ret, c, e)
  <2>1. CASE w.ctrl[c].state = "LINK_OFF"
    BY <2>1, LinkOffs DEF StateFun
  <2>2. CASE w.ctrl[c].state = "OFF_LINE"
    <3>1. ret.w = w /\ ret.r = 1
      BY <2>2 DEF StateFun, Returns
    <3> HIDE DEF ret
    <3> QED BY <2>2, <3>1, Ignores
  <2>3. CASE w.ctrl[c].state = "WAIT_DNS"
    BY <2>3, WaitDnss DEF StateFun
  <2>4. CASE w.ctrl[c].state = "CONNECTING"
    BY <2>4, OnConnectings DEF StateFun
  <2>5. CASE w.ctrl[c].state = "ONLINE"
    BY <2>5, OnLines DEF StateFun
  <2>6. CASE w.ctrl[c].state = "DISCONNECTING"
    BY <2>6, Disconnectings DEF StateFun
  <2> QED BY <1>1, <2>1, <2>2, <2>3, <2>4, <2>5, <2>6 DEF States
<1>3. v = EndWait(ret, c)
  BY DEF StateMachine
<1> HIDE DEF ret
<1>4. Step(w, ret.w, c) /\ ret.w \in Worlds /\ Books(ret.w) /\ ret.w.stuck = None
  BY <1>2, ShapeOf DEF Outcome, Step
<1>5. CASE ret.r = 1
  <2>1. v = ret.w
    BY <1>3, <1>5 DEF EndWait
  <2> QED BY <1>2, <1>5, <2>1 DEF Outcome
<1>6. CASE ret.r \in {-1, 0}
  <2> DEFINE r == [ret.w.ctrl[c] EXCEPT !.wait = "NONE"]
  <2>1. v = Tuned(ret.w, c, r)
    BY <1>3, <1>4, <1>6 DEF EndWait, Tuned
  <2>2. /\ r \in CtrlRec /\ r.tag = ret.w.ctrl[c].tag
        /\ r.socket_id = ret.w.ctrl[c].socket_id /\ r.wait = "NONE"
        /\ r.state = ret.w.ctrl[c].state /\ r.auto_mode = ret.w.ctrl[c].auto_mode
        /\ r.new_rx_flag = ret.w.ctrl[c].new_rx_flag
        /\ r.need_close = ret.w.ctrl[c].need_close
    <3>1. ret.w.ctrl[c] \in CtrlRec
      BY <1>4, CtrlShape
    <3> QED BY <3>1 DEF CtrlRec, Waits
  <2> HIDE DEF r
  <2>3. Step(ret.w, v, c) /\ v.ctrl[c] = r /\ v.socket = ret.w.socket
    BY <1>4, <2>1, <2>2, Sets
  <2>4. Step(w, v, c)
    BY <1>4, <2>3, StepOn
  <2>5. Unused(v, c) /\ Awaits(v, c)
    BY <1>2, <2>2, <2>3 DEF Outcome, Unused, Awaits
  <2>6. OnLineAfter(w, v, c, e)
    BY <1>2, <2>2, <2>3 DEF Outcome, OnLineAfter
  <2> QED BY <2>4, <2>5, <2>6
<1>7. ret.r \in {-1, 0, 1}
  BY <1>2 DEF Outcome
<1> QED BY <1>5, <1>6, <1>7
----------------------------------------------------------------------------
\* The invariant

\* A ctrl that would send has its connection, or its end is told.
Linked(w, c, told) ==
    w.ctrl[c].state = "ONLINE" /\ ~ w.ctrl[c].need_close /\ w.ctrl[c].socket_id >= 0 =>
        /\ Valid(w, c)
        /\ LET s == w.socket[w.ctrl[c].socket_id]
           IN  (s.pcb = "open" /\ ~ s.remote_close) \/ told

\* The application knows of what has arrived, and of what has come after a
\* socket.rx that runs has asked for the size.
Announced(w, c, word, known) ==
    /\ w.ctrl[c].state = "ONLINE" /\ ~ w.ctrl[c].need_close
    /\ Valid(w, c) /\ w.socket[w.ctrl[c].socket_id].rx
    => (w.ctrl[c].new_rx_flag \/ word) /\ known

\* An event that is posted is of a tag that has been given out; a connection is
\* told of before anything else happens to it.
Timely(w, p) == p # None =>
    /\ p \in Posts /\ p.tag <= w.socket_tag
    /\ p.event.id = "CONNECT_OK" /\ p.tag = w.ctrl[p.to].tag /\ Valid(w, p.to) =>
         LET s == w.socket[w.ctrl[p.to].socket_id]
         IN  s.pcb = "open" /\ ~ s.remote_close /\ ~ s.rx

Tells(p, c, ids) == p # None /\ p.to = c /\ p.event.id \in ids

\* RX_NEW is posted to c or has been handled since socket.rx asked for the size;
\* or that socket.rx will read all there is.
Heard(c) == Tells(posted, c, {"RX_NEW"}) \/ c \in heard
Word(c)  == Heard(c) \/ (Sized(c) /\ c \notin later)
Known(c) == Sized(c) /\ c \in later => Heard(c)

\* A step that has nothing to do with what c reads.
SameReading(c) ==
    /\ Sized(c)' <=> Sized(c)
    /\ c \in later' <=> c \in later
    /\ c \in heard' <=> c \in heard

OnLineOk == \A c \in Ctrl \ (robbed \cup crossed) :
    /\ Linked(World, c, Tells(posted, c, Gone))
    /\ Announced(World, c, Word(c), Known(c))

RestOk ==
    /\ dns \subseteq [to : Ctrl, name : Names] /\ ready \in BOOLEAN /\ fanout \subseteq Ctrl
    /\ entered \in [Ctrl -> {"no", "connect", "tx", "rx"}] /\ crossed \subseteq Ctrl
    /\ later \subseteq Ctrl /\ heard \subseteq Ctrl /\ unanswered \subseteq Ctrl
    /\ \A c \in later : entered[c] = "rx"

NetInv ==
    /\ World \in Worlds /\ Books(World)
    /\ \A c \in Ctrl : Unused(World, c) /\ Awaits(World, c)
    /\ OnLineOk
    /\ Timely(World, posted)
    /\ RestOk

\* The other ctrls keep their part of the invariant.
LEMMA StepKeeps ==
    ASSUME NEW w \in Worlds, Books(w), NEW c \in Ctrl, NEW v, Step(w, v, c),
           NEW d \in Ctrl \ {c}, NEW told \in BOOLEAN, NEW word \in BOOLEAN,
           NEW known \in BOOLEAN
    PROVE  /\ Unused(w, d) => Unused(v, d)
           /\ Awaits(w, d) => Awaits(v, d)
           /\ d \notin v.robbed /\ Linked(w, d, told) => Linked(v, d, told)
           /\ d \notin v.robbed /\ Announced(w, d, word, known)
                => Announced(v, d, word, known)
<1>1. /\ v \in Worlds /\ w.robbed \subseteq v.robbed
      /\ v.ctrl[d] \in {w.ctrl[d], [w.ctrl[d] EXCEPT !.socket_id = -1]}
      /\ Valid(w, d) => \/ v.ctrl[d] = w.ctrl[d] /\ Valid(v, d)
                        \/ d \in v.robbed
      /\ Valid(v, d) => Valid(w, d)
      /\ \A i \in Sockets : SocketMoves(w.socket[i], v.socket[i], w.socket_tag)
  BY DEF Step, Moves
<1>2. w.ctrl[d] \in CtrlRec /\ w.ctrl[d].tag \in Nat /\ w.ctrl[d].tag <= w.socket_tag
      /\ w.socket_tag \in Nat
  BY CtrlShape, ShapeOf DEF Books, Tagged
<1>3. /\ v.ctrl[d].state = w.ctrl[d].state /\ v.ctrl[d].wait = w.ctrl[d].wait
      /\ v.ctrl[d].need_close = w.ctrl[d].need_close /\ v.ctrl[d].tag = w.ctrl[d].tag
      /\ v.ctrl[d].auto_mode = w.ctrl[d].auto_mode
      /\ v.ctrl[d].new_rx_flag = w.ctrl[d].new_rx_flag
      /\ v.ctrl[d].socket_id \in {w.ctrl[d].socket_id, -1}
  BY <1>1, <1>2 DEF CtrlRec
<1>4. ASSUME Valid(v, d), v.ctrl[d].socket_id = w.ctrl[d].socket_id
      PROVE  LET s == w.socket[w.ctrl[d].socket_id]
                 t == v.socket[v.ctrl[d].socket_id]
             IN  t.pcb = s.pcb /\ t.remote_close = s.remote_close /\ (t.rx => s.rx)
  <2> DEFINE i == w.ctrl[d].socket_id
  <2>1. i \in Sockets /\ v.socket[i].tag = w.ctrl[d].tag
    BY <1>3, <1>4 DEF Valid
  <2>2. ~ (v.socket[i].tag > w.socket_tag)
    BY <1>2, <2>1
  <2>3. SocketMoves(w.socket[i], v.socket[i], w.socket_tag)
    BY <1>1, <2>1
  <2> QED BY <1>4, <2>2, <2>3 DEF SocketMoves
<1>5. v.ctrl[d].socket_id = -1 => ~ Valid(v, d) /\ ~ (v.ctrl[d].socket_id >= 0)
  <2>1. -1 \notin Sockets
    BY SockAssumption DEF Sockets
  <2> QED BY <2>1 DEF Valid
<1>6. Unused(w, d) => Unused(v, d)
  BY <1>3 DEF Unused
<1>7. Awaits(w, d) => Awaits(v, d)
  BY <1>1, <1>3 DEF Awaits
<1>8. d \notin v.robbed /\ Linked(w, d, told) => Linked(v, d, told)
  BY <1>1, <1>3, <1>4, <1>5 DEF Linked
<1>9. d \notin v.robbed /\ Announced(w, d, word, known) => Announced(v, d, word, known)
  BY <1>1, <1>3, <1>4, <1>5 DEF Announced
<1> QED BY <1>6, <1>7, <1>8, <1>9

\* What a function does for c leaves the event that is posted as true as it was.
LEMMA StepTimely ==
    ASSUME NEW w \in Worlds, Books(w), NEW c \in Ctrl, NEW v, Step(w, v, c),
           NEW p, Timely(w, p)
    PROVE  Timely(v, p)
<1> SUFFICES ASSUME p # None PROVE Timely(v, p)
  BY DEF Timely
<1> DEFINE d == p.to
           i == v.ctrl[d].socket_id
<1>1. p \in Posts /\ d \in Ctrl /\ p.tag \in Nat /\ p.tag <= w.socket_tag
  BY DEF Timely, Posts
<1>2. /\ v \in Worlds /\ w.socket_tag \in Nat /\ v.socket_tag \in Nat
      /\ w.socket_tag <= v.socket_tag
  BY ShapeOf DEF Step, Moves
<1>3. p.tag <= v.socket_tag
  BY <1>1, <1>2
<1>4. ASSUME p.event.id = "CONNECT_OK", p.tag = v.ctrl[d].tag, Valid(v, d)
      PROVE  v.socket[i].pcb = "open" /\ ~ v.socket[i].remote_close /\ ~ v.socket[i].rx
  <2>1. /\ i \in Sockets /\ v.socket[i].tag = p.tag /\ v.ctrl[d].tag > 0
        /\ v.socket[i].in_use /\ ~ v.socket[i].closing
    BY <1>1, <1>2, <1>4, ValidIsOwn DEF Step, Valid
  <2>2. w.ctrl[d].tag = v.ctrl[d].tag /\ w.ctrl[d].socket_id = i
    <3>1. CASE d = c
      <4>1. \/ v.ctrl[c].tag > w.socket_tag \/ v.ctrl[c].tag = 0
            \/ /\ v.ctrl[c].tag = w.ctrl[c].tag
               /\ v.ctrl[c].socket_id \in {-1, w.ctrl[c].socket_id}
        BY DEF Step, Moves
      <4>2. ~ (v.ctrl[c].tag > w.socket_tag) /\ v.ctrl[c].tag # 0
        BY <1>1, <1>2, <1>4, <2>1, <3>1
      <4>3. i # -1
        BY <2>1, SockAssumption DEF Sockets
      <4> QED BY <3>1, <4>1, <4>2, <4>3
    <3>2. CASE d # c
      <4>1. v.ctrl[d] \in {w.ctrl[d], [w.ctrl[d] EXCEPT !.socket_id = -1]}
        BY <1>1, <3>2 DEF Step, Moves
      <4>2. i # -1
        BY <2>1, SockAssumption DEF Sockets
      <4>3. w.ctrl[d] \in CtrlRec
        BY <1>1, CtrlShape
      <4> QED BY <4>1, <4>2, <4>3 DEF CtrlRec
    <3> QED BY <3>1, <3>2
  <2>3. SocketMoves(w.socket[i], v.socket[i], w.socket_tag)
    BY <2>1 DEF Step, Moves
  <2>4. ~ (v.socket[i].tag > w.socket_tag)
    BY <1>1, <1>2, <2>1, SMTT(30)
  <2>5. /\ w.socket[i].tag = v.socket[i].tag /\ w.socket[i].in_use /\ ~ w.socket[i].closing
        /\ v.socket[i].pcb = w.socket[i].pcb
        /\ v.socket[i].remote_close = w.socket[i].remote_close
        /\ v.socket[i].rx => w.socket[i].rx
    BY <2>1, <2>3, <2>4 DEF SocketMoves
  <2>6. Valid(w, d)
    BY <1>4, <2>1, <2>2, <2>5 DEF Valid
  <2>7. w.socket[i].pcb = "open" /\ ~ w.socket[i].remote_close /\ ~ w.socket[i].rx
    BY <1>4, <2>2, <2>6 DEF Timely
  <2> QED BY <2>5, <2>7
<1> QED BY <1>1, <1>3, <1>4 DEF Timely

New(w, n) == [w EXCEPT !.new = n]

\* A new connection is not blamed for what a clean has done.
Pardoned(w, c) == [w EXCEPT !.robbed = @ \ {c}]

\* Worlds with the same ctrls, sockets, commands and last tag.
LEMMA Alike ==
    ASSUME NEW w \in Worlds, NEW v \in Worlds, v.ctrl = w.ctrl, v.socket = w.socket,
           v.cmds = w.cmds, v.socket_tag = w.socket_tag
    PROVE  /\ Books(v) <=> Books(w)
           /\ \A d \in Ctrl : /\ Valid(v, d) <=> Valid(w, d)
                              /\ Unused(v, d) <=> Unused(w, d)
<1>1. ForSocket(v) = ForSocket(w)
  BY DEF ForSocket
<1>2. /\ Tagged(v) <=> Tagged(w)
      /\ Idle(v) <=> Idle(w)
      /\ Owned(v) <=> Owned(w)
  BY DEF Tagged, Idle, Owned
<1>3. InTime(v) <=> InTime(w)
  BY <1>1 DEF InTime
<1>4. Births(v) <=> Births(w)
  BY <1>1 DEF Births
<1>5. \A d \in Ctrl : Valid(v, d) <=> Valid(w, d)
  BY DEF Valid
<1>6. \A d \in Ctrl : Unused(v, d) <=> Unused(w, d)
  BY DEF Unused
<1> QED BY <1>2, <1>3, <1>4, <1>5, <1>6 DEF Books

\* What happens to a new pcb is not part of the invariant.
LEMMA NewAlike ==
    ASSUME NEW w \in Worlds, NEW n \in {"later", "made"}, NEW v, v = New(w, n)
    PROVE  /\ v \in Worlds /\ (Books(v) <=> Books(w))
           /\ v.ctrl = w.ctrl /\ v.socket = w.socket /\ v.robbed = w.robbed
           /\ v.cmds = w.cmds /\ v.socket_tag = w.socket_tag /\ v.new = n
           /\ \A d \in Ctrl : /\ Valid(v, d) <=> Valid(w, d)
                              /\ Unused(v, d) <=> Unused(w, d)
                              /\ Awaits(v, d) <=> Awaits(w, d)
<1>1. /\ v \in Worlds
      /\ v.ctrl = w.ctrl /\ v.socket = w.socket /\ v.robbed = w.robbed
      /\ v.cmds = w.cmds /\ v.socket_tag = w.socket_tag /\ v.new = n
  BY DEF Worlds, New
<1>2. /\ Books(v) <=> Books(w)
      /\ \A d \in Ctrl : /\ Valid(v, d) <=> Valid(w, d)
                         /\ Unused(v, d) <=> Unused(w, d)
  BY <1>1, Alike
<1>3. \A d \in Ctrl : Awaits(v, d) <=> Awaits(w, d)
  BY <1>1, <1>2 DEF Awaits
<1> QED BY <1>1, <1>2, <1>3

\* Nor is it whether c has been robbed.
LEMMA PardonedAlike ==
    ASSUME NEW w \in Worlds, NEW c \in Ctrl, NEW v, v = Pardoned(w, c)
    PROVE  /\ v \in Worlds /\ (Books(v) <=> Books(w))
           /\ v.ctrl = w.ctrl /\ v.socket = w.socket /\ v.robbed = w.robbed \ {c}
           /\ v.cmds = w.cmds /\ v.socket_tag = w.socket_tag /\ v.new = w.new
           /\ \A d \in Ctrl : Valid(v, d) <=> Valid(w, d)
           /\ \A d \in Ctrl \ {c} : /\ Unused(w, d) => Unused(v, d)
                                    /\ Awaits(w, d) => Awaits(v, d)
<1>1. /\ v \in Worlds
      /\ v.ctrl = w.ctrl /\ v.socket = w.socket /\ v.robbed = w.robbed \ {c}
      /\ v.cmds = w.cmds /\ v.socket_tag = w.socket_tag /\ v.new = w.new
  BY DEF Worlds, Pardoned
<1>2. /\ Books(v) <=> Books(w)
      /\ \A d \in Ctrl : /\ Valid(v, d) <=> Valid(w, d)
                         /\ Unused(v, d) <=> Unused(w, d)
  BY <1>1, Alike
<1>3. \A d \in Ctrl \ {c} : Awaits(w, d) => Awaits(v, d)
  BY <1>1, <1>2 DEF Awaits
<1> QED BY <1>1, <1>2, <1>3

\* What is known of c does not change with what the others read.
LEMMA WordStays ==
    ASSUME NEW c \in Ctrl, SameReading(c),
           Tells(posted, c, {"RX_NEW"})' <=> Tells(posted, c, {"RX_NEW"})
    PROVE  (Word(c)' <=> Word(c)) /\ (Known(c)' <=> Known(c))
<1>1. Heard(c)' <=> Heard(c)
  BY DEF Heard, SameReading
<1> QED BY <1>1 DEF Word, Known, SameReading

\* A function has run for c.
LEMMA StepInv ==
    ASSUME NetInv, NEW c \in Ctrl, NEW x, x = World \/ x = Pardoned(World, c),
           Step(x, World', c),
           Unused(World', c), Awaits(World', c),
           c \notin robbed' \cup crossed' =>
              /\ Linked(World', c, Tells(posted', c, Gone))
              /\ Announced(World', c, Word(c)', Known(c)'),
           \A d \in Ctrl \ {c} : SameReading(d),
           posted' = posted \/ (posted' = None /\ (posted # None => posted.to = c)),
           crossed \ {c} \subseteq crossed', RestOk'
    PROVE  NetInv'
<1>0. World \in Worlds /\ Books(World)
  BY DEF NetInv
<1>1. /\ x \in Worlds /\ Books(x) /\ x.ctrl = World.ctrl /\ x.socket = World.socket
      /\ x.robbed \subseteq World.robbed /\ World.robbed \ {c} \subseteq x.robbed
      /\ x.socket_tag = World.socket_tag
      /\ \A d \in Ctrl : Valid(x, d) <=> Valid(World, d)
      /\ \A d \in Ctrl \ {c} : /\ Unused(World, d) => Unused(x, d)
                               /\ Awaits(World, d) => Awaits(x, d)
  <2> DEFINE W == World
  <2> HIDE DEF W
  <2>1. W \in Worlds /\ Books(W) /\ (x = W \/ x = Pardoned(W, c))
    BY <1>0 DEF W
  <2>2. CASE x = W
    BY <2>1, <2>2 DEF W
  <2>3. CASE x = Pardoned(W, c)
    <3>1. /\ x \in Worlds /\ (Books(x) <=> Books(W))
          /\ x.ctrl = W.ctrl /\ x.socket = W.socket /\ x.robbed = W.robbed \ {c}
          /\ x.socket_tag = W.socket_tag
          /\ \A d \in Ctrl : Valid(x, d) <=> Valid(W, d)
          /\ \A d \in Ctrl \ {c} : /\ Unused(W, d) => Unused(x, d)
                                   /\ Awaits(W, d) => Awaits(x, d)
      BY <2>1, <2>3, PardonedAlike
    <3> QED BY <2>1, <3>1 DEF W
  <2> QED BY <2>1, <2>2, <2>3
<1>2. World' \in Worlds /\ Books(World') /\ x.robbed \subseteq World'.robbed
  BY DEF Step, Moves
<1>3. World.robbed = robbed /\ World'.robbed = robbed'
  BY DEF World
<1>4. \A d \in Ctrl : Unused(World', d) /\ Awaits(World', d)
  <2> TAKE d \in Ctrl
  <2>1. CASE d = c
    BY <2>1
  <2>2. CASE d # c
    <3>1. Unused(x, d) /\ Awaits(x, d)
      BY <1>1, <2>2 DEF NetInv
    <3> HIDE DEF World
    <3> QED BY <1>1, <2>2, <3>1, StepKeeps
  <2> QED BY <2>1, <2>2
<1>5. OnLineOk'
  <2> SUFFICES ASSUME NEW d \in Ctrl, d \notin robbed' \cup crossed'
               PROVE  /\ Linked(World', d, Tells(posted', d, Gone))
                      /\ Announced(World', d, Word(d)', Known(d)')
    BY DEF OnLineOk
  <2>1. CASE d = c
    BY <2>1
  <2>2. CASE d # c
    <3>1. d \notin World'.robbed /\ d \notin robbed \cup crossed
      BY <1>1, <1>2, <1>3, <2>2
    <3>2. /\ Linked(World, d, Tells(posted, d, Gone))
          /\ Announced(World, d, Word(d), Known(d))
      BY <3>1 DEF NetInv, OnLineOk
    <3>3. /\ Tells(posted, d, Gone) = Tells(posted', d, Gone)
          /\ Tells(posted, d, {"RX_NEW"})' <=> Tells(posted, d, {"RX_NEW"})
      BY <2>2 DEF Tells
    <3>9. (Word(d)' <=> Word(d)) /\ (Known(d)' <=> Known(d))
      BY <2>2, <3>3, WordStays
    <3>4. /\ Tells(posted, d, Gone) \in BOOLEAN
          /\ Word(d) \in BOOLEAN /\ Known(d) \in BOOLEAN
      BY DEF Tells, Word, Known
    <3>5. d \in Ctrl \ {c}
      BY <2>2
    <3>8. /\ Linked(x, d, Tells(posted, d, Gone))
          /\ Announced(x, d, Word(d), Known(d))
      <4> HIDE DEF World
      <4> QED BY <1>1, <3>2 DEF Linked, Announced
    <3>6. Linked(World', d, Tells(posted, d, Gone))
      BY <1>1, <3>1, <3>8, <3>4, <3>5, StepKeeps
    <3>7. Announced(World', d, Word(d), Known(d))
      BY <1>1, <3>1, <3>8, <3>4, <3>5, StepKeeps
    <3>10. Announced(World', d, Word(d)', Known(d)')
      <4> HIDE DEF World
      <4> QED BY <3>7, <3>9 DEF Announced
    <3> QED BY <3>3, <3>6, <3>10
  <2> QED BY <2>1, <2>2
<1>6. Timely(World', posted)
  <2>1. Timely(x, posted)
    <3>1. Timely(World, posted)
      BY DEF NetInv
    <3>2. posted # None => posted.to \in Ctrl
      BY <3>1 DEF Timely, Posts
    <3> HIDE DEF World
    <3> QED BY <1>1, <3>1, <3>2 DEF Timely
  <2> QED BY <1>1, <2>1, StepTimely
<1>7. Timely(World', posted')
  BY <1>6 DEF Timely
<1> QED BY <1>2, <1>4, <1>5, <1>7 DEF NetInv

\* The state machine on the tcpip thread, whose sockets get their pcb at once.
LEMMA HandlesStep ==
    ASSUME NetInv, ~ PcbsRunOut, NEW c \in Ctrl, NEW e \in Events, Handles(c, e)
    PROVE  /\ Step(World, World', c) /\ Unused(World', c) /\ Awaits(World', c)
           /\ OnLineAfter(World, World', c, e)
<1> DEFINE W == World
           x == New(W, "made")
           v == StateMachine(x, c, e)
<1>1. /\ W \in Worlds /\ Books(W) /\ Unused(W, c) /\ Awaits(W, c) /\ W.new = "later"
  BY DEF NetInv, World
<1>2. Becomes(v)
  BY DEF Handles, New
<1>3. World' = New(v, "later") \/ v \notin Worlds
  <2> HIDE DEF v
  <2> QED BY <1>2 DEF Becomes, World, Worlds, New
<1> HIDE DEF W
<1>4. /\ x \in Worlds /\ Books(x) /\ Unused(x, c) /\ Awaits(x, c)
      /\ x.ctrl = W.ctrl /\ x.socket = W.socket /\ x.robbed = W.robbed
      /\ x.socket_tag = W.socket_tag
      /\ \A d \in Ctrl : Valid(x, d) <=> Valid(W, d)
  BY <1>1, NewAlike
<1> HIDE DEF x
<1>5. Step(x, v, c) /\ Unused(v, c) /\ Awaits(v, c) /\ OnLineAfter(x, v, c, e)
  BY <1>4, StateMachines
<1> HIDE DEF v
<1> DEFINE y == World'
<1>6. y = New(v, "later") /\ v \in Worlds /\ Books(v)
  BY <1>3, <1>5 DEF Step
<1> HIDE DEF y
<1>7. /\ y \in Worlds /\ Books(y) /\ Unused(y, c) /\ Awaits(y, c)
      /\ y.ctrl = v.ctrl /\ y.socket = v.socket /\ y.robbed = v.robbed
      /\ y.socket_tag = v.socket_tag /\ y.new = "later"
      /\ \A d \in Ctrl : Valid(y, d) <=> Valid(v, d)
  BY <1>5, <1>6, NewAlike
<1>8. Moves(W, y, c)
  <2>1. Moves(x, v, c)
    BY <1>5 DEF Step
  <2> QED BY <1>1, <1>4, <1>7, <2>1 DEF Moves
<1>9. OnLineAfter(W, y, c, e)
  BY <1>4, <1>5, <1>7 DEF OnLineAfter
<1> QED BY <1>7, <1>8, <1>9 DEF Step, W, y

\* An event is handled.
LEMMA HandleInv ==
    ASSUME NetInv, ~ PcbsRunOut, Handle
    PROVE  NetInv'
<1> DEFINE e == posted.event
<1>0. posted # None /\ posted \in Posts /\ posted.to \in Ctrl /\ e \in Events
  BY DEF Handle, NetInv, Timely, Posts
<1> PICK c \in Ctrl : c = posted.to
  BY <1>0
<1>1. /\ posted # None /\ posted \in Posts /\ posted.to = c /\ e \in Events /\ posted' = None
      /\ Handles(c, e)
      /\ crossed' = IF posted.tag = ctrl[c].tag THEN crossed ELSE crossed \cup {c}
      /\ dns' = dns /\ ready' = ready /\ fanout' = fanout /\ entered' = entered
      /\ later' = later /\ unanswered' = unanswered
      /\ heard' = IF e.id # "RX_NEW" THEN heard
                  ELSE IF Sized(c) THEN heard \cup {c} ELSE heard \ {c}
  BY <1>0 DEF Handle, Tell
<1>2. /\ Step(World, World', c) /\ Unused(World', c) /\ Awaits(World', c)
      /\ OnLineAfter(World, World', c, e)
  BY <1>1, HandlesStep
<1>3. crossed \ {c} \subseteq crossed' /\ RestOk'
  BY <1>1 DEF NetInv, RestOk
<1>8. \A d \in Ctrl \ {c} : SameReading(d)
  BY <1>1 DEF SameReading, Sized
<1>9. (Sized(c)' <=> Sized(c)) /\ later' = later
  BY <1>1 DEF Sized
<1>4. robbed \subseteq robbed'
  BY <1>2 DEF Step, Moves, World
<1>5. ASSUME c \notin robbed' \cup crossed'
      PROVE  Linked(World', c, FALSE) /\ Announced(World', c, Word(c)', Known(c)')
  <2>1. c \notin robbed \cup crossed /\ posted.tag = ctrl[c].tag
    BY <1>1, <1>4, <1>5
  <2>2. /\ World \in Worlds /\ Books(World) /\ Awaits(World, c) /\ Timely(World, posted)
        /\ Linked(World, c, Tells(posted, c, Gone))
        /\ Announced(World, c, Word(c), Known(c))
    BY <1>1, <2>1 DEF NetInv, OnLineOk
  <2>3. World.ctrl = ctrl /\ World.robbed = robbed
    BY DEF World
  <2>4. /\ Tells(posted, c, Gone) <=> e.id \in Gone
        /\ Tells(posted, c, {"RX_NEW"}) <=> e.id = "RX_NEW"
    BY <1>1 DEF Tells
  <2>11. e.id # "RX_NEW" => (Word(c)' <=> Word(c)) /\ (Known(c)' <=> Known(c))
    <3> SUFFICES ASSUME e.id # "RX_NEW" PROVE (Word(c)' <=> Word(c)) /\ (Known(c)' <=> Known(c))
      OBVIOUS
    <3>1. SameReading(c)
      BY <1>1 DEF SameReading, Sized
    <3>2. Tells(posted, c, {"RX_NEW"})' <=> Tells(posted, c, {"RX_NEW"})
      BY <1>1, <2>4 DEF Tells
    <3> QED BY <3>1, <3>2, WordStays
  <2>12. e.id = "RX_NEW" => Known(c)'
    <3>1. e.id = "RX_NEW" /\ Sized(c) => c \in heard'
      BY <1>1
    <3> QED BY <1>9, <3>1 DEF Known, Heard
  <2> DEFINE W == World
             v == World'
             word == Word(c)'
             known == Known(c)'
             i == W.ctrl[c].socket_id
  <2>5. v \in Worlds
    BY <1>2 DEF Step
  <2>6. SUFFICES ASSUME v.ctrl[c].state = "ONLINE", ~ v.ctrl[c].need_close
                 PROVE  Linked(v, c, FALSE) /\ Announced(v, c, word, known)
    BY DEF Linked, Announced
  <2>7. /\ v.socket = W.socket /\ v.ctrl[c].socket_id = i /\ v.ctrl[c].tag = W.ctrl[c].tag
        /\ \/ /\ W.ctrl[c].state = "CONNECTING" /\ W.ctrl[c].wait = "ON_LINE"
              /\ e.id = "CONNECT_OK"
           \/ /\ W.ctrl[c].state = "ONLINE"
              /\ W.ctrl[c].need_close \/ e.id \in Gone => v.ctrl[c].need_close
              /\ W.ctrl[c].new_rx_flag => v.ctrl[c].new_rx_flag
              /\ e.id = "RX_NEW" => v.ctrl[c].new_rx_flag \/ v.ctrl[c].need_close
    BY <1>2, <2>6 DEF OnLineAfter
  <2>8. Valid(v, c) <=> Valid(W, c)
    BY <2>7 DEF Valid
  <2>9. CASE /\ W.ctrl[c].state = "CONNECTING" /\ W.ctrl[c].wait = "ON_LINE"
             /\ e.id = "CONNECT_OK"
    <3>1. Valid(W, c)
      BY <2>1, <2>2, <2>3, <2>9 DEF Awaits
    <3>2. W.socket[i].pcb = "open" /\ ~ W.socket[i].remote_close /\ ~ W.socket[i].rx
      BY <1>1, <2>1, <2>2, <2>3, <2>9, <3>1 DEF Timely
    <3> HIDE DEF W, v, word, known
    <3> QED BY <2>7, <2>8, <3>1, <3>2 DEF Linked, Announced
  <2>10. CASE /\ W.ctrl[c].state = "ONLINE"
              /\ W.ctrl[c].need_close \/ e.id \in Gone => v.ctrl[c].need_close
              /\ W.ctrl[c].new_rx_flag => v.ctrl[c].new_rx_flag
              /\ e.id = "RX_NEW" => v.ctrl[c].new_rx_flag \/ v.ctrl[c].need_close
    <3>1. ~ W.ctrl[c].need_close /\ e.id \notin Gone
      BY <2>6, <2>10
    <3>4. /\ e.id = "RX_NEW" => known
          /\ e.id # "RX_NEW" => (word <=> Word(c)) /\ (known <=> Known(c))
      BY <2>11, <2>12
    <3> HIDE DEF W, v, word, known
    <3>2. Linked(v, c, FALSE)
      BY <2>2, <2>4, <2>6, <2>7, <2>8, <2>10, <3>1 DEF Linked, W
    <3>3. Announced(v, c, word, known)
      BY <2>2, <3>4, <2>4, <2>6, <2>7, <2>8, <2>10, <3>1 DEF Announced, W
    <3> QED BY <3>2, <3>3
  <2> QED BY <2>7, <2>9, <2>10
<1>6. Tells(posted', c, Gone) = FALSE
  BY <1>1 DEF Tells
<1>7. posted' = None /\ (posted # None => posted.to = c)
  BY <1>1
<1> QED BY <1>2, <1>3, <1>5, <1>6, <1>7, <1>8, StepInv

\* The World stays as it is.
LEMMA RestInv ==
    ASSUME NetInv, World' = World, crossed' = crossed, RestOk',
           \A c \in Ctrl : SameReading(c),
           posted' = posted \/ (posted = None /\ Timely(World, posted'))
    PROVE  NetInv'
<1>1. robbed' = robbed
  BY DEF World
<1>2. \A d \in Ctrl : \A ids : Tells(posted, d, ids) => Tells(posted', d, ids)
  BY DEF Tells
<1>3. OnLineOk'
  <2> SUFFICES ASSUME NEW d \in Ctrl, d \notin robbed \cup crossed
               PROVE  /\ Linked(World', d, Tells(posted', d, Gone))
                      /\ Announced(World', d, Word(d)', Known(d)')
    BY <1>1 DEF OnLineOk
  <2>1. /\ Linked(World, d, Tells(posted, d, Gone))
        /\ Announced(World, d, Word(d), Known(d))
    BY DEF NetInv, OnLineOk
  <2>4. (Word(d) => Word(d)') /\ (Known(d) => Known(d)')
    <3>1. Heard(d) => Heard(d)'
      BY <1>2 DEF Heard, SameReading
    <3> QED BY <3>1 DEF Word, Known, SameReading
  <2> HIDE DEF World
  <2>2. Linked(World', d, Tells(posted', d, Gone))
    BY <1>2, <2>1 DEF Linked
  <2>3. Announced(World', d, Word(d)', Known(d)')
    BY <2>1, <2>4 DEF Announced
  <2> QED BY <2>2, <2>3
<1>4. Timely(World', posted')
  <2>1. Timely(World, posted)
    BY DEF NetInv
  <2>2. Timely(World, posted')
    BY <2>1
  <2> HIDE DEF World
  <2> QED BY <2>2
<1>5. /\ World \in Worlds /\ Books(World)
      /\ \A c \in Ctrl : Unused(World, c) /\ Awaits(World, c)
  BY DEF NetInv
<1>6. /\ World' \in Worlds /\ Books(World')
      /\ \A c \in Ctrl : Unused(World', c) /\ Awaits(World', c)
  <2> HIDE DEF World
  <2> QED BY <1>5
<1> QED BY <1>3, <1>4, <1>6 DEF NetInv

\* A ctrl is told of a change of the link.
LEMMA NotifyInv ==
    ASSUME NetInv, ~ PcbsRunOut, NEW c \in Ctrl, NotifyLink(c)
    PROVE  NetInv'
<1> DEFINE e == [Event("STATE") EXCEPT !.up = ready]
<1>1. /\ posted = None /\ posted' = posted /\ crossed' = crossed
      /\ fanout' = fanout \ {c} /\ dns' = dns /\ ready' = ready /\ entered' = entered
      /\ later' = later /\ heard' = heard /\ unanswered' = unanswered
  BY DEF NotifyLink, reading
<1>6. \A d \in Ctrl : SameReading(d)
  BY <1>1 DEF SameReading, Sized
<1>7. (Word(c)' <=> Word(c)) /\ (Known(c)' <=> Known(c))
  BY <1>1, <1>6, WordStays DEF Tells
<1>2. RestOk'
  BY <1>1 DEF NetInv, RestOk
<1>3. CASE ~ ctrl[c].auto_mode
  <2>1. UNCHANGED <<ctrl, socket, cmds, next, socket_tag, robbed, stuck>>
    BY <1>3 DEF NotifyLink
  <2>2. World' = World
    BY <2>1 DEF World
  <2> QED BY <1>1, <1>2, <1>6, <2>2, RestInv
<1>4. CASE ctrl[c].auto_mode
  <2>1. e \in Events /\ e.id = "STATE"
    <3>1. ready \in BOOLEAN /\ 0 \in 0 .. MaxIp
      BY SockAssumption DEF NetInv, RestOk
    <3> QED BY <3>1 DEF Event, Events
  <2>2. Handles(c, e)
    BY <1>4 DEF NotifyLink
  <2> HIDE DEF e
  <2>3. /\ Step(World, World', c) /\ Unused(World', c) /\ Awaits(World', c)
        /\ OnLineAfter(World, World', c, e)
    BY <2>1, <2>2, HandlesStep
  <2>4. robbed \subseteq robbed'
    BY <2>3 DEF Step, Moves, World
  <2>5. ASSUME c \notin robbed' \cup crossed'
        PROVE  /\ Linked(World', c, Tells(posted, c, Gone))
               /\ Announced(World', c, Word(c)', Known(c)')
    <3>1. /\ Linked(World, c, Tells(posted, c, Gone))
          /\ Announced(World, c, Word(c)', Known(c)')
      <4>1. /\ Linked(World, c, Tells(posted, c, Gone))
            /\ Announced(World, c, Word(c), Known(c))
        BY <1>1, <2>4, <2>5 DEF NetInv, OnLineOk
      <4> HIDE DEF World
      <4> QED BY <1>7, <4>1 DEF Announced
    <3> DEFINE W == World
               v == World'
           word == Word(c)'
           known == Known(c)'
    <3>2. v \in Worlds /\ OnLineAfter(W, v, c, e)
      BY <2>3 DEF Step
    <3>3. Linked(W, c, Tells(posted, c, Gone)) /\ Announced(W, c, word, known)
      BY <3>1
    <3> HIDE DEF W, v, word, known
    <3>4. v.ctrl[c].state = "ONLINE" =>
             /\ v.socket = W.socket /\ v.ctrl[c].socket_id = W.ctrl[c].socket_id
             /\ v.ctrl[c].tag = W.ctrl[c].tag /\ W.ctrl[c].state = "ONLINE"
             /\ W.ctrl[c].need_close => v.ctrl[c].need_close
             /\ W.ctrl[c].new_rx_flag => v.ctrl[c].new_rx_flag
             /\ (Valid(v, c) <=> Valid(W, c))
      BY <2>1, <3>2 DEF OnLineAfter, Valid
    <3>5. Linked(v, c, Tells(posted, c, Gone))
      BY <3>3, <3>4 DEF Linked
    <3>6. Announced(v, c, word, known)
      BY <3>3, <3>4 DEF Announced
    <3> QED BY <3>5, <3>6 DEF v, word, known
  <2> QED BY <1>1, <1>2, <1>6, <2>3, <2>5, StepInv
<1>5. ctrl[c].auto_mode \in BOOLEAN
  <2>1. World.ctrl = ctrl /\ World \in Worlds
    BY DEF NetInv, World
  <2> QED BY <2>1, CtrlShape
<1> QED BY <1>3, <1>4, <1>5
----------------------------------------------------------------------------
\* Calls of the application

\* The state after a call is the World that the call computes.
LEMMA BecomesWorld ==
    ASSUME NEW v \in Worlds, v.new = "later", Becomes(v)
    PROVE  World' = v
  BY DEF Becomes, World, Worlds

\* A call on c that leaves it off line.
LEMMA CallInv ==
    ASSUME NetInv, NEW c \in Ctrl, NEW x, x = World \/ x = Pardoned(World, c),
           NEW v, Step(x, v, c), Becomes(v),
           Unused(v, c), Awaits(v, c),
           \/ v.ctrl[c].state # "ONLINE"
           \/ c \notin v.robbed \cup crossed' =>
                /\ Linked(v, c, Tells(posted, c, Gone))
                /\ Announced(v, c, Word(c)', Known(c)'),
           \A d \in Ctrl \ {c} : SameReading(d),
           posted' = posted, crossed \ {c} \subseteq crossed', RestOk'
    PROVE  NetInv'
<1>1. x.new = "later"
  <2>1. World \in Worlds /\ World.new = "later"
    BY DEF NetInv, World
  <2> HIDE DEF World
  <2>2. Pardoned(World, c).new = World.new
    BY <2>1, PardonedAlike
  <2> QED BY <2>1, <2>2
<1>2. v \in Worlds /\ v.new = "later"
  BY <1>1 DEF Step, Moves
<1>3. World' = v
  BY <1>2, BecomesWorld
<1>4. v.ctrl[c].state # "ONLINE" =>
         /\ Linked(v, c, Tells(posted, c, Gone))
         /\ Announced(v, c, Word(c)', Known(c)')
  BY DEF Linked, Announced
<1>5. robbed' = v.robbed
  BY <1>3 DEF World
<1>6. c \notin robbed' \cup crossed' =>
              /\ Linked(World', c, Tells(posted', c, Gone))
              /\ Announced(World', c, Word(c)', Known(c)')
  BY <1>3, <1>4, <1>5
<1>7. Step(x, World', c) /\ Unused(World', c) /\ Awaits(World', c)
  BY <1>3
<1> QED BY <1>6, <1>7, StepInv

\* network_connect under the lock.
LEMMA LockedConnectInv ==
    ASSUME NetInv, NEW c \in Ctrl, LockedConnect(c)
    PROVE  NetInv'
<1> DEFINE W == World
           x == Pardoned(W, c)
<1>1. W \in Worlds /\ Books(W) /\ W.ctrl = ctrl
  BY DEF NetInv, World
<1>2. PICK to \in Names \cup {Literal} :
         \E begun \in {[World EXCEPT
                          !.ctrl[c] = [@ EXCEPT
                             !.tx_size = 0, !.ack_size = 0, !.need_close = FALSE,
                             !.name = to, !.auto_mode = TRUE, !.wait = "ON_LINE"],
                          !.robbed = @ \ {c}]} :
             Becomes(IF ready THEN OffLine(PrepareConnect(begun, c), c)
                     ELSE [begun EXCEPT !.ctrl[c].state = "LINK_OFF"])
  BY DEF LockedConnect
<1>3. /\ posted' = posted /\ crossed' = crossed \ {c}
      /\ dns' = dns /\ ready' = ready /\ fanout' = fanout
      /\ entered' = [entered EXCEPT ![c] = "no"] /\ entered[c] = "connect"
      /\ later' = later /\ heard' = heard \ {c} /\ unanswered' = unanswered \ {c}
  BY DEF LockedConnect
<1>4. RestOk'
  <2>1. \A d \in later : d # c /\ entered'[d] = "rx"
    BY <1>3 DEF NetInv, RestOk
  <2> QED BY <1>3, <2>1 DEF NetInv, RestOk
<1>11. \A d \in Ctrl \ {c} : SameReading(d)
  BY <1>3 DEF SameReading, Sized
<1> DEFINE r == [W.ctrl[c] EXCEPT !.tx_size = 0, !.ack_size = 0, !.need_close = FALSE,
                                  !.name = to, !.auto_mode = TRUE, !.wait = "ON_LINE"]
           y == Tuned(x, c, r)
           p == PrepareConnect(y, c)
           off == [p.w.ctrl[c] EXCEPT !.state = "OFF_LINE", !.wait = "NONE"]
           down == [y.ctrl[c] EXCEPT !.state = "LINK_OFF"]
           v == IF ready THEN OffLine(p, c) ELSE Tuned(y, c, down)
<1>5. Becomes(v)
  <2>1. [World EXCEPT !.ctrl[c] = [@ EXCEPT
                             !.tx_size = 0, !.ack_size = 0, !.need_close = FALSE,
                             !.name = to, !.auto_mode = TRUE, !.wait = "ON_LINE"],
                      !.robbed = @ \ {c}] = y
    <3> HIDE DEF r
    <3>1. [W EXCEPT !.ctrl[c] = r, !.robbed = @ \ {c}] = y
      <4> HIDE DEF W
      <4> QED BY <1>1 DEF Worlds, Tuned, Pardoned
    <3> QED BY <3>1 DEF r
  <2>2. [y EXCEPT !.ctrl[c].state = "LINK_OFF"] = Tuned(y, c, down)
    BY DEF Tuned
  <2> HIDE DEF y
  <2> QED BY <1>2, <2>1, <2>2
<1> HIDE DEF W
<1>6. x \in Worlds /\ Books(x) /\ x.ctrl = W.ctrl
  BY <1>1, PardonedAlike
<1>7. /\ r \in CtrlRec /\ r.tag = W.ctrl[c].tag /\ r.socket_id = W.ctrl[c].socket_id
      /\ r.auto_mode /\ r.wait = "ON_LINE"
  <2>1. W.ctrl[c] \in CtrlRec
    BY <1>1, CtrlShape
  <2> QED BY <2>1 DEF CtrlRec, Waits
<1> HIDE DEF x, r
<1>8. y \in Worlds /\ Books(y) /\ Step(x, y, c) /\ y.ctrl[c] = r
  BY <1>6, <1>7, Sets
<1> HIDE DEF y
<1>9. Step(x, v, c) /\ v.ctrl[c].state # "ONLINE" /\ Unused(v, c) /\ Awaits(v, c)
  <2>1. CASE ~ ready
    <3>1. v = Tuned(y, c, down)
      BY <2>1
    <3>2. /\ down \in CtrlRec /\ down.tag = y.ctrl[c].tag
          /\ down.socket_id = y.ctrl[c].socket_id /\ down.state = "LINK_OFF"
          /\ down.auto_mode /\ down.wait = "ON_LINE"
      <4>1. y.ctrl[c] \in CtrlRec
        BY <1>8, CtrlShape
      <4> QED BY <1>7, <1>8, <4>1 DEF CtrlRec, States
    <3> HIDE DEF v, down
    <3>3. Step(y, v, c) /\ v.ctrl[c] = down
      BY <1>8, <3>1, <3>2, Sets
    <3>4. Step(x, v, c)
      BY <1>6, <1>8, <3>3, StepOn
    <3> QED BY <3>2, <3>3, <3>4 DEF Unused, Awaits
  <2>2. CASE ready
    <3> HIDE DEF p
    <3>1. /\ Results(y, p, c) /\ p.r \in {-1, 1}
          /\ p.r = 1 => \/ p.w.ctrl[c].state = "WAIT_DNS"
                        \/ p.w.ctrl[c].state = "CONNECTING" /\ Valid(p.w, c)
      BY <1>8, Prepares DEF p
    <3>2. /\ Step(y, p.w, c) /\ p.w \in Worlds /\ Books(p.w) /\ Step(x, p.w, c)
          /\ p.w.ctrl[c].auto_mode /\ p.w.ctrl[c].wait = "ON_LINE"
      BY <1>6, <1>7, <1>8, <3>1, StepOn DEF Results, Step
    <3>3. CASE p.r = 1
      <4>1. v = p.w
        BY <2>2, <3>3 DEF OffLine
      <4> HIDE DEF v
      <4> QED BY <3>1, <3>2, <3>3, <4>1 DEF Unused, Awaits
    <3>4. CASE p.r = -1
      <4>1. v = Tuned(p.w, c, off)
        <5>1. v = [p.w EXCEPT !.ctrl[c].state = "OFF_LINE", !.ctrl[c].wait = "NONE"]
          BY <2>2, <3>4 DEF OffLine
        <5> HIDE DEF v
        <5> QED BY <3>2, <5>1 DEF Tuned, Worlds
      <4>2. /\ off \in CtrlRec /\ off.tag = p.w.ctrl[c].tag
            /\ off.socket_id = p.w.ctrl[c].socket_id /\ off.state = "OFF_LINE"
            /\ off.auto_mode /\ off.wait = "NONE"
        <5>1. p.w.ctrl[c] \in CtrlRec
          BY <3>2, CtrlShape
        <5> QED BY <3>2, <5>1 DEF CtrlRec, States, Waits
      <4> HIDE DEF v, off
      <4>3. Step(p.w, v, c) /\ v.ctrl[c] = off
        BY <3>2, <4>1, <4>2, Sets
      <4>4. Step(x, v, c)
        BY <1>6, <3>2, <4>3, StepOn
      <4> QED BY <4>2, <4>3, <4>4 DEF Unused, Awaits
    <3> QED BY <3>1, <3>3, <3>4
  <2>3. ready \in BOOLEAN
    BY DEF NetInv, RestOk
  <2> QED BY <2>1, <2>2, <2>3
<1>10. x = Pardoned(World, c) /\ crossed \ {c} \subseteq crossed'
  BY <1>3 DEF x, W
<1> HIDE DEF v
<1> QED BY <1>3, <1>4, <1>5, <1>9, <1>10, <1>11, CallInv

Marked(w, i, s) == [w EXCEPT !.socket[i] = s]

\* A socket in use may be marked, and what has arrived may be read.
LEMMA Touches ==
    ASSUME NEW w \in Worlds, NEW v \in Worlds, Books(w), v.ctrl = w.ctrl,
           v.cmds = w.cmds, v.socket_tag = w.socket_tag,
           \A j \in Sockets :
              /\ v.socket[j].in_use = w.socket[j].in_use /\ v.socket[j].tag = w.socket[j].tag
              /\ v.socket[j].param = w.socket[j].param /\ v.socket[j].pcb = w.socket[j].pcb
              /\ v.socket[j].remote_close = w.socket[j].remote_close
              /\ v.socket[j].rx => w.socket[j].rx
              /\ w.socket[j].closing => v.socket[j].closing,
           \A j \in Sockets : ~ w.socket[j].in_use => v.socket[j] = w.socket[j]
    PROVE  Books(v)
<1>1. ForSocket(v) = ForSocket(w) /\ \A k \in ForSocket(w) : w.cmds[k].id \in Sockets
  <2>1. \A k \in ForSocket(w) : w.cmds[k] \in Commands /\ w.cmds[k].kind # "dns"
    BY ShapeOf DEF ForSocket
  <2> QED BY <2>1 DEF ForSocket, Commands
<1>5. Tagged(v) /\ Idle(v)
  <2>1. Tagged(v)
    BY DEF Books, Tagged
  <2>2. Idle(v)
    BY DEF Books, Idle
  <2> QED BY <2>1, <2>2
<1>6. InTime(v)
  BY <1>1 DEF Books, InTime
<1>7. Births(v)
  <2>1. \A k \in ForSocket(w) :
         LET m == w.cmds[k]
             t == w.socket[m.id]
         IN  /\ m.kind = "create" => t.pcb = "none" /\ ~ t.remote_close /\ ~ t.rx
             /\ m.kind = "connect" => /\ t.pcb \in {"none", "new"} /\ ~ t.rx
                                      /\ t.pcb = "new" => ~ t.remote_close
             /\ m.kind \in {"create", "connect"} => \A j \in ForSocket(w) :
                  w.cmds[j].kind = m.kind /\ w.cmds[j].id = m.id => j = k
    BY DEF Books, Births
  <2>2. \A j \in Sockets :
          /\ v.socket[j].pcb \in {"new", "connecting"} => ~ v.socket[j].rx
          /\ v.socket[j].pcb = "connecting" => ~ v.socket[j].remote_close
    BY DEF Books, Births
  <2> QED BY <1>1, <2>1, <2>2, SMTT(60) DEF Births
<1>8. Owned(v)
  BY DEF Books, Owned
<1> QED BY <1>5, <1>6, <1>7, <1>8 DEF Books

\* The valid socket of a ctrl may be closed, written and read.
LEMMA Marks ==
    ASSUME NEW w \in Worlds, Books(w), NEW c \in Ctrl, Valid(w, c),
           NEW i, i = w.ctrl[c].socket_id, NEW s \in SockRec,
           s.in_use = w.socket[i].in_use, s.tag = w.socket[i].tag,
           s.param = w.socket[i].param, s.pcb = w.socket[i].pcb,
           s.remote_close = w.socket[i].remote_close, s.rx => w.socket[i].rx,
           NEW v, v = Marked(w, i, s)
    PROVE  /\ v \in Worlds /\ Books(v) /\ Step(w, v, c)
           /\ v.ctrl = w.ctrl /\ v.cmds = w.cmds /\ v.robbed = w.robbed
           /\ v.socket[i] = s /\ i \in Sockets /\ w.socket[i] \in SockRec
<1>1. /\ i \in Sockets /\ w.socket[i].in_use /\ ~ w.socket[i].closing
      /\ w.socket[i] \in SockRec
  BY ShapeOf DEF Valid
<1>2. /\ v \in Worlds /\ v.ctrl = w.ctrl /\ v.cmds = w.cmds /\ v.robbed = w.robbed
      /\ v.socket_tag = w.socket_tag /\ v.new = w.new /\ v.socket[i] = s
      /\ \A j \in Sockets \ {i} : v.socket[j] = w.socket[j]
  BY <1>1 DEF Worlds, Marked
<1>3. \A j \in Sockets :
         /\ v.socket[j].in_use = w.socket[j].in_use /\ v.socket[j].tag = w.socket[j].tag
         /\ v.socket[j].param = w.socket[j].param /\ v.socket[j].pcb = w.socket[j].pcb
         /\ v.socket[j].remote_close = w.socket[j].remote_close
         /\ v.socket[j].rx => w.socket[j].rx
         /\ w.socket[j].closing => v.socket[j].closing
  BY <1>1, <1>2
<1>5. Books(v)
  <2>1. \A j \in Sockets : ~ w.socket[j].in_use => v.socket[j] = w.socket[j]
    BY <1>1, <1>2
  <2>2. v \in Worlds /\ v.ctrl = w.ctrl /\ v.cmds = w.cmds /\ v.socket_tag = w.socket_tag
    BY <1>2
  <2> QED BY ONLY w \in Worlds, Books(w), <1>3, <2>1, <2>2, Touches
<1>9. Moves(w, v, c)
  <2>1. ASSUME NEW d \in Ctrl \ {c} PROVE Valid(w, d) <=> Valid(v, d)
    <3>1. Valid(w, d) => w.ctrl[d].socket_id # i
      BY ValidIsOwn
    <3>2. Valid(v, d) => w.ctrl[d].socket_id # i
      <4>1. Valid(v, d) /\ w.ctrl[d].socket_id = i => w.ctrl[d].tag = w.ctrl[c].tag
        <5>1. w.socket[i].tag = w.ctrl[c].tag /\ v.socket[i].tag = w.socket[i].tag
          BY <1>1, <1>3 DEF Valid
        <5>2. v.ctrl = w.ctrl
          BY <1>2
        <5> QED BY <5>1, <5>2 DEF Valid
      <4>2. w.ctrl[c].tag > 0 /\ w.ctrl[c].tag \in Nat
        BY ValidIsOwn, CtrlShape
      <4>3. w.ctrl[d].tag = w.ctrl[c].tag => d = c
        BY <4>2 DEF Books, Tagged
      <4> QED BY <4>1, <4>3
    <3>3. w.ctrl[d].socket_id \in Sockets /\ w.ctrl[d].socket_id # i =>
             v.socket[w.ctrl[d].socket_id] = w.socket[w.ctrl[d].socket_id]
      BY <1>2
    <3>4. v.ctrl[d] = w.ctrl[d]
      BY <1>2
    <3> QED BY <3>1, <3>2, <3>3, <3>4 DEF Valid
  <2>2. \A j \in Sockets : SocketMoves(w.socket[j], v.socket[j], w.socket_tag)
    BY <1>3 DEF SocketMoves
  <2>3. w.socket_tag <= v.socket_tag
    BY <1>2, ShapeOf, SMTT(60)
  <2> QED BY <1>2, <2>1, <2>2, <2>3 DEF Moves
<1> QED BY <1>1, <1>2, <1>5, <1>9 DEF Step

\* What the invariant says of one ctrl.
LEMMA WorldIs ==
    ASSUME NetInv, NEW c \in Ctrl
    PROVE  /\ World \in Worlds /\ Books(World) /\ Unused(World, c) /\ Awaits(World, c)
           /\ World.ctrl = ctrl /\ World.socket = socket /\ World.cmds = cmds
           /\ World.robbed = robbed /\ World.new = "later"
           /\ c \notin robbed \cup crossed =>
                /\ Linked(World, c, Tells(posted, c, Gone))
                /\ Announced(World, c, Word(c), Known(c))
  BY DEF NetInv, OnLineOk, World

\* What a call leaves alone.
LEMMA CallKeeps ==
    ASSUME NetInv, NEW c \in Ctrl, Call(c)
    PROVE  /\ posted' = posted /\ crossed' = crossed /\ RestOk'
           /\ \A d \in Ctrl : SameReading(d)
           /\ (Word(c)' <=> Word(c)) /\ (Known(c)' <=> Known(c))
<1>1. posted' = posted /\ crossed' = crossed
  BY DEF Call
<1>2. RestOk'
  BY DEF Call, reading, NetInv, RestOk
<1>3. \A d \in Ctrl : SameReading(d)
  BY DEF Call, reading, SameReading, Sized
<1>4. (Word(c)' <=> Word(c)) /\ (Known(c)' <=> Known(c))
  BY <1>1, <1>3, WordStays DEF Tells
<1> QED BY <1>1, <1>2, <1>3, <1>4

\* network_wait_link_up.
LEMMA WaitLinkUpInv ==
    ASSUME NetInv, NEW c \in Ctrl, WaitLinkUp(c)
    PROVE  NetInv'
<1> DEFINE W == World
           r == [W.ctrl[c] EXCEPT !.auto_mode = TRUE,
                                  !.state = IF ready THEN "OFF_LINE" ELSE "LINK_OFF",
                                  !.wait = IF ready THEN "NONE" ELSE "LINK_UP"]
           v == Tuned(W, c, r)
<1>1. /\ posted' = posted /\ crossed' = crossed /\ RestOk'
      /\ \A d \in Ctrl : SameReading(d)
  BY CallKeeps DEF WaitLinkUp
<1>2. Becomes(v)
  BY DEF WaitLinkUp, Tuned
<1>3. W \in Worlds /\ Books(W)
  BY WorldIs
<1> HIDE DEF W
<1>4. /\ r \in CtrlRec /\ r.tag = W.ctrl[c].tag /\ r.socket_id = W.ctrl[c].socket_id
      /\ r.auto_mode /\ r.state \in {"OFF_LINE", "LINK_OFF"} /\ r.wait # "OFF_LINE"
  <2>1. W.ctrl[c] \in CtrlRec
    BY <1>3, CtrlShape
  <2> QED BY <2>1 DEF CtrlRec, States, Waits
<1> HIDE DEF r
<1>5. Step(W, v, c) /\ v.ctrl[c] = r
  BY <1>3, <1>4, Sets
<1> HIDE DEF v
<1>6. Unused(v, c) /\ Awaits(v, c) /\ v.ctrl[c].state # "ONLINE"
  BY <1>4, <1>5 DEF Unused, Awaits
<1> QED BY <1>1, <1>2, <1>5, <1>6, CallInv DEF W

\* network_wait_event.
LEMMA WaitEventInv ==
    ASSUME NetInv, NEW c \in Ctrl, WaitEvent(c)
    PROVE  NetInv'
<1> DEFINE W == World
           r == [W.ctrl[c] EXCEPT !.auto_mode = IF ctrl[c].new_rx_flag THEN @ ELSE TRUE,
                                  !.wait = "EVENT"]
           v == Tuned(W, c, r)
<1>1. /\ posted' = posted /\ crossed' = crossed /\ RestOk'
      /\ \A d \in Ctrl : SameReading(d)
      /\ (Word(c)' <=> Word(c)) /\ (Known(c)' <=> Known(c))
  BY CallKeeps DEF WaitEvent
<1>2. /\ W \in Worlds /\ Books(W) /\ Unused(W, c) /\ W.ctrl = ctrl /\ W.robbed = robbed
      /\ c \notin robbed \cup crossed =>
           /\ Linked(W, c, Tells(posted, c, Gone))
           /\ Announced(W, c, Word(c), Known(c))
  BY WorldIs
<1>3. Becomes(v)
  <2>1. [World EXCEPT !.ctrl[c].auto_mode = IF ctrl[c].new_rx_flag THEN @ ELSE TRUE,
                      !.ctrl[c].wait = "EVENT"] = v
    <3>1. [W EXCEPT !.ctrl[c].auto_mode = IF ctrl[c].new_rx_flag THEN @ ELSE TRUE,
                    !.ctrl[c].wait = "EVENT"] = v
      <4> HIDE DEF W
      <4> QED BY <1>2 DEF Worlds, Tuned
    <3> QED BY <3>1
  <2> HIDE DEF v
  <2> QED BY <2>1 DEF WaitEvent
<1> HIDE DEF W
<1>4. /\ r \in CtrlRec /\ r.tag = W.ctrl[c].tag /\ r.socket_id = W.ctrl[c].socket_id
      /\ r.auto_mode /\ r.state = W.ctrl[c].state /\ r.wait = "EVENT"
      /\ r.need_close = W.ctrl[c].need_close /\ r.new_rx_flag = W.ctrl[c].new_rx_flag
  <2>1. W.ctrl[c] \in CtrlRec /\ W.ctrl[c].auto_mode \in BOOLEAN
    BY <1>2, CtrlShape
  <2>2. ctrl[c].new_rx_flag => W.ctrl[c].auto_mode
    BY <1>2 DEF Unused
  <2> QED BY <2>1, <2>2 DEF CtrlRec, Waits
<1> HIDE DEF r
<1>5. /\ Step(W, v, c) /\ v.ctrl[c] = r /\ v.socket = W.socket /\ v.robbed = W.robbed
      /\ \A d \in Ctrl : Valid(v, d) <=> Valid(W, d)
  BY <1>2, <1>4, Sets
<1> HIDE DEF v
<1>6. Unused(v, c) /\ Awaits(v, c)
  BY <1>4, <1>5 DEF Unused, Awaits
<1>7. c \notin v.robbed \cup crossed =>
        /\ Linked(v, c, Tells(posted, c, Gone))
        /\ Announced(v, c, Word(c)', Known(c)')
  BY <1>1, <1>2, <1>4, <1>5 DEF Linked, Announced
<1> QED BY <1>1, <1>3, <1>5, <1>6, <1>7, CallInv DEF W

\* network_rx without a buffer: the size is known, and all there is will be read.
LEMMA SizeRxInv ==
    ASSUME NetInv, NEW c \in Ctrl, SizeRx(c)
    PROVE  NetInv'
<1> DEFINE W == World
           i == W.ctrl[c].socket_id
           r == [W.ctrl[c] EXCEPT !.auto_mode = TRUE]
           v == Tuned(W, c, r)
           some == Valid(W, c) /\ W.socket[i].rx
<1>0. /\ posted' = posted /\ crossed' = crossed /\ heard' = heard \ {c}
      /\ UNCHANGED <<dns, ready, fanout, later, unanswered>>
      /\ entered[c] = "no"
  BY DEF SizeRx
<1>1. /\ W \in Worlds /\ Books(W) /\ Unused(W, c) /\ Awaits(W, c) /\ W.ctrl = ctrl
      /\ W.socket = socket /\ W.robbed = robbed
      /\ c \notin robbed \cup crossed =>
           /\ Linked(W, c, Tells(posted, c, Gone))
           /\ Announced(W, c, Word(c), Known(c))
  BY WorldIs
<1>2. /\ entered \in [Ctrl -> {"no", "connect", "tx", "rx"}]
      /\ entered' = [entered EXCEPT ![c] = IF some THEN "rx" ELSE "no"]
  BY <1>1 DEF SizeRx, NetInv, RestOk
<1>3. Becomes(v)
  BY DEF SizeRx, Tuned
<1>4. c \notin later
  BY <1>0 DEF NetInv, RestOk
<1> HIDE DEF W, some
<1>5. /\ r \in CtrlRec /\ r.tag = W.ctrl[c].tag /\ r.socket_id = i
      /\ r.auto_mode /\ r.state = W.ctrl[c].state /\ r.wait = W.ctrl[c].wait
      /\ r.need_close = W.ctrl[c].need_close /\ r.new_rx_flag = W.ctrl[c].new_rx_flag
  <2>1. W.ctrl[c] \in CtrlRec
    BY <1>1, CtrlShape
  <2> QED BY <2>1 DEF CtrlRec
<1> HIDE DEF r
<1>6. /\ Step(W, v, c) /\ v.ctrl[c] = r /\ v.socket = W.socket /\ v.robbed = W.robbed
      /\ \A d \in Ctrl : Valid(v, d) <=> Valid(W, d)
  BY <1>1, <1>5, Sets
<1> HIDE DEF v
<1>7. Unused(v, c) /\ Awaits(v, c)
  BY <1>1, <1>5, <1>6 DEF Unused, Awaits
<1>8. RestOk'
  <2>1. \A d \in later : entered'[d] = "rx"
    BY <1>2, <1>4 DEF NetInv, RestOk
  <2>2. entered' \in [Ctrl -> {"no", "connect", "tx", "rx"}]
    BY <1>2
  <2> QED BY <1>0, <2>1, <2>2 DEF NetInv, RestOk
<1>9. \A d \in Ctrl \ {c} : SameReading(d)
  BY <1>0, <1>2 DEF SameReading, Sized
<1>10. some => Word(c)' /\ Known(c)'
  <2>1. some => Sized(c)'
    BY <1>2 DEF Sized
  <2> QED BY <1>0, <1>4, <2>1 DEF Word, Known
<1>11. c \notin v.robbed \cup crossed =>
        /\ Linked(v, c, Tells(posted, c, Gone))
        /\ Announced(v, c, Word(c)', Known(c)')
  BY <1>1, <1>5, <1>6, <1>10 DEF Linked, Announced, some
<1> QED BY <1>0, <1>3, <1>6, <1>7, <1>8, <1>9, <1>11, CallInv DEF W

\* network_rx with a buffer of that size: what came in between is left, and known.
LEMMA LockedRxInv ==
    ASSUME NetInv, NEW c \in Ctrl, LockedRx(c)
    PROVE  NetInv'
<1> DEFINE W == World
           i == W.ctrl[c].socket_id
           r == [W.ctrl[c] EXCEPT !.new_rx_flag = FALSE]
           y == Tuned(W, c, r)
           s == [W.socket[i] EXCEPT !.rx = @ /\ c \in later]
           v == IF ~ MayRead(c) THEN W ELSE IF Valid(W, c) THEN Marked(y, i, s) ELSE y
<1>0. /\ posted' = posted /\ crossed' = crossed /\ later' = later \ {c}
      /\ heard' = IF c \in later THEN heard ELSE heard \ {c}
      /\ UNCHANGED <<dns, ready, fanout, unanswered>>
      /\ entered' = [entered EXCEPT ![c] = "no"] /\ entered[c] = "rx"
      /\ entered \in [Ctrl -> {"no", "connect", "tx", "rx"}]
  BY DEF LockedRx, NetInv, RestOk
<1>1. RestOk' /\ \A d \in Ctrl \ {c} : SameReading(d)
  <2>1. \A d \in later' : entered'[d] = "rx"
    BY <1>0 DEF NetInv, RestOk
  <2>2. RestOk'
    BY <1>0, <2>1 DEF NetInv, RestOk
  <2>3. \A d \in Ctrl \ {c} : SameReading(d)
    BY <1>0 DEF SameReading, Sized
  <2> QED BY <2>2, <2>3
<1>2. /\ W \in Worlds /\ Books(W) /\ Unused(W, c) /\ Awaits(W, c) /\ W.ctrl = ctrl
      /\ W.robbed = robbed
      /\ c \notin robbed \cup crossed =>
           /\ Linked(W, c, Tells(posted, c, Gone))
           /\ Announced(W, c, Word(c), Known(c))
  BY WorldIs
<1>3. Becomes(v)
  <2>1. [World EXCEPT !.ctrl[c].new_rx_flag = FALSE] = y
    BY DEF Tuned
  <2>2. y.socket = W.socket
    <3> HIDE DEF W
    <3> QED BY <1>2 DEF Tuned, Worlds
  <2> HIDE DEF y, W
  <2>3. [y EXCEPT !.socket[ctrl[c].socket_id].rx = @ /\ c \in later] = Marked(y, i, s)
    BY <1>2, <2>2 DEF Marked
  <2> QED BY <2>1, <2>3 DEF LockedRx, W
<1>8. c \in later /\ Known(c) => Word(c)' /\ Known(c)'
  <2>1. ~ Sized(c)' /\ Sized(c)
    BY <1>0 DEF Sized
  <2>2. c \in later /\ Heard(c) => Heard(c)'
    BY <1>0 DEF Heard, Tells
  <2> QED BY <2>1, <2>2 DEF Word, Known
<1>9. MayRead(c) <=> /\ W.ctrl[c].need_close => W.ctrl[c].new_rx_flag
                     /\ W.ctrl[c].socket_id >= 0 /\ W.ctrl[c].state = "ONLINE"
  BY <1>2 DEF MayRead
<1> HIDE DEF W
<1>4. /\ r \in CtrlRec /\ r.tag = W.ctrl[c].tag /\ r.socket_id = i
      /\ r.auto_mode = W.ctrl[c].auto_mode /\ r.state = W.ctrl[c].state
      /\ r.wait = W.ctrl[c].wait /\ ~ r.new_rx_flag
      /\ r.need_close = W.ctrl[c].need_close
  <2>1. W.ctrl[c] \in CtrlRec
    BY <1>2, CtrlShape
  <2> QED BY <2>1 DEF CtrlRec
<1> HIDE DEF r
<1>5. /\ Step(W, y, c) /\ y.ctrl[c] = r /\ y.socket = W.socket /\ y.robbed = W.robbed
      /\ y \in Worlds /\ Books(y) /\ (Valid(y, c) <=> Valid(W, c))
  BY <1>2, <1>4, Sets
<1> HIDE DEF y
<1>10. CASE ~ MayRead(c)
  <2>1. v = W
    BY <1>10, SMTT(30)
  <2> HIDE DEF v
  <2>2. Step(W, v, c)
    BY <1>2, <2>1, Stays
  <2>3. Valid(W, c) => W.ctrl[c].socket_id >= 0
    <3>1. \A j \in Sockets : j >= 0
      BY SockAssumption DEF Sockets
    <3> QED BY <3>1 DEF Valid
  <2>4. c \notin v.robbed \cup crossed =>
          /\ Linked(v, c, Tells(posted, c, Gone))
          /\ Announced(v, c, Word(c)', Known(c)')
    BY <1>2, <1>9, <1>10, <2>1, <2>3 DEF Announced
  <2> QED BY <1>0, <1>1, <1>2, <1>3, <2>1, <2>2, <2>4, CallInv DEF W
<1>6. CASE MayRead(c) /\ ~ Valid(W, c)
  <2>1. v = y
    BY <1>6, SMTT(30)
  <2>2. Unused(v, c) /\ Awaits(v, c)
    BY <1>2, <1>4, <1>5, <2>1 DEF Unused, Awaits
  <2>3. c \notin v.robbed \cup crossed =>
          /\ Linked(v, c, Tells(posted, c, Gone))
          /\ Announced(v, c, Word(c)', Known(c)')
    BY <1>2, <1>4, <1>5, <1>6, <2>1 DEF Linked, Announced
  <2> HIDE DEF v
  <2> QED BY <1>0, <1>1, <1>3, <1>5, <2>1, <2>2, <2>3, CallInv DEF W
<1>7. CASE MayRead(c) /\ Valid(W, c)
  <2>1. v = Marked(y, i, s) /\ i = y.ctrl[c].socket_id
    BY <1>4, <1>5, <1>7
  <2>2. W.socket[i] \in SockRec
    BY <1>2, <1>7, SockShape DEF Valid
  <2>3. /\ s \in SockRec /\ s.in_use = y.socket[i].in_use /\ s.tag = y.socket[i].tag
        /\ s.param = y.socket[i].param /\ s.pcb = y.socket[i].pcb
        /\ s.remote_close = y.socket[i].remote_close
        /\ (s.rx <=> y.socket[i].rx /\ c \in later)
        /\ s.closing = y.socket[i].closing
    <3> DEFINE o == W.socket[i]
               some == o.rx /\ c \in later
    <3>1. s = [o EXCEPT !.rx = some] /\ o \in SockRec /\ some \in BOOLEAN
      BY <2>2
    <3> HIDE DEF s, o, some
    <3>2. /\ s \in SockRec /\ s.in_use = o.in_use /\ s.tag = o.tag
          /\ s.param = o.param /\ s.pcb = o.pcb /\ s.remote_close = o.remote_close
          /\ s.rx = some /\ s.closing = o.closing
      BY <3>1 DEF SockRec
    <3> QED BY <1>5, <3>2 DEF o, some
  <2> HIDE DEF s, v, i
  <2>4. /\ Step(y, v, c) /\ v.ctrl = y.ctrl /\ v.robbed = y.robbed /\ v.socket[i] = s
    BY <1>5, <1>7, <2>1, <2>3, Marks
  <2>5. Step(W, v, c)
    BY <1>2, <1>5, <2>4, StepOn
  <2>6. v.ctrl[c] = r /\ v.ctrl[c].socket_id = i
    BY <1>4, <1>5, <2>4
  <2>7. Valid(v, c)
    BY <1>5, <1>7, <2>1, <2>3, <2>4, <2>6 DEF Valid
  <2>8. Unused(v, c) /\ Awaits(v, c)
    BY <1>2, <1>4, <2>6, <2>7 DEF Unused, Awaits, i
  <2>9. c \notin v.robbed \cup crossed =>
          /\ Linked(v, c, Tells(posted, c, Gone))
          /\ Announced(v, c, Word(c)', Known(c)')
    <3> SUFFICES ASSUME c \notin v.robbed \cup crossed
                 PROVE  /\ Linked(v, c, Tells(posted, c, Gone))
                        /\ Announced(v, c, Word(c)', Known(c)')
      OBVIOUS
    <3>1. Linked(v, c, Tells(posted, c, Gone))
      BY <1>2, <1>4, <1>5, <2>3, <2>4, <2>6, <2>7 DEF Linked, i
    <3>2. Announced(v, c, Word(c)', Known(c)')
      <4> DEFINE word == Word(c)'
                 known == Known(c)'
      <4>1. c \in later /\ Known(c) => word /\ known
        BY <1>8
      <4> HIDE DEF word, known
      <4>2. Announced(v, c, word, known)
        BY <1>2, <1>4, <1>5, <1>7, <2>3, <2>4, <2>6, <4>1 DEF Announced, i
      <4> QED BY <4>2 DEF word, known
    <3> QED BY <3>1, <3>2
  <2> QED BY <1>0, <1>1, <1>3, <2>5, <2>8, <2>9, CallInv DEF W
<1> QED BY <1>6, <1>7, <1>10

\* socket.close of the Lua library, which takes no lock.
LEMMA LuaCloseInv ==
    ASSUME NetInv, NEW c \in Ctrl, LuaClose(c)
    PROVE  NetInv'
<1> DEFINE W == World
           v == ForceCloseSocket(W, c)
<1>1. /\ posted' = posted /\ crossed' = crossed /\ RestOk'
      /\ \A d \in Ctrl : SameReading(d)
  BY CallKeeps DEF LuaClose
<1>2. /\ W \in Worlds /\ Books(W) /\ Unused(W, c) /\ W.ctrl = ctrl
  BY WorldIs
<1>3. Becomes(v)
  BY DEF LuaClose
<1> HIDE DEF W
<1>4. W.ctrl[c] \in CtrlRec
  BY <1>2, CtrlShape
<1>6. v \in Worlds /\ Books(v) /\ Moves(W, v, c) /\ v.ctrl[c] = Forgot(W.ctrl[c])
  BY <1>2, ForceCloses
<1> HIDE DEF v
<1>7. /\ v.ctrl[c].auto_mode = W.ctrl[c].auto_mode /\ v.ctrl[c].state = W.ctrl[c].state
      /\ v.ctrl[c].wait = "NONE" /\ v.ctrl[c].socket_id = -1 /\ ~ v.ctrl[c].new_rx_flag
  BY <1>4, <1>6 DEF Forgot, CtrlRec
<1>8. Unused(v, c) /\ Awaits(v, c)
  BY <1>2, <1>7 DEF Unused, Awaits
<1>9. ~ Valid(v, c) /\ ~ (v.ctrl[c].socket_id >= 0)
  BY <1>6, <1>7, NotValid
<1>10. /\ Linked(v, c, Tells(posted, c, Gone))
       /\ Announced(v, c, Word(c)', Known(c)')
  BY <1>9 DEF Linked, Announced
<1>11. Step(W, v, c)
  BY <1>6 DEF Step
<1> QED BY <1>1, <1>3, <1>8, <1>10, <1>11, CallInv DEF W

\* network_close in each of its three outcomes.
LEMMA CloseInv ==
    ASSUME NetInv, NEW c \in Ctrl, Close(c)
    PROVE  NetInv'
<1> DEFINE W == World
           i == W.ctrl[c].socket_id
           r == [W.ctrl[c] EXCEPT !.auto_mode = TRUE, !.need_close = FALSE,
                                  !.new_rx_flag = FALSE]
           w == Tuned(W, c, r)
           Off(x) == Tuned(x, c, [x.ctrl[c] EXCEPT !.state = "OFF_LINE", !.wait = "NONE"])
           going == Tuned(w, c, [w.ctrl[c] EXCEPT !.state = "DISCONNECTING",
                                                  !.wait = "OFF_LINE"])
           s == [W.socket[i] EXCEPT !.closing = TRUE]
           u == Marked(going, i, s)
           t == W.socket[i].tag
           v == IF i < 0 THEN Off(w)
                ELSE IF ctrl[c].state = "ONLINE" /\ Valid(W, c)
                THEN Send(u, "disconnect", i, t)
                ELSE Off(ForceCloseSocket(w, c))
<1>1. /\ posted' = posted /\ crossed' = crossed /\ RestOk'
      /\ \A d \in Ctrl : SameReading(d)
  BY CallKeeps DEF Close
<1>2. W \in Worlds /\ Books(W) /\ W.ctrl = ctrl /\ W.socket = socket
  BY WorldIs
<1>3. \A x \in Worlds :
         [x EXCEPT !.ctrl[c].state = "OFF_LINE", !.ctrl[c].wait = "NONE"] = Off(x)
  BY DEF Worlds, Tuned
<1>4. /\ r \in CtrlRec /\ r.tag = W.ctrl[c].tag /\ r.socket_id = i /\ r.auto_mode
  <2>1. W.ctrl[c] \in CtrlRec
    BY <1>2, CtrlShape
  <2> HIDE DEF W
  <2> QED BY <2>1 DEF CtrlRec
<1>5. [World EXCEPT !.ctrl[c] = [@ EXCEPT !.auto_mode = TRUE, !.need_close = FALSE,
                                          !.new_rx_flag = FALSE]] = w
  BY DEF Tuned
<1> HIDE DEF r
<1>6. /\ Step(W, w, c) /\ w \in Worlds /\ Books(w) /\ w.ctrl[c] = r /\ w.socket = W.socket
      /\ Valid(w, c) <=> Valid(W, c)
  <2> HIDE DEF W, w
  <2> QED BY <1>2, <1>4, Sets DEF w
<1> DEFINE fc == ForceCloseSocket(w, c)
<1>7. Step(W, fc, c) /\ fc \in Worlds /\ Books(fc) /\ fc.ctrl[c].auto_mode
  <2> HIDE DEF W, w
  <2>1. /\ fc \in Worlds /\ Books(fc) /\ Moves(w, fc, c) /\ fc.ctrl[c] = Forgot(w.ctrl[c])
    BY <1>6, ForceCloses
  <2>2. fc.ctrl[c].auto_mode
    BY <1>4, <1>6, <2>1 DEF Forgot, CtrlRec
  <2>3. Step(W, fc, c)
    BY <1>2, <1>6, <2>1, StepOn DEF Step
  <2> QED BY <2>1, <2>2, <2>3
<1>8. Becomes(v)
  <2>1. \/ ~ (ctrl[c].state = "ONLINE" /\ Valid(W, c))
        \/ [w EXCEPT !.ctrl[c].state = "DISCONNECTING", !.ctrl[c].wait = "OFF_LINE",
                     !.socket[i].closing = TRUE] = u
    <3> SUFFICES ASSUME Valid(W, c)
                 PROVE  [w EXCEPT !.ctrl[c].state = "DISCONNECTING",
                                  !.ctrl[c].wait = "OFF_LINE",
                                  !.socket[i].closing = TRUE] = u
      OBVIOUS
    <3> HIDE DEF W, w
    <3> QED BY <1>6 DEF Worlds, Tuned, Marked
  <2>2. /\ Off(w) = [w EXCEPT !.ctrl[c].state = "OFF_LINE", !.ctrl[c].wait = "NONE"]
        /\ Off(fc) = [fc EXCEPT !.ctrl[c].state = "OFF_LINE", !.ctrl[c].wait = "NONE"]
    <3> HIDE DEF w, Off
    <3> QED BY <1>3, <1>6, <1>7
  <2> HIDE DEF Off, w, u
  <2> QED BY <1>2, <1>5, <2>1, <2>2 DEF Close
<1> HIDE DEF W, w
<1>9. ASSUME NEW x \in Worlds, Books(x), Step(W, x, c), x.ctrl[c].auto_mode
      PROVE  /\ Step(W, Off(x), c) /\ Unused(Off(x), c) /\ Awaits(Off(x), c)
             /\ Off(x).ctrl[c].state # "ONLINE"
  <2> DEFINE q == [x.ctrl[c] EXCEPT !.state = "OFF_LINE", !.wait = "NONE"]
             y == Tuned(x, c, q)
  <2>1. /\ q \in CtrlRec /\ q.tag = x.ctrl[c].tag /\ q.socket_id = x.ctrl[c].socket_id
        /\ q.state = "OFF_LINE" /\ q.wait = "NONE" /\ q.auto_mode
    <3>1. x.ctrl[c] \in CtrlRec
      BY <1>9, CtrlShape
    <3> QED BY <1>9, <3>1 DEF CtrlRec, States, Waits
  <2> HIDE DEF q
  <2>2. Step(x, y, c) /\ y.ctrl[c] = q
    BY <1>9, <2>1, Sets
  <2> HIDE DEF y
  <2>3. Step(W, y, c)
    BY <1>2, <1>9, <2>2, StepOn
  <2>4. Unused(y, c) /\ Awaits(y, c)
    BY <2>1, <2>2 DEF Unused, Awaits
  <2> QED BY <2>1, <2>2, <2>3, <2>4 DEF y, q
<1>10. /\ Step(W, v, c) /\ Unused(v, c) /\ Awaits(v, c) /\ v.ctrl[c].state # "ONLINE"
  <2>1. CASE i < 0
    <3>1. v = Off(w) /\ w.ctrl[c].auto_mode
      BY <1>4, <1>6, <2>1
    <3> HIDE DEF v, Off
    <3> QED BY <1>6, <1>9, <3>1
  <2>2. CASE ~ (i < 0) /\ ~ (ctrl[c].state = "ONLINE" /\ Valid(W, c))
    <3>1. v = Off(fc)
      BY <2>2
    <3> HIDE DEF v, Off, fc
    <3> QED BY <1>7, <1>9, <3>1
  <2>3. CASE ~ (i < 0) /\ ctrl[c].state = "ONLINE" /\ Valid(W, c)
    <3> DEFINE q == [w.ctrl[c] EXCEPT !.state = "DISCONNECTING", !.wait = "OFF_LINE"]
               m == [kind |-> "disconnect", id |-> i, of |-> t]
    <3>1. v = Send(u, "disconnect", i, t)
      BY <2>3
    <3>2. /\ q \in CtrlRec /\ q.tag = w.ctrl[c].tag /\ q.socket_id = i
          /\ w.ctrl[c].socket_id = i
          /\ q.state = "DISCONNECTING" /\ q.wait = "OFF_LINE" /\ q.auto_mode
      <4>1. w.ctrl[c] \in CtrlRec
        BY <1>6, CtrlShape
      <4> QED BY <1>4, <1>6, <4>1 DEF CtrlRec, States, Waits
    <3>3. going = Tuned(w, c, q)
      OBVIOUS
    <3> HIDE DEF v, q, going, i, t
    <3>4. /\ Step(w, going, c) /\ going \in Worlds /\ Books(going) /\ going.ctrl[c] = q
          /\ going.socket = w.socket /\ Valid(going, c)
      BY <1>6, <2>3, <3>2, <3>3, Sets
    <3>5. /\ i \in Sockets /\ W.socket[i] \in SockRec /\ W.socket[i].in_use
          /\ ~ W.socket[i].closing /\ t = W.socket[i].tag /\ t \in Nat
      BY <1>2, <2>3, SockShape DEF Valid, i, t
    <3>6. /\ s \in SockRec /\ s.in_use = going.socket[i].in_use /\ s.tag = going.socket[i].tag
          /\ s.param = going.socket[i].param /\ s.pcb = going.socket[i].pcb
          /\ s.remote_close = going.socket[i].remote_close
          /\ s.rx = going.socket[i].rx /\ s.closing
      BY <1>6, <3>4, <3>5 DEF SockRec
    <3> HIDE DEF s, u
    <3>7. /\ u \in Worlds /\ Books(u) /\ Step(going, u, c) /\ u.ctrl = going.ctrl
          /\ u.cmds = going.cmds /\ u.socket[i] = s
      BY <3>2, <3>4, <3>6, Marks DEF u
    <3>8. m \in Commands
      BY <3>5 DEF Commands
    <3>9. Quiet(u, i, {"create", "connect", "tx"})
      <4>1. ForSocket(u) = ForSocket(going)
        BY <3>7 DEF ForSocket
      <4>2. ASSUME NEW k \in ForSocket(going), going.cmds[k].id = i
            PROVE  going.cmds[k].kind \in {"create", "connect", "tx"}
        <5>1. going.cmds[k] \in Commands /\ going.cmds[k].kind # "dns"
          BY <3>4, ShapeOf DEF ForSocket
        <5>2. going.cmds[k].kind \notin Closes
          <6>1. ~ going.socket[i].closing
            BY <1>6, <3>4, <3>5
          <6> QED BY <3>4, <4>2, <6>1 DEF Books, InTime
        <5> QED BY <5>1, <5>2 DEF Commands, Closes
      <4> QED BY <3>7, <4>1, <4>2 DEF Quiet
    <3>10. Fits(u, m)
      <4>1. /\ u.socket[i].in_use /\ u.socket[i].tag = t /\ u.socket[i].closing
        BY <1>6, <3>4, <3>5, <3>6, <3>7
      <4> QED BY <3>9, <4>1 DEF Fits
    <3>11. v \in Worlds /\ Books(v) /\ Moves(u, v, c) /\ v.ctrl = u.ctrl
      BY <3>1, <3>7, <3>8, <3>10, Sends
    <3>12. Step(W, v, c)
      <4>1. Step(W, going, c)
        BY <1>2, <1>6, <3>4, StepOn
      <4>2. Step(W, u, c)
        BY <1>2, <3>7, <4>1, StepOn
      <4> QED BY <1>2, <3>11, <4>2, StepOn DEF Step
    <3>13. v.ctrl[c] = q
      BY <3>4, <3>7, <3>11
    <3> QED BY <3>2, <3>12, <3>13 DEF Unused, Awaits
  <2> QED BY <2>1, <2>2, <2>3
<1> HIDE DEF v
<1> QED BY <1>1, <1>8, <1>10, CallInv DEF W

\* network_tx under the lock: the data is queued, or the ctrl is to be closed.
LEMMA LockedTxInv ==
    ASSUME NetInv, NEW c \in Ctrl, LockedTx(c)
    PROVE  NetInv'
<1> DEFINE W == World
           i == W.ctrl[c].socket_id
           t == W.socket[i].tag
           s == [W.socket[i] EXCEPT !.tx_head = @ + 1]
           x == Marked(W, i, s)
           r == [W.ctrl[c] EXCEPT !.tx_size = @ + 1, !.wait = "TX_OK"]
           y == Tuned(x, c, r)
           z == Send(y, "tx", i, t)
           lost == [W.ctrl[c] EXCEPT !.need_close = TRUE]
           l == Tuned(W, c, lost)
<1>0. /\ posted' = posted /\ crossed' = crossed
      /\ entered' = [entered EXCEPT ![c] = "no"] /\ entered[c] = "tx"
      /\ UNCHANGED <<dns, ready, fanout, later, heard, unanswered>>
  BY DEF LockedTx, reading
<1>1. /\ posted' = posted /\ crossed' = crossed /\ RestOk'
      /\ \A d \in Ctrl : SameReading(d)
      /\ (Word(c)' <=> Word(c)) /\ (Known(c)' <=> Known(c))
  <2>1. entered \in [Ctrl -> {"no", "connect", "tx", "rx"}]
    BY DEF NetInv, RestOk
  <2>2. RestOk'
    <3>1. \A d \in later : d # c /\ entered'[d] = "rx"
      BY <1>0 DEF NetInv, RestOk
    <3> QED BY <1>0, <3>1 DEF NetInv, RestOk
  <2>3. \A d \in Ctrl : SameReading(d)
    BY <1>0, <2>1 DEF SameReading, Sized
  <2>4. (Word(c)' <=> Word(c)) /\ (Known(c)' <=> Known(c))
    BY <1>0, <2>3, WordStays DEF Tells
  <2> QED BY <1>0, <2>2, <2>3, <2>4
<1>2. /\ W \in Worlds /\ Books(W) /\ Unused(W, c) /\ Awaits(W, c)
      /\ W.ctrl = ctrl /\ W.socket = socket /\ W.robbed = robbed
      /\ c \notin robbed \cup crossed =>
           /\ Linked(W, c, Tells(posted, c, Gone))
           /\ Announced(W, c, Word(c), Known(c))
  BY WorldIs
<1>3. Becomes(l) \/ (Valid(W, c) /\ Becomes(z))
  <2>1. Valid(W, c) => [World EXCEPT !.socket[i].tx_head = @ + 1, !.ctrl[c].tx_size = @ + 1,
                                     !.ctrl[c].wait = "TX_OK"] = y
    <3> SUFFICES ASSUME Valid(W, c)
                 PROVE  [W EXCEPT !.socket[i].tx_head = @ + 1, !.ctrl[c].tx_size = @ + 1,
                                  !.ctrl[c].wait = "TX_OK"] = y
      OBVIOUS
    <3> HIDE DEF W
    <3> QED BY <1>2, ZenonT(60) DEF Worlds, Tuned, Marked
  <2>2. [World EXCEPT !.ctrl[c].need_close = TRUE] = l
    BY DEF Tuned
  <2> HIDE DEF y, l
  <2> QED BY <1>2, <2>1, <2>2 DEF LockedTx
<1> HIDE DEF W
<1>4. W.ctrl[c] \in CtrlRec
  BY <1>2, CtrlShape
<1>5. CASE Becomes(l)
  <2>1. /\ lost \in CtrlRec /\ lost.tag = W.ctrl[c].tag /\ lost.socket_id = i
        /\ lost.auto_mode = W.ctrl[c].auto_mode /\ lost.state = W.ctrl[c].state
        /\ lost.wait = W.ctrl[c].wait /\ lost.need_close
        /\ lost.new_rx_flag = W.ctrl[c].new_rx_flag
    BY <1>4 DEF CtrlRec
  <2> HIDE DEF lost
  <2>2. /\ Step(W, l, c) /\ l.ctrl[c] = lost /\ l.robbed = W.robbed
        /\ Valid(l, c) <=> Valid(W, c)
    BY <1>2, <2>1, Sets
  <2> HIDE DEF l
  <2>3. Unused(l, c) /\ Awaits(l, c)
    BY <1>2, <2>1, <2>2 DEF Unused, Awaits
  <2>4. /\ Linked(l, c, Tells(posted, c, Gone))
        /\ Announced(l, c, Word(c)', Known(c)')
    BY <2>1, <2>2 DEF Linked, Announced
  <2> QED BY <1>1, <1>5, <2>2, <2>3, <2>4, CallInv DEF W
<1>6. CASE Valid(W, c) /\ Becomes(z)
  <2> DEFINE m == [kind |-> "tx", id |-> i, of |-> t]
  <2>1. /\ i \in Sockets /\ W.socket[i] \in SockRec /\ W.socket[i].in_use
        /\ ~ W.socket[i].closing /\ W.socket[i].tag \in Nat
    BY <1>2, <1>6, SockShape DEF Valid
  <2>2. /\ s \in SockRec /\ s.in_use = W.socket[i].in_use /\ s.tag = W.socket[i].tag
        /\ s.param = W.socket[i].param /\ s.pcb = W.socket[i].pcb
        /\ s.remote_close = W.socket[i].remote_close
        /\ s.rx = W.socket[i].rx /\ s.closing = W.socket[i].closing
    <3> DEFINE o == W.socket[i]
    <3>1. o \in SockRec /\ s = [o EXCEPT !.tx_head = o.tx_head + 1]
      BY <2>1
    <3> HIDE DEF o, s
    <3>2. o.tx_head \in Nat
      BY <3>1 DEF SockRec
    <3>3. o.tx_head + 1 \in Nat
      BY <3>2
    <3>4. /\ s \in SockRec /\ s.in_use = o.in_use /\ s.tag = o.tag /\ s.param = o.param
          /\ s.pcb = o.pcb /\ s.remote_close = o.remote_close /\ s.rx = o.rx
          /\ s.closing = o.closing
      BY <3>1, <3>3 DEF SockRec
    <3> QED BY <3>4 DEF o
  <2>3. /\ r \in CtrlRec /\ r.tag = W.ctrl[c].tag /\ r.socket_id = i
        /\ r.auto_mode = W.ctrl[c].auto_mode /\ r.state = W.ctrl[c].state
        /\ r.wait = "TX_OK" /\ r.need_close = W.ctrl[c].need_close
        /\ r.new_rx_flag = W.ctrl[c].new_rx_flag
    <3> DEFINE o == W.ctrl[c]
    <3>1. o \in CtrlRec /\ r = [o EXCEPT !.tx_size = o.tx_size + 1, !.wait = "TX_OK"]
      BY <1>4
    <3> HIDE DEF o, r
    <3>2. o.tx_size \in Nat
      BY <3>1 DEF CtrlRec
    <3>3. o.tx_size + 1 \in Nat
      BY <3>2
    <3>4. /\ r \in CtrlRec /\ r.tag = o.tag /\ r.socket_id = o.socket_id
          /\ r.auto_mode = o.auto_mode /\ r.state = o.state
          /\ r.wait = "TX_OK" /\ r.need_close = o.need_close
          /\ r.new_rx_flag = o.new_rx_flag
      BY <3>1, <3>3 DEF CtrlRec, Waits
    <3> QED BY <3>4 DEF o
  <2> HIDE DEF s, r, i, t
  <2>4. /\ x \in Worlds /\ Books(x) /\ Step(W, x, c) /\ x.ctrl = W.ctrl
        /\ x.cmds = W.cmds /\ x.robbed = W.robbed /\ x.socket[i] = s
    BY <1>2, <1>6, <2>2, Marks DEF i
  <2> HIDE DEF x
  <2>5. /\ Step(x, y, c) /\ y \in Worlds /\ Books(y) /\ y.ctrl[c] = r
        /\ y.socket = x.socket /\ y.robbed = x.robbed
    BY <2>3, <2>4, Sets DEF i
  <2>6. y.cmds = x.cmds
    BY <2>4 DEF Tuned, Worlds
  <2> HIDE DEF y
  <2>7. m \in Commands
    BY <2>1 DEF Commands, t
  <2>8. Fits(y, m)
    <3>1. y.socket[i].in_use /\ y.socket[i].tag = t /\ ~ y.socket[i].closing
      BY <2>1, <2>2, <2>4, <2>5 DEF t
    <3>2. ASSUME NEW k \in ForSocket(y), y.cmds[k].id = i
          PROVE  y.cmds[k].kind \in {"create", "connect", "tx"}
      <4>1. y.cmds[k] \in Commands /\ y.cmds[k].kind # "dns"
        BY <2>5, ShapeOf DEF ForSocket
      <4>2. y.cmds[k].kind \notin Closes
        BY <2>5, <3>1, <3>2 DEF Books, InTime
      <4> QED BY <4>1, <4>2 DEF Commands, Closes
    <3> QED BY <3>1, <3>2 DEF Fits, Quiet, Closes
  <2>9. /\ z \in Worlds /\ Books(z) /\ Moves(y, z, c) /\ z.ctrl = y.ctrl
        /\ z.socket = y.socket /\ z.robbed = y.robbed
    BY <2>5, <2>7, <2>8, Sends
  <2> HIDE DEF z
  <2>10. Step(W, z, c)
    <3>1. Step(W, y, c)
      BY <1>2, <2>4, <2>5, StepOn
    <3> QED BY <1>2, <2>9, <3>1, StepOn DEF Step
  <2>11. z.ctrl[c] = r /\ z.socket[i] = s /\ z.robbed = W.robbed
    BY <2>4, <2>5, <2>9
  <2>12. Valid(z, c)
    BY <1>6, <2>1, <2>2, <2>3, <2>11 DEF Valid, i
  <2>13. Unused(z, c) /\ Awaits(z, c)
    <3>1. W.ctrl[c].auto_mode
      <4>1. -1 \notin Sockets
        BY SockAssumption DEF Sockets
      <4> QED BY <1>2, <2>1, <4>1 DEF Unused, i
    <3> QED BY <2>3, <2>11, <3>1 DEF Unused, Awaits
  <2>14. c \notin z.robbed \cup crossed =>
           /\ Linked(z, c, Tells(posted, c, Gone))
           /\ Announced(z, c, Word(c)', Known(c)')
    BY <1>1, <1>2, <1>6, <2>2, <2>3, <2>11, <2>12 DEF Linked, Announced, i
  <2> QED BY <1>1, <1>6, <2>10, <2>13, <2>14, CallInv DEF W
<1> QED BY <1>3, <1>5, <1>6

\* The checks before the lock leave everything as it is.
LEMMA EnterInv ==
    ASSUME NetInv, NEW c \in Ctrl, EnterConnect(c) \/ EnterTx(c)
    PROVE  NetInv'
<1>1. /\ World' = World /\ posted' = posted /\ crossed' = crossed
      /\ dns' = dns /\ ready' = ready /\ fanout' = fanout
      /\ later' = later /\ heard' = heard /\ unanswered' = unanswered
  BY DEF EnterConnect, EnterTx, Enter, World, reading
<1>2. /\ entered \in [Ctrl -> {"no", "connect", "tx", "rx"}] /\ entered[c] = "no"
      /\ entered' = [entered EXCEPT ![c] = "connect"]
         \/ entered' = [entered EXCEPT ![c] = "tx"]
  BY DEF EnterConnect, EnterTx, Enter, NetInv, RestOk
<1>3. RestOk'
  <2>1. \A d \in later : d # c /\ entered'[d] = "rx"
    BY <1>2 DEF NetInv, RestOk
  <2> QED BY <1>1, <1>2, <2>1 DEF NetInv, RestOk
<1>4. \A d \in Ctrl : SameReading(d)
  BY <1>1, <1>2 DEF SameReading, Sized
<1> QED BY <1>1, <1>3, <1>4, RestInv
----------------------------------------------------------------------------
\* The tcpip thread

\* A change of the link is known before any ctrl is told.
LEMMA LinkChangeInv ==
    ASSUME NetInv, LinkChange
    PROVE  NetInv'
<1>1. /\ World' = World /\ posted' = posted /\ crossed' = crossed
  BY DEF LinkChange, World
<1>2. RestOk'
  BY DEF LinkChange, reading, NetInv, RestOk
<1>3. \A c \in Ctrl : SameReading(c)
  BY DEF LinkChange, reading, SameReading, Sized
<1> QED BY <1>1, <1>2, <1>3, RestInv

\* A question that is dropped is nobody's news.
LEMMA DnsDropsInv ==
    ASSUME NetInv, DnsDrops
    PROVE  NetInv'
<1>1. World' = World /\ posted' = posted /\ crossed' = crossed
  BY DEF DnsDrops, World
<1>2. RestOk'
  <2>1. PICK q \in dns : /\ dns' = dns \ {q}
                         /\ unanswered' \in {unanswered, unanswered \cup {q.to}}
    BY DEF DnsDrops
  <2>2. q.to \in Ctrl
    BY DEF NetInv, RestOk
  <2> QED BY <2>1, <2>2 DEF DnsDrops, reading, NetInv, RestOk
<1>3. \A c \in Ctrl : SameReading(c)
  BY DEF DnsDrops, reading, SameReading, Sized
<1> QED BY <1>1, <1>2, <1>3, RestInv

\* The answer to a question is for the tag that the ctrl has then.
LEMMA DnsResultInv ==
    ASSUME NetInv, DnsResult
    PROVE  NetInv'
<1>1. World' = World /\ crossed' = crossed /\ posted = None
  BY DEF DnsResult, World, Free
<1>2. RestOk'
  BY DEF DnsResult, reading, NetInv, RestOk
<1>4. \A c \in Ctrl : SameReading(c)
  BY DEF DnsResult, reading, SameReading, Sized
<1>3. Timely(World, posted')
  <2>1. PICK q \in dns, n \in 0 .. MaxIp :
          posted' = IF ctrl[q.to].wait = "ON_LINE" /\ ctrl[q.to].auto_mode
                    THEN [to |-> q.to, tag |-> ctrl[q.to].tag,
                          event |-> [Event("DNS_RESULT") EXCEPT
                                       !.ips = n, !.name = q.name]]
                    ELSE None
    BY DEF DnsResult
  <2> DEFINE e == [Event("DNS_RESULT") EXCEPT !.ips = n, !.name = q.name]
             c == q.to
  <2>2. c \in Ctrl /\ q.name \in Names
    BY DEF NetInv, RestOk
  <2>3. e \in Events /\ e.id = "DNS_RESULT"
    BY <2>2 DEF Event, Events
  <2>4. ctrl[c].tag \in Nat /\ ctrl[c].tag <= World.socket_tag
    <3>1. World \in Worlds /\ Tagged(World) /\ World.ctrl = ctrl
      BY DEF NetInv, Books, World
    <3> QED BY <2>2, <3>1, CtrlShape DEF Tagged
  <2> HIDE DEF e, c
  <2>5. CASE posted' = None
    BY <2>5 DEF Timely
  <2>6. CASE posted' = [to |-> c, tag |-> ctrl[c].tag, event |-> e]
    <3>1. posted' \in Posts /\ posted'.tag <= World.socket_tag
      BY <2>2, <2>3, <2>4, <2>6 DEF Posts
    <3>2. posted'.event.id # "CONNECT_OK"
      BY <2>3, <2>6
    <3> QED BY <3>1, <3>2 DEF Timely
  <2> QED BY <2>1, <2>5, <2>6 DEF c, e
<1> QED BY <1>1, <1>2, <1>3, <1>4, RestInv

\* The rest of a sequence.
LEMMA TailOf ==
    ASSUME NEW S, NEW p \in Seq(S), p # <<>>
    PROVE  /\ p[1] \in S /\ 1 \in DOMAIN p /\ Tail(p) \in Seq(S)
           /\ Len(p) \in Nat /\ DOMAIN p = 1 .. Len(p)
           /\ DOMAIN Tail(p) = 1 .. Len(p) - 1
           /\ \A k \in DOMAIN Tail(p) : k + 1 \in DOMAIN p /\ Tail(p)[k] = p[k + 1]
  OBVIOUS

Popped(w) == [w EXCEPT !.cmds = Tail(@)]

\* The first command is taken out; those behind it were behind it.
LEMMA Pops ==
    ASSUME NEW w \in Worlds, Books(w), w.cmds # <<>>, NEW v, v = Popped(w)
    PROVE  /\ v \in Worlds /\ Books(v) /\ w.cmds[1] \in Commands /\ 1 \in DOMAIN w.cmds
           /\ v.ctrl = w.ctrl /\ v.socket = w.socket /\ v.socket_tag = w.socket_tag
           /\ v.robbed = w.robbed
           /\ \A k \in ForSocket(v) : /\ k + 1 \in ForSocket(w) /\ k + 1 > 1
                                      /\ v.cmds[k] = w.cmds[k + 1]
<1>1. /\ w.cmds \in Seq(Commands) /\ w.cmds[1] \in Commands /\ 1 \in DOMAIN w.cmds
      /\ DOMAIN w.cmds = 1 .. Len(w.cmds) /\ Len(w.cmds) \in Nat
      /\ Tail(w.cmds) \in Seq(Commands)
      /\ DOMAIN Tail(w.cmds) = 1 .. Len(w.cmds) - 1
      /\ \A k \in DOMAIN Tail(w.cmds) :
            k + 1 \in DOMAIN w.cmds /\ Tail(w.cmds)[k] = w.cmds[k + 1]
  BY ShapeOf, TailOf
<1>2. /\ v \in Worlds /\ v.ctrl = w.ctrl /\ v.socket = w.socket
      /\ v.socket_tag = w.socket_tag /\ v.robbed = w.robbed /\ v.cmds = Tail(w.cmds)
  BY <1>1 DEF Worlds, Popped
<1>3. \A k \in ForSocket(v) : /\ k \in Int /\ k + 1 \in ForSocket(w) /\ k + 1 > 1
                               /\ v.cmds[k] = w.cmds[k + 1]
  BY <1>1, <1>2 DEF ForSocket
<1>4. \A j, k \in ForSocket(v) : (j > k <=> j + 1 > k + 1) /\ (j = k <=> j + 1 = k + 1)
  BY <1>3
<1>5. Tagged(v) /\ Idle(v) /\ Owned(v)
  <2>1. Tagged(v)
    BY <1>2 DEF Books, Tagged
  <2>2. Idle(v) /\ Owned(v)
    BY <1>2 DEF Books, Idle, Owned
  <2> QED BY <2>1, <2>2
<1>6. InTime(v)
  <2> SUFFICES ASSUME NEW k \in ForSocket(v)
               PROVE  LET m == v.cmds[k]
                      IN  /\ v.socket[m.id].in_use /\ v.socket[m.id].tag = m.of
                          /\ m.kind \in Closes =>
                               /\ v.socket[m.id].closing
                               /\ \A j \in ForSocket(v) : j > k => v.cmds[j].id # m.id
    BY DEF InTime
  <2>1. k + 1 \in ForSocket(w) /\ v.cmds[k] = w.cmds[k + 1]
    BY <1>3
  <2>2. LET m == w.cmds[k + 1]
        IN  /\ w.socket[m.id].in_use /\ w.socket[m.id].tag = m.of
            /\ m.kind \in Closes =>
                 /\ w.socket[m.id].closing
                 /\ \A j \in ForSocket(w) : j > k + 1 => w.cmds[j].id # m.id
    BY <2>1 DEF Books, InTime
  <2>3. ASSUME v.cmds[k].kind \in Closes, NEW j \in ForSocket(v), j > k
        PROVE  v.cmds[j].id # v.cmds[k].id
    <3>1. j + 1 \in ForSocket(w) /\ j + 1 > k + 1 /\ v.cmds[j] = w.cmds[j + 1]
      BY <1>3, <1>4, <2>3
    <3> QED BY <2>1, <2>2, <2>3, <3>1
  <2> QED BY <1>2, <2>1, <2>2, <2>3
<1>7. Births(v)
  <2>1. ASSUME NEW k \in ForSocket(v)
        PROVE  LET m == v.cmds[k]
                   s == v.socket[m.id]
               IN  /\ m.kind = "create" => s.pcb = "none" /\ ~ s.remote_close /\ ~ s.rx
                   /\ m.kind = "connect" => /\ s.pcb \in {"none", "new"} /\ ~ s.rx
                                            /\ s.pcb = "new" => ~ s.remote_close
                   /\ m.kind \in {"create", "connect"} => \A j \in ForSocket(v) :
                        v.cmds[j].kind = m.kind /\ v.cmds[j].id = m.id => j = k
    <3>1. k + 1 \in ForSocket(w) /\ v.cmds[k] = w.cmds[k + 1]
      BY <1>3
    <3>2. LET m == w.cmds[k + 1]
              s == w.socket[m.id]
          IN  /\ m.kind = "create" => s.pcb = "none" /\ ~ s.remote_close /\ ~ s.rx
              /\ m.kind = "connect" => /\ s.pcb \in {"none", "new"} /\ ~ s.rx
                                       /\ s.pcb = "new" => ~ s.remote_close
              /\ m.kind \in {"create", "connect"} => \A j \in ForSocket(w) :
                   w.cmds[j].kind = m.kind /\ w.cmds[j].id = m.id => j = k + 1
      BY <3>1 DEF Books, Births
    <3> QED BY <1>2, <1>3, <1>4, <3>1, <3>2
  <2>2. \A i \in Sockets : /\ v.socket[i].pcb \in {"new", "connecting"} => ~ v.socket[i].rx
                           /\ v.socket[i].pcb = "connecting" => ~ v.socket[i].remote_close
    BY <1>2 DEF Books, Births
  <2> QED BY <2>1, <2>2 DEF Births
<1>8. Books(v)
  BY <1>5, <1>6, <1>7 DEF Books
<1> QED BY <1>1, <1>2, <1>3, <1>8

\* What the tcpip thread may make of socket i.
Becoming(w, i, s) ==
    LET o == w.socket[i]
    IN  /\ s.tag = o.tag
        /\ \/ s.in_use = o.in_use /\ s.closing = o.closing /\ s.param = o.param
           \/ ~ s.in_use /\ o.closing /\ Quiet(w, i, {})
        /\ ~ s.in_use => ~ s.closing /\ ~ s.remote_close /\ s.pcb = "none"
        /\ s.pcb \in {"new", "connecting"} => ~ s.rx
        /\ s.pcb = "connecting" => ~ s.remote_close
        /\ \A k \in ForSocket(w) : w.cmds[k].id = i =>
              /\ w.cmds[k].kind = "create" =>
                    s.pcb = "none" /\ ~ s.remote_close /\ ~ s.rx
              /\ w.cmds[k].kind = "connect" =>
                    /\ s.pcb \in {"none", "new"} /\ ~ s.rx
                    /\ s.pcb = "new" => ~ s.remote_close

\* What the tcpip thread makes of a socket keeps the books.
LEMMA Serves ==
    ASSUME NEW w \in Worlds, Books(w), NEW i \in Sockets, NEW s \in SockRec,
           Becoming(w, i, s), NEW v, v = Marked(w, i, s)
    PROVE  /\ v \in Worlds /\ Books(v) /\ v.ctrl = w.ctrl /\ v.robbed = w.robbed
           /\ v.socket_tag = w.socket_tag /\ v.socket[i] = s
           /\ \A j \in Sockets \ {i} : v.socket[j] = w.socket[j]
<1>1. /\ v \in Worlds /\ v.ctrl = w.ctrl /\ v.cmds = w.cmds /\ v.robbed = w.robbed
      /\ v.socket_tag = w.socket_tag /\ v.socket[i] = s
      /\ \A j \in Sockets \ {i} : v.socket[j] = w.socket[j]
  BY DEF Worlds, Marked
<1>2. ForSocket(v) = ForSocket(w) /\ \A k \in ForSocket(w) : w.cmds[k].id \in Sockets
  <2>1. \A k \in ForSocket(w) : w.cmds[k] \in Commands /\ w.cmds[k].kind # "dns"
    BY ShapeOf DEF ForSocket
  <2> QED BY <1>1, <2>1 DEF ForSocket, Commands
<1>3. \A j \in Sockets : v.socket[j].tag = w.socket[j].tag
  BY <1>1 DEF Becoming
<1>4. \A j \in Sockets : v.socket[j].in_use /\ ~ v.socket[j].closing =>
         /\ w.socket[j].in_use /\ ~ w.socket[j].closing
         /\ v.socket[j].param = w.socket[j].param
  BY <1>1 DEF Becoming
<1>5. \A j \in Sockets : v.socket[j].in_use => w.socket[j].in_use
  BY <1>1 DEF Becoming
<1>6. Tagged(v)
  BY <1>1, <1>3, <1>5 DEF Books, Tagged
<1>7. Idle(v)
  BY <1>1 DEF Books, Idle, Becoming
<1>8. Owned(v)
  BY <1>1, <1>3, <1>4 DEF Books, Owned
<1>9. InTime(v)
  <2>1. \A k \in ForSocket(w) :
           /\ v.socket[w.cmds[k].id].in_use = w.socket[w.cmds[k].id].in_use
           /\ v.socket[w.cmds[k].id].closing = w.socket[w.cmds[k].id].closing
    BY <1>1, <1>2 DEF Becoming, Quiet
  <2> QED BY <1>1, <1>2, <1>3, <2>1 DEF Books, InTime
<1>10. Births(v)
  <2>1. ASSUME NEW k \in ForSocket(w)
        PROVE  LET m == w.cmds[k]
                   t == v.socket[m.id]
               IN  /\ m.kind = "create" => t.pcb = "none" /\ ~ t.remote_close /\ ~ t.rx
                   /\ m.kind = "connect" => /\ t.pcb \in {"none", "new"} /\ ~ t.rx
                                            /\ t.pcb = "new" => ~ t.remote_close
                   /\ m.kind \in {"create", "connect"} => \A j \in ForSocket(w) :
                        w.cmds[j].kind = m.kind /\ w.cmds[j].id = m.id => j = k
    <3>1. LET m == w.cmds[k]
              t == w.socket[m.id]
          IN  /\ m.kind = "create" => t.pcb = "none" /\ ~ t.remote_close /\ ~ t.rx
              /\ m.kind = "connect" => /\ t.pcb \in {"none", "new"} /\ ~ t.rx
                                       /\ t.pcb = "new" => ~ t.remote_close
              /\ m.kind \in {"create", "connect"} => \A j \in ForSocket(w) :
                   w.cmds[j].kind = m.kind /\ w.cmds[j].id = m.id => j = k
      BY DEF Books, Births
    <3>2. CASE w.cmds[k].id = i
      BY <1>1, <3>1, <3>2 DEF Becoming
    <3>3. CASE w.cmds[k].id # i
      BY <1>1, <1>2, <3>1, <3>3
    <3> QED BY <3>2, <3>3
  <2>2. \A j \in Sockets : /\ v.socket[j].pcb \in {"new", "connecting"} => ~ v.socket[j].rx
                           /\ v.socket[j].pcb = "connecting" => ~ v.socket[j].remote_close
    BY <1>1 DEF Books, Births, Becoming
  <2> QED BY <1>1, <1>2, <2>1, <2>2, SMTT(60) DEF Births
<1> QED BY <1>1, <1>6, <1>7, <1>8, <1>9, <1>10 DEF Books

\* What event id (or none) says of a socket that has become s.
Good(s) == s.pcb = "open" /\ ~ s.remote_close

News(o, s, id) ==
    /\ id \in Gone \cup {"STATE", "DNS_RESULT", "CONNECT_OK", "RX_NEW", "TX_OK", "NONE"}
    /\ o.in_use /\ ~ o.closing =>
          /\ id \notin Gone /\ Good(o) => Good(s)
          /\ id # "RX_NEW" /\ s.rx => o.rx
    /\ id = "CONNECT_OK" => Good(s) /\ ~ s.rx

\* Event id (or none) of socket i is all that the socket.rx calls may notice.
LaterOf(i, id) ==
    /\ entered' = entered /\ heard' = heard
    /\ \/ later' = later
       \/ /\ id = "RX_NEW"
          /\ later' = later \cup {c \in Ctrl : Sized(c) /\ ctrl[c].socket_id = i}

\* The tcpip thread changes one socket, and tells its ctrl what it has to know.
LEMMA SocketInv ==
    ASSUME NetInv, posted = None, NEW i \in Sockets, NEW s \in SockRec,
           NEW u, u = World \/ (World.cmds # <<>> /\ u = Popped(World)),
           Becoming(u, i, s), World' = Marked(u, i, s), crossed' = crossed, RestOk',
           NEW id, News(socket[i], s, id),
           (id = "NONE" /\ posted' = None) \/ (id # "NONE" /\ RaiseOf(i, id)),
           LaterOf(i, id)
    PROVE  NetInv'
<1> DEFINE W == World
           v == World'
           o == W.socket[i]
<1>1. /\ W \in Worlds /\ Books(W) /\ W.ctrl = ctrl /\ W.socket = socket /\ W.robbed = robbed
      /\ \A c \in Ctrl : Unused(W, c) /\ Awaits(W, c)
  BY DEF NetInv, World
<1>2. \A c \in Ctrl \ (robbed \cup crossed) :
         Linked(W, c, FALSE) /\ Announced(W, c, Word(c), Known(c))
  <2>1. \A c \in Ctrl \ (robbed \cup crossed) :
           /\ Linked(W, c, Tells(posted, c, Gone))
           /\ Announced(W, c, Word(c), Known(c))
    BY DEF NetInv, OnLineOk
  <2>2. \A c \in Ctrl : Tells(posted, c, Gone) = FALSE
    BY DEF Tells
  <2> HIDE DEF W
  <2> QED BY <2>1, <2>2
<1>3. /\ u \in Worlds /\ Books(u) /\ u.ctrl = W.ctrl /\ u.socket = W.socket
      /\ u.robbed = W.robbed /\ u.socket_tag = W.socket_tag
  <2> HIDE DEF W
  <2>1. u = W \/ (W.cmds # <<>> /\ u = Popped(W))
    BY DEF W
  <2> QED BY <1>1, <2>1, Pops
<1>4. v = Marked(u, i, s)
  OBVIOUS
<1>5. robbed' = v.robbed /\ crossed' = crossed
  BY DEF World
<1> HIDE DEF W, v
<1>6. /\ v \in Worlds /\ Books(v) /\ v.ctrl = W.ctrl /\ v.robbed = W.robbed
      /\ v.socket_tag = W.socket_tag /\ v.socket[i] = s
      /\ \A j \in Sockets \ {i} : v.socket[j] = W.socket[j]
  BY <1>3, <1>4, Serves
<1>7. /\ s.tag = o.tag
      /\ \/ s.in_use = o.in_use /\ s.closing = o.closing
         \/ ~ s.in_use /\ o.closing
  BY <1>3 DEF Becoming
<1>8. \A c \in Ctrl : Valid(v, c) <=> Valid(W, c)
  BY <1>6, <1>7 DEF Valid
<1>9. \A c \in Ctrl : Unused(v, c) /\ Awaits(v, c)
  BY <1>1, <1>6, <1>8 DEF Unused, Awaits
<1>20. ASSUME NEW c \in Ctrl
       PROVE  /\ (id # "RX_NEW" \/ ctrl[c].socket_id # i) /\ Word(c) => Word(c)'
              /\ (id # "RX_NEW" \/ ctrl[c].socket_id # i) /\ Known(c) => Known(c)'
              /\ Tells(posted', c, {"RX_NEW"}) => Word(c)' /\ Known(c)'
  <2>1. /\ Sized(c)' <=> Sized(c)
        /\ c \in heard' <=> c \in heard
        /\ id # "RX_NEW" \/ ctrl[c].socket_id # i => (c \in later' <=> c \in later)
    BY DEF LaterOf, Sized
  <2>2. Heard(c) => Heard(c)'
    BY <2>1 DEF Heard, Tells
  <2>3. Tells(posted', c, {"RX_NEW"}) => Heard(c)'
    BY DEF Heard
  <2> QED BY <2>1, <2>2, <2>3 DEF Word, Known
<1> DEFINE p == posted'
<1>10. p = IF id # "NONE" /\ o.param \in Ctrl /\ W.ctrl[o.param].tag = o.tag
                  /\ W.ctrl[o.param].auto_mode
           THEN [to |-> o.param, tag |-> o.tag, event |-> Event(id)] ELSE None
  BY <1>1 DEF RaiseOf, Raise
<1>11. News(o, s, id)
  BY <1>1
<1> HIDE DEF p, o
<1>12. o.tag \in Nat /\ o.tag <= W.socket_tag
  BY <1>1, SockShape DEF Books, Tagged, o
<1>13. ASSUME p # None
       PROVE  /\ p \in Posts /\ p.to = o.param /\ p.tag = o.tag /\ p.event.id = id
              /\ id # "NONE"
  <2>1. Event(id) \in Events /\ Event(id).id = id
    <3>1. id \in Gone \cup {"STATE", "DNS_RESULT", "CONNECT_OK", "RX_NEW", "TX_OK"}
      BY <1>10, <1>11, <1>13 DEF News
    <3>2. 0 \in 0 .. MaxIp
      BY SockAssumption
    <3> QED BY <3>1, <3>2 DEF Event, Events
  <2>2. /\ p = [to |-> o.param, tag |-> o.tag, event |-> Event(id)]
        /\ o.param \in Ctrl /\ id # "NONE"
    BY <1>10, <1>13
  <2> QED BY <1>12, <2>1, <2>2 DEF Posts
<1>14. Timely(v, p)
  <2> SUFFICES ASSUME p # None PROVE Timely(v, p)
    BY DEF Timely
  <2> DEFINE c == p.to
  <2>1. /\ p \in Posts /\ c \in Ctrl /\ p.tag = o.tag /\ p.event.id = id
        /\ p.tag <= v.socket_tag
    BY <1>6, <1>12, <1>13 DEF Posts
  <2>2. ASSUME id = "CONNECT_OK", p.tag = v.ctrl[c].tag, Valid(v, c)
        PROVE  v.ctrl[c].socket_id = i
    <3> DEFINE j == v.ctrl[c].socket_id
    <3>1. j \in Sockets /\ v.socket[j].tag = v.socket[i].tag /\ v.ctrl[c].tag > 0
      BY <1>6, <1>7, <2>1, <2>2, ValidIsOwn
    <3>2. v.socket[i].tag # 0
      BY <1>6, <1>7, <2>1, <2>2, <3>1
    <3>3. \A k \in Sockets : v.socket[k].tag = v.socket[i].tag => k = i \/ v.socket[k].tag = 0
      BY <1>6 DEF Books, Tagged
    <3> QED BY <3>1, <3>2, <3>3
  <2>3. id = "CONNECT_OK" => Good(s) /\ ~ s.rx
    BY <1>11 DEF News
  <2> HIDE DEF c
  <2>4. id = "CONNECT_OK" /\ p.tag = v.ctrl[c].tag /\ Valid(v, c) =>
           LET t == v.socket[v.ctrl[c].socket_id]
           IN  t.pcb = "open" /\ ~ t.remote_close /\ ~ t.rx
    BY <1>6, <2>2, <2>3 DEF Good
  <2> QED BY <2>1, <2>4 DEF Timely, c
<1>15. ASSUME NEW c \in Ctrl, Valid(W, c), W.ctrl[c].socket_id = i,
              W.ctrl[c].state = "ONLINE", id # "NONE"
       PROVE  p # None /\ p.to = c /\ p.event.id = id
  <2>1. o.param = c /\ W.ctrl[c].tag = o.tag
    BY <1>1, <1>15, ValidIsOwn DEF o
  <2>2. W.ctrl[c].auto_mode
    BY <1>1, <1>15 DEF Unused
  <2>3. p = [to |-> c, tag |-> o.tag, event |-> Event(id)]
    BY <1>10, <1>15, <2>1, <2>2
  <2>4. p \in Posts
    <3>1. Event(id) \in Events
      <4>1. id \in Gone \cup {"STATE", "DNS_RESULT", "CONNECT_OK", "RX_NEW", "TX_OK"}
        BY <1>11, <1>15 DEF News
      <4>2. 0 \in 0 .. MaxIp
        BY SockAssumption
      <4> QED BY <4>1, <4>2 DEF Event, Events
    <3> QED BY <1>12, <2>3, <3>1 DEF Posts
  <2>5. p # None
    BY <2>4, PostAssumption
  <2> QED BY <1>13, <2>3, <2>5
<1>16. ASSUME NEW c \in Ctrl \ (robbed \cup crossed)
       PROVE  /\ Linked(v, c, Tells(p, c, Gone))
              /\ Announced(v, c, Word(c)', Known(c)')
  <2>1. Linked(W, c, FALSE) /\ Announced(W, c, Word(c), Known(c))
    BY <1>2
  <2>2. Valid(v, c) <=> Valid(W, c)
    BY <1>8
  <2>3. ASSUME Valid(W, c), W.ctrl[c].state = "ONLINE", W.ctrl[c].socket_id = i
        PROVE  /\ Good(o) => Good(s) \/ Tells(p, c, Gone)
               /\ id # "RX_NEW" /\ s.rx => o.rx
               /\ id = "RX_NEW" => Word(c)' /\ Known(c)'
    <3>1. o.in_use /\ ~ o.closing
      BY <2>3 DEF Valid, o
    <3>2. id \in Gone => Tells(p, c, Gone)
      BY <1>15, <2>3 DEF Tells, Gone
    <3>3. id = "RX_NEW" => Tells(posted', c, {"RX_NEW"})
      BY <1>15, <2>3 DEF Tells, p
    <3>4. id = "RX_NEW" => Word(c)' /\ Known(c)'
      BY <1>20, <3>3
    <3> QED BY <1>11, <3>1, <3>2, <3>4 DEF News
  <2>4. Valid(W, c) => W.ctrl[c].socket_id \in Sockets
    BY DEF Valid
  <2>5. Linked(v, c, Tells(p, c, Gone))
    BY <1>6, <2>1, <2>2, <2>3, <2>4 DEF Linked, Good, o
  <2> DEFINE word == Word(c)'
             known == Known(c)'
  <2>7. W.ctrl[c].socket_id # i \/ id # "RX_NEW" =>
           (Word(c) => word) /\ (Known(c) => known)
    BY <1>1, <1>20
  <2>8. /\ Valid(W, c) /\ W.ctrl[c].state = "ONLINE" /\ W.ctrl[c].socket_id = i =>
              /\ id # "RX_NEW" /\ s.rx => o.rx
              /\ id = "RX_NEW" => word /\ known
    BY <2>3
  <2> HIDE DEF word, known
  <2>6. Announced(v, c, word, known)
    <3> SUFFICES ASSUME v.ctrl[c].state = "ONLINE", ~ v.ctrl[c].need_close, Valid(v, c),
                        v.socket[v.ctrl[c].socket_id].rx
                 PROVE  (v.ctrl[c].new_rx_flag \/ word) /\ known
      BY DEF Announced
    <3>1. CASE W.ctrl[c].socket_id # i
      BY <1>6, <2>1, <2>2, <2>4, <2>7, <3>1 DEF Announced
    <3>2. CASE W.ctrl[c].socket_id = i /\ id # "RX_NEW"
      BY <1>6, <2>1, <2>2, <2>7, <2>8, <3>2 DEF Announced, o
    <3>3. CASE W.ctrl[c].socket_id = i /\ id = "RX_NEW"
      BY <1>6, <2>2, <2>8, <3>3
    <3> QED BY <3>1, <3>2, <3>3
  <2> QED BY <2>5, <2>6 DEF word, known
<1>17. OnLineOk'
  <2>1. robbed' = robbed /\ crossed' = crossed
    BY <1>1, <1>5, <1>6
  <2> QED BY <1>16, <2>1 DEF OnLineOk, v, p
<1>18. World' \in Worlds /\ Books(World')
       /\ \A c \in Ctrl : Unused(World', c) /\ Awaits(World', c)
  BY <1>6, <1>9 DEF v
<1>19. Timely(World', posted')
  BY <1>14 DEF v, p
<1> QED BY <1>17, <1>18, <1>19 DEF NetInv

\* The mailbox without its first command.
LEMMA PoppedIs ==
    Popped(World) = [ctrl |-> ctrl, socket |-> socket, cmds |-> Tail(cmds), next |-> next,
                     socket_tag |-> socket_tag, robbed |-> robbed, stuck |-> stuck,
                     new |-> "later"]
<1>1. World.cmds = cmds
  BY DEF World
<1>2. Popped(World) = [World EXCEPT !.cmds = Tail(cmds)]
  BY <1>1 DEF Popped
<1>3. ASSUME NEW x
      PROVE  [World EXCEPT !.cmds = x]
               = [ctrl |-> ctrl, socket |-> socket, cmds |-> x, next |-> next,
                  socket_tag |-> socket_tag, robbed |-> robbed, stuck |-> stuck,
                  new |-> "later"]
  BY DEF World
<1> QED BY <1>2, <1>3

\* The same, stated of the variables.
LEMMA ServeInv ==
    ASSUME NetInv, posted = None, NEW i \in Sockets, NEW s \in SockRec,
           UNCHANGED <<ctrl, next, socket_tag, dns, ready, fanout, entered, stuck,
                       robbed, crossed, heard, unanswered>>,
           socket' = [socket EXCEPT ![i] = s],
           NEW u, \/ u = World /\ cmds' = cmds
                  \/ u = Popped(World) /\ cmds # <<>> /\ cmds' = Tail(cmds),
           Becoming(u, i, s),
           NEW id, News(socket[i], s, id),
           (id = "NONE" /\ posted' = None) \/ (id # "NONE" /\ RaiseOf(i, id)),
           \/ later' = later
           \/ /\ id = "RX_NEW"
              /\ later' = later \cup {c \in Ctrl : Sized(c) /\ ctrl[c].socket_id = i}
    PROVE  NetInv'
<1>1. RestOk'
  <2>1. later' \subseteq Ctrl /\ \A c \in later' : entered[c] = "rx"
    BY DEF NetInv, RestOk, Sized
  <2> QED BY <2>1 DEF NetInv, RestOk
<1>5. LaterOf(i, id)
  BY DEF LaterOf
<1>2. World' = Marked(u, i, s)
  <2>1. CASE u = World /\ cmds' = cmds
    BY <2>1 DEF World, Marked
  <2>2. CASE u = Popped(World) /\ cmds # <<>> /\ cmds' = Tail(cmds)
    <3>1. u = [ctrl |-> ctrl, socket |-> socket, cmds |-> cmds', next |-> next,
               socket_tag |-> socket_tag, robbed |-> robbed, stuck |-> stuck,
               new |-> "later"]
      BY <2>2, PoppedIs
    <3>2. Marked(u, i, s)
            = [ctrl |-> ctrl, socket |-> socket', cmds |-> cmds', next |-> next,
               socket_tag |-> socket_tag, robbed |-> robbed, stuck |-> stuck,
               new |-> "later"]
      BY <3>1 DEF Marked
    <3> QED BY <3>2 DEF World
  <2> QED BY <2>1, <2>2
<1>3. u = World \/ (World.cmds # <<>> /\ u = Popped(World))
  BY DEF World
<1>4. crossed' = crossed
  OBVIOUS
<1> QED BY <1>1, <1>2, <1>3, <1>4, <1>5, SocketInv

\* What is known of the socket that the first command is for.
LEMMA Turn ==
    ASSUME NetInv, cmds # <<>>, cmds[1].kind # "dns", NEW u, u = Popped(World)
    PROVE  LET i == cmds[1].id
               o == socket[i]
               kind == cmds[1].kind
           IN  /\ i \in Sockets /\ o \in SockRec /\ o.in_use /\ u.socket = socket
               /\ kind \in Closes => o.closing /\ Quiet(u, i, {})
               /\ kind = "create" => /\ o.pcb = "none" /\ ~ o.remote_close /\ ~ o.rx
                                     /\ Quiet(u, i, {"connect", "tx"} \cup Closes)
               /\ kind = "connect" => /\ o.pcb \in {"none", "new"} /\ ~ o.rx
                                      /\ o.pcb = "new" => ~ o.remote_close
                                      /\ Quiet(u, i, {"create", "tx"} \cup Closes)
               /\ o.pcb # "none" => Quiet(u, i, {"connect", "tx"} \cup Closes)
               /\ o.pcb \notin {"none", "new"} => Quiet(u, i, {"tx"} \cup Closes)
               /\ o.remote_close => Quiet(u, i, {"connect", "tx"} \cup Closes)
<1> DEFINE W == World
           i == cmds[1].id
           o == socket[i]
<1>1. W \in Worlds /\ Books(W) /\ W.cmds = cmds /\ W.socket = socket /\ W.cmds # <<>>
  BY DEF NetInv, World
<1>2. u = Popped(W)
  OBVIOUS
<1> HIDE DEF W
<1>3. /\ u \in Worlds /\ Books(u) /\ u.socket = socket
      /\ cmds[1] \in Commands /\ 1 \in DOMAIN W.cmds
      /\ \A k \in ForSocket(u) : /\ k + 1 \in ForSocket(W) /\ k + 1 > 1
                                 /\ u.cmds[k] = W.cmds[k + 1]
  BY <1>1, <1>2, Pops
<1>4. i \in Sockets /\ cmds[1].kind \in {"create", "connect", "tx"} \cup Closes
  BY <1>3 DEF Commands, Closes
<1>5. o \in SockRec
  BY <1>1, <1>4, ShapeOf
<1>6. 1 \in ForSocket(W) /\ W.cmds[1] = cmds[1]
  BY <1>1, <1>3 DEF ForSocket
<1>7. /\ o.in_use
      /\ cmds[1].kind \in Closes =>
           o.closing /\ \A j \in ForSocket(W) : j > 1 => W.cmds[j].id # i
  BY <1>1, <1>6 DEF Books, InTime
<1>8. /\ cmds[1].kind = "create" => o.pcb = "none" /\ ~ o.remote_close /\ ~ o.rx
      /\ cmds[1].kind = "connect" => /\ o.pcb \in {"none", "new"} /\ ~ o.rx
                                     /\ o.pcb = "new" => ~ o.remote_close
      /\ cmds[1].kind \in {"create", "connect"} => \A j \in ForSocket(W) :
           W.cmds[j].kind = cmds[1].kind /\ W.cmds[j].id = i => j = 1
  BY <1>1, <1>6 DEF Books, Births
<1> DEFINE kind == cmds[1].kind
<1> HIDE DEF i, o, kind
<1>9. kind \in Closes => Quiet(u, i, {})
  <2>1. \A k \in ForSocket(u) : kind \in Closes => u.cmds[k].id # i
    BY <1>3, <1>7 DEF kind
  <2> QED BY <2>1 DEF Quiet
<1>10. \A k \in ForSocket(u) : u.cmds[k].kind \in {"create", "connect", "tx"} \cup Closes
  BY <1>3, ShapeOf DEF ForSocket, Commands, Closes
<1>11. \A k \in ForSocket(u) : u.cmds[k].id = i /\ kind \in {"create", "connect"} =>
          u.cmds[k].kind # kind
  <2>1. \A k \in ForSocket(u) : k + 1 # 1
    BY <1>3
  <2> QED BY <1>3, <1>8, <2>1 DEF kind
<1>12. \A k \in ForSocket(u) : u.cmds[k].id = i =>
          /\ u.cmds[k].kind = "create" => o.pcb = "none" /\ ~ o.remote_close
          /\ u.cmds[k].kind = "connect" => o.pcb \in {"none", "new"}
  BY <1>3, <1>5 DEF Books, Births, o
<1>13. /\ kind = "create" => Quiet(u, i, {"connect", "tx"} \cup Closes)
       /\ kind = "connect" => Quiet(u, i, {"create", "tx"} \cup Closes)
  BY <1>10, <1>11 DEF Quiet
<1>14. /\ o.pcb # "none" => Quiet(u, i, {"connect", "tx"} \cup Closes)
       /\ o.pcb \notin {"none", "new"} => Quiet(u, i, {"tx"} \cup Closes)
       /\ o.remote_close => Quiet(u, i, {"connect", "tx"} \cup Closes)
  BY <1>10, <1>12, SMTT(30) DEF Quiet
<1> QED BY <1>3, <1>4, <1>5, <1>7, <1>8, <1>9, <1>13, <1>14 DEF i, o, kind

\* The commands of the mailbox, one by one.
LEMMA RunDnsInv ==
    ASSUME NetInv, RunDns
    PROVE  NetInv'
<1> DEFINE W == World
           u == Popped(World)
<1>1. W \in Worlds /\ Books(W) /\ W.cmds = cmds /\ W.socket = socket /\ W.cmds # <<>>
  BY DEF NetInv, World, RunDns, Took
<1>2. /\ cmds[1] \in Commands /\ u \in Worlds /\ Books(u) /\ u.socket = socket
  <2>1. u = Popped(W)
    OBVIOUS
  <2> HIDE DEF u, W
  <2> QED BY <1>1, <2>1, Pops
<1>3. cmds[1].id \in Ctrl /\ cmds[1].of \in Names
  BY <1>2 DEF RunDns, Took, Commands
<1>4. RestOk'
  BY <1>3 DEF RunDns, reading, NetInv, RestOk
<1>5. World' = u /\ posted' = posted /\ posted = None /\ crossed' = crossed
  <2>1. /\ UNCHANGED <<ctrl, socket, next, socket_tag, posted, stuck, robbed, crossed>>
        /\ posted = None /\ cmds' = Tail(cmds)
    BY DEF RunDns, Took, Free
  <2>2. u = [ctrl |-> ctrl, socket |-> socket, cmds |-> cmds', next |-> next,
             socket_tag |-> socket_tag, robbed |-> robbed, stuck |-> stuck,
             new |-> "later"]
    BY <2>1, PoppedIs
  <2> HIDE DEF u
  <2> QED BY <2>1, <2>2 DEF World
<1> DEFINE i == 0
           s == socket[i]
<1>6. i \in Sockets /\ s \in SockRec
  BY <1>1, ShapeOf, SockAssumption DEF Sockets
<1>7. Marked(u, i, s) = u
  <2> HIDE DEF u, i
  <2>1. u.socket \in [Sockets -> SockRec] /\ s = u.socket[i]
    BY <1>2, ShapeOf
  <2>2. [u.socket EXCEPT ![i] = s] = u.socket
    BY <1>6, <2>1
  <2>3. u = [u EXCEPT !.socket = u.socket]
    BY <1>2 DEF Worlds
  <2> QED BY <2>2, <2>3 DEF Marked
<1>8. Becoming(u, i, s)
  <2> HIDE DEF u, i
  <2>1. s = u.socket[i]
    BY <1>2
  <2>2. \A k \in ForSocket(u) : u.cmds[k].id = i =>
          /\ u.cmds[k].kind = "create" => s.pcb = "none" /\ ~ s.remote_close /\ ~ s.rx
          /\ u.cmds[k].kind = "connect" => /\ s.pcb \in {"none", "new"} /\ ~ s.rx
                                           /\ s.pcb = "new" => ~ s.remote_close
    BY <1>2, <2>1 DEF Books, Births
  <2>3. /\ ~ s.in_use => ~ s.closing /\ ~ s.remote_close /\ s.pcb = "none"
        /\ s.pcb \in {"new", "connecting"} => ~ s.rx
        /\ s.pcb = "connecting" => ~ s.remote_close
    BY <1>2, <1>6, <2>1 DEF Books, Births, Idle
  <2> QED BY <2>1, <2>2, <2>3 DEF Becoming
<1>9. News(socket[i], s, "NONE")
  BY DEF News, Gone
<1>12. LaterOf(i, "NONE")
  BY DEF RunDns, reading, LaterOf
<1>10. World.cmds # <<>> /\ u = Popped(World)
  BY <1>1
<1>11. World' = Marked(u, i, s)
  BY <1>5, <1>7
<1> HIDE DEF u, i, s, W
<1> QED BY <1>4, <1>5, <1>6, <1>8, <1>9, <1>10, <1>11, <1>12, SocketInv

\* EV_LWIP_SOCKET_CREATE, with and without a pcb.
LEMMA RunCreateInv ==
    ASSUME NetInv, RunCreate
    PROVE  NetInv'
<1> DEFINE u == Popped(World)
           i == cmds[1].id
           o == socket[i]
<1>1. /\ posted = None /\ cmds # <<>> /\ cmds[1].kind = "create" /\ cmds' = Tail(cmds)
      /\ UNCHANGED <<ctrl, next, socket_tag, dns, ready, fanout, entered, stuck,
                     robbed, crossed, heard, unanswered, later>>
  BY DEF RunCreate, Took, Free, reading
<1>2. /\ i \in Sockets /\ o \in SockRec /\ o.in_use /\ u.socket = socket
      /\ o.pcb = "none" /\ ~ o.remote_close /\ ~ o.rx
      /\ Quiet(u, i, {"connect", "tx"} \cup Closes)
  BY <1>1, Turn
<1>3. CASE socket' = [socket EXCEPT ![i].pcb = "new"] /\ posted' = posted
  <2> DEFINE s == [o EXCEPT !.pcb = "new"]
  <2>1. socket' = [socket EXCEPT ![i] = s]
    BY <1>3
  <2> HIDE DEF u, i, o
  <2>2. /\ s \in SockRec /\ s.tag = o.tag /\ s.in_use = o.in_use /\ s.closing = o.closing
        /\ s.param = o.param /\ s.pcb = "new" /\ s.remote_close = o.remote_close
        /\ s.rx = o.rx
    BY <1>2 DEF SockRec
  <2> HIDE DEF s
  <2>3. Becoming(u, i, s)
    BY <1>2, <2>2 DEF Becoming, Quiet, Closes, o
  <2>4. News(o, s, "NONE")
    BY <1>2, <2>2 DEF News, Good, Gone
  <2>5. posted' = None
    BY <1>1, <1>3
  <2> QED BY <1>1, <1>2, <2>1, <2>2, <2>3, <2>4, <2>5, ServeInv DEF o, u
<1>4. CASE socket' = [socket EXCEPT ![i].remote_close = TRUE] /\ RaiseOf(i, "ERROR")
  <2> DEFINE s == [o EXCEPT !.remote_close = TRUE]
  <2>1. socket' = [socket EXCEPT ![i] = s]
    BY <1>4
  <2>0. RaiseOf(i, "ERROR")
    BY <1>4
  <2> HIDE DEF u, i, o
  <2>2. /\ s \in SockRec /\ s.tag = o.tag /\ s.in_use = o.in_use /\ s.closing = o.closing
        /\ s.param = o.param /\ s.pcb = o.pcb /\ s.remote_close /\ s.rx = o.rx
    BY <1>2 DEF SockRec
  <2> HIDE DEF s
  <2>3. Becoming(u, i, s)
    BY <1>2, <2>2 DEF Becoming, Quiet, Closes, o
  <2>4. News(o, s, "ERROR")
    BY <1>2, <2>2 DEF News, Good, Gone
  <2> QED BY <1>1, <1>2, <2>0, <2>1, <2>2, <2>3, <2>4, ServeInv DEF o, u
<1> QED BY <1>3, <1>4 DEF RunCreate

\* EV_LWIP_SOCKET_CONNECT; a failed one is reported.
LEMMA RunConnectInv ==
    ASSUME NetInv, RunConnect
    PROVE  NetInv'
<1> DEFINE u == Popped(World)
           i == cmds[1].id
           o == socket[i]
           r == o.remote_close \/ (o.in_use /\ o.pcb # "none")
<1>1. /\ posted = None /\ cmds # <<>> /\ cmds[1].kind = "connect" /\ cmds' = Tail(cmds)
      /\ UNCHANGED <<ctrl, next, socket_tag, dns, ready, fanout, entered, stuck,
                     robbed, crossed, heard, unanswered, later>>
  BY DEF RunConnect, Took, Free, reading
<1>2. /\ i \in Sockets /\ o \in SockRec /\ o.in_use /\ u.socket = socket
      /\ o.pcb \in {"none", "new"} /\ ~ o.rx /\ (o.pcb = "new" => ~ o.remote_close)
      /\ Quiet(u, i, {"create", "tx"} \cup Closes)
      /\ o.pcb # "none" => Quiet(u, i, {"connect", "tx"} \cup Closes)
      /\ o.remote_close => Quiet(u, i, {"connect", "tx"} \cup Closes)
  BY <1>1, Turn
<1>3. CASE /\ o.pcb # "none" /\ posted' = posted
           /\ socket' = [socket EXCEPT ![i].pcb = "connecting"]
  <2> DEFINE s == [o EXCEPT !.pcb = "connecting"]
  <2>1. socket' = [socket EXCEPT ![i] = s]
    BY <1>3
  <2>0. o.pcb # "none" /\ posted' = None
    BY <1>1, <1>3
  <2> HIDE DEF u, i, o
  <2>2. /\ s \in SockRec /\ s.tag = o.tag /\ s.in_use = o.in_use /\ s.closing = o.closing
        /\ s.param = o.param /\ s.pcb = "connecting"
        /\ s.remote_close = o.remote_close /\ s.rx = o.rx
    BY <1>2 DEF SockRec
  <2> HIDE DEF s
  <2>3. Becoming(u, i, s)
    BY <1>2, <2>0, <2>2 DEF Becoming, Quiet, Closes, o
  <2>4. News(o, s, "NONE")
    BY <1>2, <2>0, <2>2 DEF News, Good, Gone
  <2> QED BY <1>1, <1>2, <2>0, <2>1, <2>2, <2>3, <2>4, ServeInv DEF o, u
<1>4. CASE /\ socket' = [socket EXCEPT ![i].remote_close =
                            @ \/ (socket[i].in_use /\ socket[i].pcb # "none")]
           /\ RaiseOf(i, "ERROR")
  <2> DEFINE s == [o EXCEPT !.remote_close = r]
  <2>1. socket' = [socket EXCEPT ![i] = s]
    BY <1>4
  <2>0. RaiseOf(i, "ERROR")
    BY <1>4
  <2> HIDE DEF u, i, o
  <2>5. r \in BOOLEAN /\ (o.pcb = "none" => r = o.remote_close)
    BY <1>2 DEF SockRec
  <2> HIDE DEF r
  <2>2. /\ s \in SockRec /\ s.tag = o.tag /\ s.in_use = o.in_use /\ s.closing = o.closing
        /\ s.param = o.param /\ s.pcb = o.pcb /\ s.remote_close = r /\ s.rx = o.rx
    BY <1>2, <2>5 DEF SockRec
  <2> HIDE DEF s
  <2>3. Becoming(u, i, s)
    <3>1. u.socket[i] = o
      BY <1>2 DEF o
    <3>2. ASSUME NEW k \in ForSocket(u), u.cmds[k].id = i
          PROVE  /\ u.cmds[k].kind = "create" =>
                       s.pcb = "none" /\ ~ s.remote_close /\ ~ s.rx
                 /\ u.cmds[k].kind # "connect"
      BY <1>2, <2>2, <2>5, <3>2 DEF Quiet, Closes
    <3>3. /\ ~ s.in_use => ~ s.closing /\ ~ s.remote_close /\ s.pcb = "none"
          /\ s.pcb \in {"new", "connecting"} => ~ s.rx
          /\ s.pcb # "connecting"
      BY <1>2, <2>2
    <3> QED BY <2>2, <3>1, <3>2, <3>3 DEF Becoming
  <2>4. News(o, s, "ERROR")
    BY <1>2, <2>2 DEF News, Good, Gone
  <2> QED BY <1>1, <1>2, <2>0, <2>1, <2>2, <2>3, <2>4, ServeInv DEF o, u
<1> QED BY <1>3, <1>4 DEF RunConnect

\* A command for a socket changes nothing that matters, or nothing at all.
LEMMA Plain ==
    ASSUME NetInv, cmds # <<>>, cmds[1].kind \notin {"dns", "create", "connect"},
           NEW u, u = Popped(World), NEW s \in SockRec, NEW i, i = cmds[1].id,
           NEW o, o = socket[i],
           s.tag = o.tag, s.in_use = o.in_use, s.closing = o.closing, s.param = o.param,
           s.pcb = o.pcb, s.remote_close = o.remote_close, s.rx = o.rx,
           NEW id \in Gone \cup {"TX_OK", "NONE"}
    PROVE  i \in Sockets /\ Becoming(u, i, s) /\ News(o, s, id)
<1> DEFINE W == World
<1>1. W \in Worlds /\ Books(W) /\ W.cmds = cmds /\ W.socket = socket /\ W.cmds # <<>>
  BY DEF NetInv, World
<1>2. u = Popped(W)
  OBVIOUS
<1>3. i \in Sockets /\ o \in SockRec
  BY Turn
<1> HIDE DEF W
<1>4. u \in Worlds /\ Books(u) /\ u.socket = socket
  BY <1>1, <1>2, Pops
<1>5. \A k \in ForSocket(u) : u.cmds[k].id = i =>
        /\ u.cmds[k].kind = "create" => o.pcb = "none" /\ ~ o.remote_close /\ ~ o.rx
        /\ u.cmds[k].kind = "connect" => /\ o.pcb \in {"none", "new"} /\ ~ o.rx
                                         /\ o.pcb = "new" => ~ o.remote_close
  BY <1>4, ZenonT(60) DEF Books, Births
<1>6. /\ ~ o.in_use => ~ o.closing /\ ~ o.remote_close /\ o.pcb = "none"
      /\ o.pcb \in {"new", "connecting"} => ~ o.rx
      /\ o.pcb = "connecting" => ~ o.remote_close
  BY <1>3, <1>4 DEF Books, Births, Idle
<1>7. Becoming(u, i, s)
  BY <1>4, <1>5, <1>6 DEF Becoming
<1>8. News(o, s, id)
  BY DEF News, Good, Gone
<1> QED BY <1>3, <1>7, <1>8

\* EV_LWIP_SOCKET_TX.
LEMMA RunTxInv ==
    ASSUME NetInv, RunTx
    PROVE  NetInv'
<1> DEFINE u == Popped(World)
           i == cmds[1].id
           o == socket[i]
<1>1. /\ posted = None /\ cmds # <<>> /\ cmds[1].kind = "tx" /\ cmds' = Tail(cmds)
      /\ UNCHANGED <<ctrl, next, socket_tag, dns, ready, fanout, entered, stuck,
                     robbed, crossed, heard, unanswered, later>>
  BY DEF RunTx, Took, Free, reading
<1>2. i \in Sockets /\ o \in SockRec /\ socket \in [Sockets -> SockRec]
  <2>1. socket = World.socket /\ World \in Worlds
    BY DEF NetInv, World
  <2>2. socket \in [Sockets -> SockRec]
    BY <2>1, ShapeOf
  <2> QED BY <1>1, <2>2, Turn
<1>3. CASE /\ socket' = [socket EXCEPT ![i].wait_ack = @ + socket[i].tx_head,
                                       ![i].tx_head = 0]
           /\ posted' = posted
  <2> DEFINE n == o.wait_ack + o.tx_head
             s == [o EXCEPT !.wait_ack = n, !.tx_head = 0]
  <2>1. socket' = [socket EXCEPT ![i] = s]
    BY <1>2, <1>3
  <2>0. posted' = None
    BY <1>1, <1>3
  <2> HIDE DEF u, i, o
  <2>2. n \in Nat
    BY <1>2 DEF SockRec
  <2> HIDE DEF n
  <2>3. /\ s \in SockRec /\ s.tag = o.tag /\ s.in_use = o.in_use /\ s.closing = o.closing
        /\ s.param = o.param /\ s.pcb = o.pcb /\ s.remote_close = o.remote_close
        /\ s.rx = o.rx
    BY <1>2, <2>2 DEF SockRec
  <2> HIDE DEF s
  <2>4. Becoming(u, i, s) /\ News(o, s, "NONE")
    BY <1>1, <2>3, Plain DEF o, u, i
  <2> QED BY <1>1, <1>2, <2>0, <2>1, <2>3, <2>4, ServeInv DEF o, u
<1>4. CASE RaiseOf(i, "ERROR") /\ socket' = socket
  <2>1. socket' = [socket EXCEPT ![i] = o]
    BY <1>2, <1>4
  <2>0. RaiseOf(i, "ERROR")
    BY <1>4
  <2>2. Becoming(u, i, o) /\ News(o, o, "ERROR")
    <3>1. "ERROR" \in Gone \cup {"TX_OK", "NONE"}
      BY DEF Gone
    <3> HIDE DEF u, i, o
    <3> QED BY <1>1, <1>2, <3>1, Plain DEF o, u, i
  <2> HIDE DEF u, i, o
  <2> QED BY <1>1, <1>2, <2>0, <2>1, <2>2, ServeInv DEF o, u
<1> QED BY <1>3, <1>4 DEF RunTx

\* EV_LWIP_SOCKET_CLOSE frees a socket that no command is left for.
LEMMA RunCloseInv ==
    ASSUME NetInv, RunClose
    PROVE  NetInv'
<1> DEFINE u == Popped(World)
           i == cmds[1].id
           o == socket[i]
<1>1. /\ posted = None /\ cmds # <<>> /\ cmds[1].kind \in Closes /\ cmds' = Tail(cmds)
      /\ UNCHANGED <<ctrl, next, socket_tag, dns, ready, fanout, entered, stuck,
                     robbed, crossed, heard, unanswered, later>>
  BY DEF RunClose, Took, Free, reading, Closes
<1>2. /\ i \in Sockets /\ o \in SockRec /\ socket \in [Sockets -> SockRec]
      /\ o.closing /\ Quiet(u, i, {}) /\ u.socket = socket
  <2>1. socket = World.socket /\ World \in Worlds
    BY DEF NetInv, World
  <2>2. socket \in [Sockets -> SockRec]
    BY <2>1, ShapeOf
  <2>3. cmds[1].kind # "dns"
    BY <1>1 DEF Closes
  <2> QED BY <1>1, <2>2, <2>3, Turn
<1>3. CASE CloseDone(i)
  <2> DEFINE s == [FreeSocket EXCEPT !.tag = o.tag]
             id == IF cmds[1].kind = "disconnect" THEN "CLOSE_OK" ELSE "NONE"
  <2>1. socket' = [socket EXCEPT ![i] = s]
    BY <1>3 DEF CloseDone
  <2>0. (id = "NONE" /\ posted' = None) \/ (id # "NONE" /\ RaiseOf(i, id))
    <3>1. CASE cmds[1].kind = "disconnect"
      <4>1. socket' = socket \/ RaiseOf(i, "CLOSE_OK")
        BY <3>1 DEF RunClose
      <4>2. socket' # socket
        <5>1. s.closing = FALSE
          BY DEF FreeSocket
        <5> HIDE DEF s
        <5> QED BY <1>2, <2>1, <5>1
      <4>3. RaiseOf(i, "CLOSE_OK")
        BY <3>1, <4>1, <4>2 DEF RunClose
      <4> QED BY <3>1, <4>3
    <3>2. CASE cmds[1].kind # "disconnect"
      <4>1. posted' = posted
        BY <3>2 DEF RunClose
      <4> QED BY <1>1, <3>2, <4>1
    <3> QED BY <3>1, <3>2
  <2>6. id \in {"CLOSE_OK", "NONE"}
    OBVIOUS
  <2> HIDE DEF u, i, o, id
  <2>2. o.tag \in Nat
    BY <1>2 DEF SockRec
  <2>3. /\ s \in SockRec /\ s.tag = o.tag /\ ~ s.in_use /\ ~ s.closing
        /\ s.pcb = "none" /\ ~ s.remote_close /\ ~ s.rx
    BY <2>2 DEF SockRec, FreeSocket
  <2> HIDE DEF s
  <2>4. Becoming(u, i, s)
    BY <1>2, <2>3 DEF Becoming, Quiet, o
  <2>5. News(o, s, id)
    BY <1>2, <2>6 DEF News, Gone
  <2> QED BY <1>1, <1>2, <2>0, <2>1, <2>3, <2>4, <2>5, ServeInv DEF o, u
<1>4. CASE socket' = socket /\ posted' = posted
  <2>1. socket' = [socket EXCEPT ![i] = o]
    BY <1>2, <1>4
  <2>2. Becoming(u, i, o) /\ News(o, o, "NONE")
    <3>1. cmds[1].kind \notin {"dns", "create", "connect"}
      BY <1>1 DEF Closes
    <3> HIDE DEF u, i, o
    <3> QED BY <1>1, <1>2, <3>1, Plain DEF o, u, i
  <2>3. posted' = None
    BY <1>1, <1>4
  <2> HIDE DEF u, i, o
  <2> QED BY <1>1, <1>2, <2>1, <2>2, <2>3, ServeInv DEF o, u
<1> QED BY <1>3, <1>4 DEF RunClose

\* What is known of the socket of a callback.
LEMMA Called ==
    ASSUME NetInv, NEW i \in Sockets, Callback(i)
    PROVE  LET o == socket[i]
           IN  /\ posted = None /\ o \in SockRec /\ World.socket = socket
               /\ socket \in [Sockets -> SockRec]
               /\ UNCHANGED <<ctrl, next, socket_tag, dns, ready, fanout, entered,
                              stuck, robbed, crossed, heard, unanswered>>
               /\ cmds' = cmds
               /\ ~ o.in_use => ~ o.closing /\ ~ o.remote_close /\ o.pcb = "none"
               /\ o.pcb = "connecting" => ~ o.rx /\ ~ o.remote_close
               /\ o.pcb \in {"connecting", "open"} =>
                    Quiet(World, i, {"tx"} \cup Closes)
<1> DEFINE W == World
           o == socket[i]
<1>1. W \in Worlds /\ Books(W) /\ W.socket = socket
  BY DEF NetInv, World
<1>2. /\ posted = None /\ cmds' = cmds
      /\ UNCHANGED <<ctrl, next, socket_tag, dns, ready, fanout, entered, stuck,
                     robbed, crossed, heard, unanswered>>
  BY DEF Callback, Free
<1> HIDE DEF W
<1>3. socket \in [Sockets -> SockRec] /\ o \in SockRec
  BY <1>1, ShapeOf
<1>4. /\ ~ o.in_use => ~ o.closing /\ ~ o.remote_close /\ o.pcb = "none"
      /\ o.pcb = "connecting" => ~ o.rx /\ ~ o.remote_close
  BY <1>1 DEF Books, Idle, Births
<1>5. o.pcb \in {"connecting", "open"} => Quiet(W, i, {"tx"} \cup Closes)
  <2> SUFFICES ASSUME o.pcb \in {"connecting", "open"}, NEW k \in ForSocket(W),
                      W.cmds[k].id = i
               PROVE  W.cmds[k].kind \in {"tx"} \cup Closes
    BY DEF Quiet
  <2>1. W.cmds[k] \in Commands /\ W.cmds[k].kind # "dns"
    BY <1>1, ShapeOf DEF ForSocket
  <2>2. W.cmds[k].kind \notin {"create", "connect"}
    BY <1>1 DEF Books, Births
  <2> QED BY <2>1, <2>2 DEF Commands, Closes
<1> QED BY <1>1, <1>2, <1>3, <1>4, <1>5 DEF W

\* The callbacks of lwip, one by one.
LEMMA ConnectedInv ==
    ASSUME NetInv, NEW i \in Sockets, Connected(i)
    PROVE  NetInv'
<1> DEFINE o == socket[i]
           s == [o EXCEPT !.pcb = "open"]
           W == World
<1>0. Callback(i)
  BY DEF Connected
<1>1. /\ posted = None /\ o \in SockRec /\ W.socket = socket /\ cmds' = cmds
      /\ UNCHANGED <<ctrl, next, socket_tag, dns, ready, fanout, entered, stuck,
                     robbed, crossed, heard, unanswered, later>>
      /\ o.pcb = "connecting" /\ o.in_use /\ ~ o.rx /\ ~ o.remote_close
      /\ Quiet(W, i, {"tx"} \cup Closes)
  BY <1>0, Called DEF Connected
<1>2. socket' = [socket EXCEPT ![i] = s] /\ RaiseOf(i, "CONNECT_OK")
  BY DEF Connected
<1> HIDE DEF o, W
<1>3. /\ s \in SockRec /\ s.tag = o.tag /\ s.in_use = o.in_use /\ s.closing = o.closing
      /\ s.param = o.param /\ s.pcb = "open" /\ s.remote_close = o.remote_close
      /\ s.rx = o.rx
  BY <1>1 DEF SockRec
<1> HIDE DEF s
<1>4. Becoming(W, i, s)
  BY <1>1, <1>3 DEF Becoming, Quiet, Closes, o
<1>5. News(o, s, "CONNECT_OK")
  BY <1>1, <1>3 DEF News, Good, Gone
<1> QED BY <1>1, <1>2, <1>3, <1>4, <1>5, ServeInv DEF o, W

\* The error callback: the pcb is gone.
LEMMA TcpErrorInv ==
    ASSUME NetInv, NEW i \in Sockets, TcpError(i)
    PROVE  NetInv'
<1> DEFINE o == socket[i]
           W == World
<1>0. Callback(i)
  BY DEF TcpError
<1>1. /\ posted = None /\ o \in SockRec /\ W.socket = socket /\ cmds' = cmds
      /\ UNCHANGED <<ctrl, next, socket_tag, dns, ready, fanout, entered, stuck,
                     robbed, crossed, heard, unanswered, later>>
      /\ o.pcb \in {"connecting", "open"} /\ o.in_use
      /\ Quiet(W, i, {"tx"} \cup Closes)
  BY <1>0, Called DEF TcpError
<1>2. CASE /\ (o.closing \/ o.remote_close) /\ posted' = posted
           /\ socket' = [socket EXCEPT ![i].pcb = "none"]
  <2> DEFINE s == [o EXCEPT !.pcb = "none"]
  <2>1. socket' = [socket EXCEPT ![i] = s] /\ posted' = None
    BY <1>1, <1>2
  <2>2. o.closing \/ o.remote_close
    BY <1>2
  <2> HIDE DEF o, W
  <2>3. /\ s \in SockRec /\ s.tag = o.tag /\ s.in_use = o.in_use /\ s.closing = o.closing
        /\ s.param = o.param /\ s.pcb = "none" /\ s.remote_close = o.remote_close
        /\ s.rx = o.rx
    BY <1>1 DEF SockRec
  <2> HIDE DEF s
  <2>4. Becoming(W, i, s)
    BY <1>1, <2>3 DEF Becoming, Quiet, Closes, o
  <2>5. News(o, s, "NONE")
    BY <1>1, <2>2, <2>3 DEF News, Good, Gone
  <2> QED BY <1>1, <2>1, <2>3, <2>4, <2>5, ServeInv DEF o, W
<1>3. CASE /\ RaiseOf(i, "ERROR")
           /\ socket' = [socket EXCEPT ![i].pcb = "none", ![i].remote_close = TRUE]
  <2> DEFINE s == [o EXCEPT !.pcb = "none", !.remote_close = TRUE]
  <2>0. RaiseOf(i, "ERROR")
    BY <1>3
  <2>1. socket' = [socket EXCEPT ![i] = s]
    <3>1. socket \in [Sockets -> SockRec]
      BY <1>0, Called
    <3> QED BY <1>3, <3>1
  <2> HIDE DEF o, W
  <2>3. /\ s \in SockRec /\ s.tag = o.tag /\ s.in_use = o.in_use /\ s.closing = o.closing
        /\ s.param = o.param /\ s.pcb = "none" /\ s.remote_close
        /\ s.rx = o.rx
    BY <1>1 DEF SockRec
  <2> HIDE DEF s
  <2>4. Becoming(W, i, s)
    BY <1>1, <2>3 DEF Becoming, Quiet, Closes, o
  <2>5. News(o, s, "ERROR")
    BY <1>1, <2>3 DEF News, Good, Gone
  <2> QED BY <1>1, <2>0, <2>1, <2>3, <2>4, <2>5, ServeInv DEF o, W
<1> QED BY <1>2, <1>3 DEF TcpError

\* The peer has closed.
LEMMA RemoteCloseInv ==
    ASSUME NetInv, NEW i \in Sockets, RemoteClose(i)
    PROVE  NetInv'
<1> DEFINE o == socket[i]
           s == [o EXCEPT !.remote_close = TRUE]
           W == World
<1>0. Callback(i)
  BY DEF RemoteClose
<1>1. /\ posted = None /\ o \in SockRec /\ W.socket = socket /\ cmds' = cmds
      /\ UNCHANGED <<ctrl, next, socket_tag, dns, ready, fanout, entered, stuck,
                     robbed, crossed, heard, unanswered, later>>
      /\ o.pcb = "open" /\ o.in_use /\ Quiet(W, i, {"tx"} \cup Closes)
  BY <1>0, Called DEF RemoteClose
<1>2. socket' = [socket EXCEPT ![i] = s] /\ RaiseOf(i, "REMOTE_CLOSE")
  BY DEF RemoteClose
<1> HIDE DEF o, W
<1>3. /\ s \in SockRec /\ s.tag = o.tag /\ s.in_use = o.in_use /\ s.closing = o.closing
      /\ s.param = o.param /\ s.pcb = "open" /\ s.remote_close /\ s.rx = o.rx
  BY <1>1 DEF SockRec
<1> HIDE DEF s
<1>4. Becoming(W, i, s)
  BY <1>1, <1>3 DEF Becoming, Quiet, Closes, o
<1>5. News(o, s, "REMOTE_CLOSE")
  BY <1>3 DEF News, Gone
<1> QED BY <1>1, <1>2, <1>3, <1>4, <1>5, ServeInv DEF o, W

\* Data has arrived, or there was no memory for it.
LEMMA ReceiveInv ==
    ASSUME NetInv, NEW i \in Sockets, Receive(i)
    PROVE  NetInv'
<1> DEFINE o == socket[i]
           W == World
<1>0. Callback(i)
  BY DEF Receive
<1>1. /\ posted = None /\ o \in SockRec /\ W.socket = socket /\ cmds' = cmds
      /\ UNCHANGED <<ctrl, next, socket_tag, dns, ready, fanout, entered, stuck,
                     robbed, crossed, heard, unanswered>>
      /\ o.pcb = "open" /\ ~ o.remote_close /\ o.in_use
      /\ Quiet(W, i, {"tx"} \cup Closes)
  BY <1>0, Called DEF Receive
<1>2. CASE /\ socket' = [socket EXCEPT ![i].rx = TRUE] /\ RaiseOf(i, "RX_NEW")
           /\ later' = later \cup {c \in Ctrl : Sized(c) /\ ctrl[c].socket_id = i}
  <2> DEFINE s == [o EXCEPT !.rx = TRUE]
  <2>1. socket' = [socket EXCEPT ![i] = s] /\ RaiseOf(i, "RX_NEW")
    BY <1>2
  <2>6. later' = later \cup {c \in Ctrl : Sized(c) /\ ctrl[c].socket_id = i}
    BY <1>2
  <2> HIDE DEF o, W
  <2>3. /\ s \in SockRec /\ s.tag = o.tag /\ s.in_use = o.in_use /\ s.closing = o.closing
        /\ s.param = o.param /\ s.pcb = "open" /\ s.remote_close = o.remote_close
    BY <1>1 DEF SockRec
  <2> HIDE DEF s
  <2>4. Becoming(W, i, s)
    BY <1>1, <2>3 DEF Becoming, Quiet, Closes, o
  <2>5. News(o, s, "RX_NEW")
    BY <1>1, <2>3 DEF News, Good, Gone
  <2> QED BY <1>1, <2>1, <2>3, <2>4, <2>5, <2>6, ServeInv DEF o, W
<1>3. CASE socket' = socket /\ later' = later /\ RaiseOf(i, "ERROR")
  <2>1. socket' = [socket EXCEPT ![i] = o] /\ RaiseOf(i, "ERROR")
    <3>1. socket \in [Sockets -> SockRec]
      BY <1>0, Called
    <3> QED BY <1>3, <3>1
  <2> HIDE DEF o, W
  <2>4. Becoming(W, i, o)
    BY <1>1 DEF Becoming, Quiet, Closes, o
  <2>5. News(o, o, "ERROR")
    BY DEF News, Gone
  <2>6. later' = later
    BY <1>3
  <2> QED BY <1>1, <2>1, <2>4, <2>5, <2>6, ServeInv DEF o, W
<1> QED BY <1>2, <1>3 DEF Receive

\* The peer has acknowledged.
LEMMA SentInv ==
    ASSUME NetInv, NEW i \in Sockets, Sent(i)
    PROVE  NetInv'
<1> DEFINE o == socket[i]
           n == o.wait_ack - 1 + o.tx_head
           s == [o EXCEPT !.wait_ack = n, !.tx_head = 0]
           W == World
<1>0. Callback(i)
  BY DEF Sent
<1>1. /\ posted = None /\ o \in SockRec /\ W.socket = socket /\ cmds' = cmds
      /\ UNCHANGED <<ctrl, next, socket_tag, dns, ready, fanout, entered, stuck,
                     robbed, crossed, heard, unanswered, later>>
      /\ o.pcb = "open" /\ o.wait_ack > 0 /\ o.in_use
      /\ Quiet(W, i, {"tx"} \cup Closes)
  BY <1>0, Called DEF Sent
<1>2. socket' = [socket EXCEPT ![i] = s] /\ RaiseOf(i, "TX_OK")
  <2>1. socket \in [Sockets -> SockRec]
    BY <1>0, Called
  <2> QED BY <2>1 DEF Sent
<1> HIDE DEF o, W
<1>3. n \in Nat
  <2>1. o.wait_ack \in Nat /\ o.tx_head \in Nat
    BY <1>1 DEF SockRec
  <2> QED BY <1>1, <2>1
<1> HIDE DEF n
<1>4. /\ s \in SockRec /\ s.tag = o.tag /\ s.in_use = o.in_use /\ s.closing = o.closing
      /\ s.param = o.param /\ s.pcb = o.pcb /\ s.remote_close = o.remote_close
      /\ s.rx = o.rx
  BY <1>1, <1>3 DEF SockRec
<1> HIDE DEF s
<1>5. Becoming(W, i, s)
  BY <1>1, <1>4 DEF Becoming, Quiet, Closes, o
<1>6. News(o, s, "TX_OK")
  BY <1>4 DEF News, Good, Gone
<1> QED BY <1>1, <1>2, <1>4, <1>5, <1>6, ServeInv DEF o, W
----------------------------------------------------------------------------
\* The invariant holds, and what follows from it.

\* At first no socket is in use and no ctrl has one.
LEMMA InitInv ==
    ASSUME Init
    PROVE  NetInv
<1> DEFINE w == World
<1>1. /\ w.ctrl = [c \in Ctrl |-> NewCtrl] /\ w.socket = [i \in Sockets |-> FreeSocket]
      /\ w.cmds = <<>> /\ w.socket_tag = 0 /\ w.robbed = {}
      /\ w = [ctrl |-> [c \in Ctrl |-> NewCtrl], socket |-> [i \in Sockets |-> FreeSocket],
              cmds |-> <<>>, next |-> 0, socket_tag |-> 0, robbed |-> {}, stuck |-> None,
              new |-> "later"]
  BY DEF Init, World
<1>2. 0 \in Sockets /\ 0 \in 0 .. MaxIp /\ -1 \notin Sockets
  BY SockAssumption DEF Sockets
<1>3. NewCtrl \in CtrlRec
  BY <1>2 DEF NewCtrl, CtrlRec, States, Waits
<1>4. FreeSocket \in SockRec
  BY DEF FreeSocket, SockRec
<1> HIDE DEF w
<1>5. w \in Worlds
  <2>1. <<>> \in Seq(Commands)
    OBVIOUS
  <2> QED BY <1>1, <1>2, <1>3, <1>4, <2>1 DEF Worlds
<1>6. /\ \A c \in Ctrl : w.ctrl[c] = NewCtrl
      /\ \A i \in Sockets : w.socket[i] = FreeSocket
      /\ ForSocket(w) = {}
  BY <1>1 DEF ForSocket
<1>7. Books(w)
  <2>1. Tagged(w)
    BY <1>1, <1>6 DEF Tagged, NewCtrl, FreeSocket
  <2>2. Idle(w) /\ InTime(w) /\ Births(w) /\ Owned(w)
    BY <1>6 DEF Idle, InTime, Births, Owned, FreeSocket
  <2> QED BY <2>1, <2>2 DEF Books
<1>8. ASSUME NEW c \in Ctrl
      PROVE  /\ Unused(w, c) /\ Awaits(w, c)
             /\ w.ctrl[c].state = "LINK_OFF"
  BY <1>6 DEF Unused, Awaits, NewCtrl
<1>9. OnLineOk
  BY <1>8 DEF OnLineOk, Linked, Announced, w
<1>10. Timely(w, posted)
  BY DEF Init, Timely
<1>11. RestOk
  BY DEF Init, RestOk
<1> QED BY <1>5, <1>7, <1>8, <1>9, <1>10, <1>11 DEF NetInv, w

\* A stuttering step.
LEMMA SameInv ==
    ASSUME NetInv, UNCHANGED vars
    PROVE  NetInv'
<1>1. World' = World /\ posted' = posted /\ crossed' = crossed
  BY DEF vars, World
<1>2. RestOk'
  BY DEF vars, reading, NetInv, RestOk
<1>3. \A c \in Ctrl : SameReading(c)
  BY DEF vars, reading, SameReading, Sized
<1> QED BY <1>1, <1>2, <1>3, RestInv

\* Every step.
LEMMA NextInv ==
    ASSUME ~ PcbsRunOut, NetInv, [Next]_vars
    PROVE  NetInv'
<1>1. CASE Handle
  BY <1>1, HandleInv
<1>2. CASE LinkChange
  BY <1>2, LinkChangeInv
<1>3. CASE DnsResult
  BY <1>3, DnsResultInv
<1>4. ASSUME NEW c \in Ctrl, NotifyLink(c) PROVE NetInv'
  BY <1>4, NotifyInv
<1>5. CASE RunCreate
  BY <1>5, RunCreateInv
<1>6. CASE RunConnect
  BY <1>6, RunConnectInv
<1>7. CASE RunDns
  BY <1>7, RunDnsInv
<1>8. CASE RunTx
  BY <1>8, RunTxInv
<1>9. CASE RunClose
  BY <1>9, RunCloseInv
<1>10. ASSUME NEW i \in Sockets, Connected(i) PROVE NetInv'
  BY <1>10, ConnectedInv
<1>11. ASSUME NEW i \in Sockets, TcpError(i) PROVE NetInv'
  BY <1>11, TcpErrorInv
<1>12. ASSUME NEW i \in Sockets, RemoteClose(i) PROVE NetInv'
  BY <1>12, RemoteCloseInv
<1>13. ASSUME NEW i \in Sockets, Receive(i) PROVE NetInv'
  BY <1>13, ReceiveInv
<1>14. ASSUME NEW i \in Sockets, Sent(i) PROVE NetInv'
  BY <1>14, SentInv
<1>15. ASSUME NEW c \in Ctrl, EnterConnect(c) \/ EnterTx(c) PROVE NetInv'
  BY <1>15, EnterInv
<1>16. ASSUME NEW c \in Ctrl, LockedConnect(c) PROVE NetInv'
  BY <1>16, LockedConnectInv
<1>17. ASSUME NEW c \in Ctrl, Close(c) PROVE NetInv'
  BY <1>17, CloseInv
<1>18. ASSUME NEW c \in Ctrl, LuaClose(c) PROVE NetInv'
  BY <1>18, LuaCloseInv
<1>19. ASSUME NEW c \in Ctrl, LockedTx(c) PROVE NetInv'
  BY <1>19, LockedTxInv
<1>20. ASSUME NEW c \in Ctrl, SizeRx(c) \/ LockedRx(c) PROVE NetInv'
  BY <1>20, SizeRxInv, LockedRxInv
<1>21. ASSUME NEW c \in Ctrl, WaitEvent(c) PROVE NetInv'
  BY <1>21, WaitEventInv
<1>22. ASSUME NEW c \in Ctrl, WaitLinkUp(c) PROVE NetInv'
  BY <1>22, WaitLinkUpInv
<1>26. CASE DnsDrops
  BY <1>26, DnsDropsInv
<1>23. CASE UNCHANGED vars
  BY <1>23, SameInv
<1>24. CASE Tcpip
  BY <1>1, <1>2, <1>3, <1>4, <1>5, <1>6, <1>7, <1>8, <1>9, <1>10, <1>11, <1>12,
     <1>13, <1>14, <1>24, <1>26 DEF Tcpip
<1>25. CASE Application
  BY <1>15, <1>16, <1>17, <1>18, <1>19, <1>20, <1>21, <1>22, <1>25 DEF Application
<1> QED BY <1>23, <1>24, <1>25 DEF Next

\* The strengthening that every safety theorem of this module rests on: who
\* holds which socket with which tag, what the mailbox may still hold for it,
\* and what a ctrl on line has been told.
THEOREM Invariant ==
    ASSUME ~ PcbsRunOut
    PROVE  Spec => []NetInv
<1>1. Init => NetInv
  BY InitInv
<1>2. NetInv /\ [Next]_vars => NetInv'
  BY NextInv
<1> QED BY <1>1, <1>2, PTL DEF Spec

\* CommandsInTime: whatever the ctrls do, a command in the mailbox of the
\* tcpip thread finds the connection that it was sent for, and none comes
\* after the one that closes it.
THEOREM SpecCommandsInTime ==
    ASSUME ~ PcbsRunOut
    PROVE  Spec => []CommandsInTime
<1>1. NetInv => CommandsInTime
  <2> SUFFICES ASSUME NetInv PROVE CommandsInTime
    OBVIOUS
  <2>1. /\ World \in Worlds /\ InTime(World) /\ World.cmds = cmds /\ World.socket = socket
    BY DEF NetInv, Books, World
  <2>2. cmds \in Seq(Commands)
    BY <2>1, ShapeOf
  <2>3. Len(cmds) \in Nat /\ DOMAIN cmds = 1 .. Len(cmds)
    BY <2>2
  <2> SUFFICES ASSUME NEW k \in DOMAIN cmds, cmds[k].kind # "dns"
               PROVE  /\ socket[cmds[k].id].in_use
                      /\ socket[cmds[k].id].tag = cmds[k].of
                      /\ cmds[k].kind \in {"close", "disconnect"} =>
                           \A j \in k + 1 .. Len(cmds) :
                              cmds[j].kind # "dns" => cmds[j].id # cmds[k].id
    BY DEF CommandsInTime
  <2>4. k \in ForSocket(World)
    BY <2>1 DEF ForSocket
  <2>5. /\ socket[cmds[k].id].in_use /\ socket[cmds[k].id].tag = cmds[k].of
        /\ cmds[k].kind \in Closes =>
             \A j \in ForSocket(World) : j > k => cmds[j].id # cmds[k].id
    BY <2>1, <2>4 DEF InTime
  <2>6. \A j \in k + 1 .. Len(cmds) : j \in DOMAIN cmds /\ j > k
    BY <2>3
  <2>7. \A j \in k + 1 .. Len(cmds) : cmds[j].kind # "dns" => j \in ForSocket(World) /\ j > k
    BY <2>1, <2>6 DEF ForSocket
  <2> QED BY <2>5, <2>7 DEF Closes
<1> QED BY <1>1, Invariant, PTL

\* NoOrphanSocket: a socket in use that is not being closed is held by the ctrl
\* it was made for, with its tag, through failed creations, cleans and every
\* event of an earlier connection.
THEOREM SpecNoOrphanSocket ==
    ASSUME ~ PcbsRunOut
    PROVE  Spec => []NoOrphanSocket
<1>1. NetInv => NoOrphanSocket
  <2> SUFFICES ASSUME NetInv PROVE NoOrphanSocket
    OBVIOUS
  <2>1. Owned(World) /\ World.ctrl = ctrl /\ World.socket = socket
    BY DEF NetInv, Books, World
  <2> QED BY <2>1 DEF Owned, NoOrphanSocket
<1> QED BY <1>1, Invariant, PTL

\* OnlineIsConnected: a ctrl that would send has an open connection of its own,
\* or an event that tells it of the end is posted; but for a ctrl that a clean
\* robbed and one that took an event of an earlier socket for its own.
THEOREM SpecOnlineIsConnected ==
    ASSUME ~ PcbsRunOut
    PROVE  Spec => []OnlineIsConnected
<1>1. NetInv => OnlineIsConnected
  <2> SUFFICES ASSUME NetInv, NEW c \in Ctrl \ (robbed \cup crossed),
                      ctrl[c].state = "ONLINE" /\ ~ctrl[c].need_close /\ ctrl[c].socket_id >= 0
               PROVE  /\ Valid(World, c)
                      /\ LET s == socket[ctrl[c].socket_id]
                         IN  \/ s.pcb = "open" /\ ~s.remote_close
                             \/ posted # None /\ posted.to = c
    BY DEF OnlineIsConnected
  <2>1. Linked(World, c, Tells(posted, c, Gone))
    BY DEF NetInv, OnLineOk
  <2>2. World.ctrl = ctrl /\ World.socket = socket
    BY DEF World
  <2> DEFINE W == World
  <2>3. Linked(W, c, Tells(posted, c, Gone)) /\ W.ctrl = ctrl /\ W.socket = socket
    BY <2>1, <2>2
  <2> HIDE DEF W
  <2>4. /\ Valid(W, c)
        /\ LET s == socket[ctrl[c].socket_id]
           IN  (s.pcb = "open" /\ ~s.remote_close) \/ (posted # None /\ posted.to = c)
    BY <2>3 DEF Linked, Tells
  <2> QED BY <2>4 DEF W
<1> QED BY <1>1, Invariant, PTL

\* DataAnnounced: what has arrived for a ctrl on line is announced by its
\* new_rx_flag or by the event that is posted, or it is about to be read by the
\* socket.rx that runs, or it came after that call asked for the size and the
\* event of it has been handled since; and everything has its type.
THEOREM SpecDataAnnounced ==
    ASSUME ~ PcbsRunOut
    PROVE  Spec => []DataAnnounced
<1>1. NetInv => NetTypeOK
  <2> SUFFICES ASSUME NetInv PROVE NetTypeOK
    OBVIOUS
  <2>1. /\ World \in Worlds /\ World.ctrl = ctrl /\ World.socket = socket
        /\ World.next = next /\ World.socket_tag = socket_tag
        /\ World.robbed = robbed /\ World.stuck = stuck
    BY DEF NetInv, World
  <2>2. /\ ctrl \in [Ctrl -> CtrlRec] /\ socket \in [Sockets -> SockRec]
        /\ next \in Sockets /\ socket_tag \in Nat /\ robbed \subseteq Ctrl /\ stuck = None
    BY <2>1, ShapeOf
  <2>3. RestOk
    BY DEF NetInv
  <2> QED BY <2>2, <2>3 DEF NetTypeOK, CtrlRec, SockRec, RestOk
<1>2. NetInv => DataAnnounced
  <2> SUFFICES ASSUME NetInv, NEW c \in Ctrl \ (robbed \cup crossed),
                      ctrl[c].state = "ONLINE" /\ ~ctrl[c].need_close,
                      Valid(World, c) /\ socket[ctrl[c].socket_id].rx
               PROVE  \/ ctrl[c].new_rx_flag \/ (posted # None /\ posted.to = c)
                      \/ c \in heard \/ (Sized(c) /\ c \notin later)
    BY <1>1 DEF DataAnnounced
  <2> DEFINE W == World
  <2>1. Announced(W, c, Word(c), Known(c))
    BY DEF NetInv, OnLineOk
  <2>2. Valid(W, c) /\ W.ctrl = ctrl /\ W.socket = socket
    BY DEF World
  <2> HIDE DEF W
  <2> QED BY <2>1, <2>2 DEF Announced, Word, Heard, Tells
<1> QED BY <1>2, Invariant, PTL
=============================================================================

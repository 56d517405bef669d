----------------------------- MODULE DnsClient -----------------------------
(***************************************************************************)
(* The DNS client (components/ethernet/common/dns_client.c) and the tcpip  *)
(* task that drives it (luat_lwip_ec7xx.c): requests, the 1000 ms timer,   *)
(* answers over UDP that are lost, late or repeated, and the link.         *)
(*                                                                         *)
(* A process stands for a name being asked for, a require for one request. *)
(* An address is "v4" or "v6": which record a server gave.  Time is when a *)
(* process is due again.                                                   *)
(***************************************************************************)
EXTENDS Naturals, Sequences, FiniteSets, Orders

CONSTANTS
    Requests,       \* the requests that are made, each once
    Names,
    nameOf,         \* the name of a request
    wants6,         \* does a request ask for IPv6 addresses first
    MAX_DNS_SERVER, \* places for servers: 4
    Servers,        \* those that hold a valid address
    DNS_TRY_MAX,    \* queries to a server before the next one
    None,
    MaxDowns        \* bound: losses of the link

ASSUME DnsAssumption ==
    /\ nameOf \in [Requests -> Names] /\ wants6 \in [Requests -> BOOLEAN]
    /\ MAX_DNS_SERVER \in Nat \ {0} /\ DNS_TRY_MAX \in Nat \ {0}
    /\ Servers \subseteq 0..MAX_DNS_SERVER - 1
    /\ MaxDowns \in Nat

Addrs   == {"v4", "v6"}
Queries == [session : Nat, name : Names, addr : Addrs]

ASSUME NoneAssumption == None \notin Queries /\ \A ips \in SUBSET Addrs : ips # None

VARIABLES
    process_head,   \* the names being asked for, in order
    require_head,   \* the requests waiting, in order
    is_run, new_result, session_id,
    dns_timer,      \* does the periodic timer run
    lwip_netif,     \* is the link up
    queries,        \* queries on their way, to be answered or not
    downs,
    status, given, told     \* history: how the requests went

clientVars == <<process_head, require_head, is_run, new_result, session_id>>
historyVars == <<status, given, told>>
vars == <<clientVars, dns_timer, lwip_netif, queries, downs, historyVars>>
-----------------------------------------------------------------------------
(* dns_client.c.  A client is the record of the five variables above, with *)
(* out, the query that dns_run has put together, or None, and handed, the  *)
(* requests whose result has been given out.                               *)

Client == [process |-> process_head, require |-> require_head, is_run |-> is_run,
           new_result |-> new_result, session |-> session_id,
           out |-> None, handed |-> {}]

HasName(ps, n) == \E i \in DOMAIN ps : ps[i].name = n

(* dns_require_ipv6: a process of the same name is shared.  uri is the     *)
(* request whose buffer the process goes on to read its name from; asks    *)
(* counts the IPv4 queries to each server (history).                      *)
dns_require_ipv6(c, r) ==
    [c EXCEPT
        !.require = Append(@, [id |-> r, result |-> None]),
        !.process = IF HasName(@, nameOf[r]) THEN @
                    ELSE Append(@, [name |-> nameOf[r], session |-> c.session + 1,
                                    retry |-> 0, srv |-> 0, ips |-> {},
                                    mode6 |-> wants6[r], is6 |-> wants6[r],
                                    done6 |-> FALSE, asked |-> FALSE, due |-> TRUE,
                                    uri |-> r,
                                    asks |-> [s \in 0..MAX_DNS_SERVER - 1 |-> 0]]),
        !.session = IF HasName(c.process, nameOf[r]) THEN @ ELSE @ + 1]

BugSetResult(rs, names, ips) ==  \* mutant: the names are not compared
    [i \in DOMAIN rs |-> IF rs[i].result = None /\ names # {}
                         THEN [rs[i] EXCEPT !.result = ips] ELSE rs[i]]

(* dns_set_result, for all names of a set: no address is a failure.        *)
SetResult(rs, names, ips) ==
    [i \in DOMAIN rs |->
        IF rs[i].result = None /\ nameOf[rs[i].id] \in names
        THEN [rs[i] EXCEPT !.result = ips] ELSE rs[i]]

Cleared(c) == [c EXCEPT !.process = <<>>, !.require = <<>>, !.is_run = FALSE]

BugSettle(c) ==          \* mutant: only the processes are looked at
    [c EXCEPT !.is_run = c.process # <<>>]

(* The end of dns_run.                                                     *)
Settle(c) == [c EXCEPT !.is_run = c.process # <<>> \/ c.require # <<>>]

(* dns_run finds results that nobody has collected and no name to ask for. *)
Forgotten(c) == c.process = <<>> /\ c.require # <<>>

(* The IPv6 address has come or does not exist: the IPv4 address is next.   *)
AsksIPv4(p, ips, session) ==
    [p EXCEPT !.ips = @ \cup ips, !.done6 = TRUE, !.is6 = FALSE,
              !.session = session, !.asked = FALSE, !.due = TRUE, !.retry = 0]

BugTakeAnswer(c, i, ips) ==      \* mutant: an empty answer is not is_done
    IF c.process[i].mode6 /\ c.process[i].is6
    THEN [c EXCEPT !.session = @ + 1,
                   !.process[i] = AsksIPv4(@, ips, c.session + 1)]
    ELSE [c EXCEPT !.require = SetResult(@, {c.process[i].name},
                                         c.process[i].ips \cup ips),
                   !.process = IF ips = {} THEN @ ELSE Selected(@, DOMAIN @ \ {i})]

(* dns_get_ip: the answer to a query of this process, with addresses ips.  *)
TakeAnswer(c, i, ips) ==
    IF c.process[i].mode6 /\ c.process[i].is6
    THEN [c EXCEPT !.session = @ + 1,
                   !.process[i] = AsksIPv4(@, ips, c.session + 1)]
    ELSE [c EXCEPT !.require = SetResult(@, {c.process[i].name},
                                         c.process[i].ips \cup ips),
                   !.process = Selected(@, DOMAIN @ \ {i})]

(* dns_run with a packet: answers with an error code change nothing.       *)
dns_run_rx(c, session, ips, good) ==
    IF Forgotten(c) THEN Cleared(c)
    ELSE Settle(IF good /\ \E i \in DOMAIN c.process : c.process[i].session = session
                THEN TakeAnswer(c, CHOOSE i \in DOMAIN c.process :
                                      c.process[i].session = session, ips)
                ELSE c)

(* The next place with a valid server, or MAX_DNS_SERVER.                  *)
NextServer(s) ==
    CHOOSE t \in {t \in Servers : t >= s} \cup {MAX_DNS_SERVER} :
        \A u \in Servers : u >= s => t <= u

(* A due process after its retries: what it asks for next, or that it has  *)
(* failed (and whether new_result says so).                                *)
GoesOn(p) ==
    [fails |-> NextServer(p.srv) = MAX_DNS_SERVER, news |-> FALSE,
     p |-> [p EXCEPT !.srv = NextServer(p.srv), !.asked = TRUE, !.due = FALSE,
                     !.asks = [s \in DOMAIN p.asks |->
                         IF s = NextServer(p.srv) /\ ~p.is6
                         THEN p.asks[s] + 1 ELSE p.asks[s]]]]
Fails(p) == [fails |-> TRUE, news |-> TRUE, p |-> p]

NextPlace(p) == IF p.srv + 1 >= MAX_DNS_SERVER THEN Fails(p)
                ELSE GoesOn([p EXCEPT !.srv = @ + 1])

BugAdvanceSoon(p) ==     \* mutant: a name that may be IPv6 is not retried
    IF ~p.asked THEN GoesOn(p)
    ELSE IF ~p.mode6 /\ p.retry + 1 < DNS_TRY_MAX THEN GoesOn([p EXCEPT !.retry = @ + 1])
    ELSE IF p.mode6 /\ p.is6 THEN GoesOn([p EXCEPT !.retry = 0, !.is6 = FALSE])
    ELSE IF p.mode6 /\ p.done6 /\ p.ips # {} THEN Fails(p)
    ELSE NextPlace([p EXCEPT !.retry = 0, !.is6 = p.mode6])

Advance(p) ==
    IF ~p.asked THEN GoesOn(p)
    ELSE IF p.retry + 1 < DNS_TRY_MAX THEN GoesOn([p EXCEPT !.retry = @ + 1])
    ELSE IF p.mode6 /\ p.is6 THEN GoesOn([p EXCEPT !.retry = 0, !.is6 = FALSE])
    ELSE IF p.mode6 /\ p.done6 /\ p.ips # {} THEN Fails(p)
    ELSE NextPlace([p EXCEPT !.retry = 0, !.is6 = p.mode6])

(* Due processes fail one after the other until one has a query to send:   *)
(* next holds what each would do, i is the one that sends.                 *)
Senders(c, next) ==
    {i \in DOMAIN next : /\ c.process[i].due /\ ~next[i].fails
                         /\ \A k \in 1..i-1 : c.process[k].due => next[k].fails}
Failing(c, next) ==
    {i \in DOMAIN next : /\ c.process[i].due /\ next[i].fails
                         /\ \A k \in 1..i-1 : c.process[k].due => next[k].fails}

Query(p) == [session |-> p.session, name |-> p.name,
             addr |-> IF p.is6 THEN "v6" ELSE "v4"]

Transmit(c, next, senders, failing) ==
    {[c EXCEPT
        !.out = IF senders = {} THEN None
                ELSE Query(next[CHOOSE i \in senders : TRUE].p),
        !.new_result = @ \/ \E i \in failing : next[i].news,
        !.require = SetResult(@, {c.process[i].name : i \in failing}, {}),
        !.process = Selected([i \in DOMAIN @ |->
                                 IF i \in senders THEN next[i].p ELSE @[i]],
                             DOMAIN @ \ failing)]}

(* dns_run with a buffer for a query.  This and the next are sets of one   *)
(* client, so that TLC builds it once.                                     *)
dns_run_tx(c) ==
    IF Forgotten(c) THEN {Cleared(c)}
    ELSE {Settle(d) : d \in UNION
            {Transmit(c, next, Senders(c, next), Failing(c, next)) :
                next \in {[i \in DOMAIN c.process |-> Advance(c.process[i])]}}}
-----------------------------------------------------------------------------
(* luat_lwip_ec7xx.c                                                       *)

(* net_lwip_dns_check_result for every request.                            *)
Collect(c) ==
    LET done == {k \in DOMAIN c.require : c.require[k].result # None}
    IN  [c EXCEPT !.handed = @ \cup {c.require[k] : k \in done},
                  !.require = Selected(@, DOMAIN @ \ done)]

(* net_lwip_dns_tx_next                                                    *)
TxNext(c) == IF c.out # None \/ c.new_result
             THEN [Collect(c) EXCEPT !.new_result = FALSE] ELSE c
net_lwip_dns_tx_next(c) == {TxNext(d) : d \in dns_run_tx(c)}

(* net_lwip_dns_recv_cb: the results, then a query if one is due.          *)
RxNext(c) == IF c.out # None THEN Collect(c) ELSE c
net_lwip_dns_recv_cb(c, session, ips, good) ==
    {RxNext(e) : e \in UNION {dns_run_tx(Collect(d)) :
                    d \in {dns_run_rx(c, session, ips, good)}}}

Ids(rs) == {rs[i].id : i \in DOMAIN rs}

(* The client is c now, left the queries on their way before; of those the *)
(* ones of a session that is over need not be told apart (see Stray).  A   *)
(* request that is neither waiting nor handed out is dropped: nobody hears *)
(* of it.                                                                  *)
Becomes(c, left) ==
    /\ process_head' = c.process /\ require_head' = c.require
    /\ is_run' = c.is_run /\ new_result' = c.new_result
    /\ session_id' = c.session
    /\ queries' = {q \in (left \cup {c.out}) \ {None} :
                      \E i \in DOMAIN c.process : c.process[i].session = q.session}
    /\ given' = [r \in Requests |->
          IF \E h \in c.handed : h.id = r
          THEN (CHOOSE h \in c.handed : h.id = r).result ELSE given[r]]
    /\ status' = [r \in Requests |->
          IF \E h \in c.handed : h.id = r
          THEN (IF given'[r] = {} THEN "failed" ELSE "found")
          ELSE IF r \in Ids(c.require) THEN "asked"
          ELSE IF status[r] = "asked" THEN "dropped"
          ELSE status[r]]

(* EV_LWIP_SOCKET_DNS: a request of a ctrl, while the link is up.          *)
Require(r) ==
    /\ lwip_netif /\ status[r] = "idle"
    /\ dns_timer' = (dns_timer \/ ~is_run)
    /\ \E c \in UNION {net_lwip_dns_tx_next(d) : d \in {dns_require_ipv6(Client, r)}} :
          Becomes(c, queries)
    /\ UNCHANGED <<lwip_netif, downs, told>>

(* EV_LWIP_COMMON_TIMER, every 1000 ms while the timer runs.               *)
CommonTimer ==
    /\ dns_timer
    /\ \E c \in net_lwip_dns_tx_next(Client) : Becomes(c, queries)
    /\ dns_timer' = is_run'
    /\ UNCHANGED <<lwip_netif, downs, told>>

(* An answer to a query, in any order and however late, with the addresses *)
(* ips, with none, or with an error code.  If it comes once more, it finds *)
(* its session over, or had an error code: see Stray.                      *)
Answered(q, ips, good) ==
    /\ lwip_netif
    /\ good \/ ips = {}
    /\ \E c \in net_lwip_dns_recv_cb(Client, q.session, ips, good) :
          Becomes(c, queries \ {q})
    /\ dns_timer' = (dns_timer /\ is_run')
    /\ told' = [told EXCEPT ![q.name] =
                    @ \cup IF good /\ ips = {} THEN {"none"} ELSE ips]
    /\ UNCHANGED <<lwip_netif, downs>>

(* A datagram of no session, or the answer to one that is over, has no     *)
(* effect of its own, but what is due is sent.                             *)
Stray ==
    /\ lwip_netif
    /\ \E c \in net_lwip_dns_recv_cb(Client, 0, {}, FALSE) : Becomes(c, queries)
    /\ dns_timer' = (dns_timer /\ is_run')
    /\ UNCHANGED <<lwip_netif, downs, told>>

(* net_lwip_check_network_ready: the link goes down or comes back.         *)
LinkDown ==
    /\ lwip_netif /\ downs < MaxDowns
    /\ lwip_netif' = FALSE /\ downs' = downs + 1
    /\ \E c \in {Cleared(Client)} : Becomes(c, queries)
    /\ UNCHANGED <<dns_timer, told>>

LinkUp ==
    /\ ~lwip_netif
    /\ lwip_netif' = TRUE
    /\ UNCHANGED <<clientVars, dns_timer, queries, downs, historyVars>>

(* Time passes: DNS_TO_BASE * (retry_cnt + 1) since the query of a process.*)
Expire(i) ==
    /\ ~process_head[i].due
    /\ process_head' = [process_head EXCEPT ![i].due = TRUE]
    /\ UNCHANGED <<require_head, is_run, new_result, session_id, dns_timer,
                   lwip_netif, queries, downs, historyVars>>
-----------------------------------------------------------------------------
Init ==
    /\ process_head = <<>> /\ require_head = <<>>
    /\ is_run = FALSE /\ new_result = FALSE /\ session_id = 0
    /\ dns_timer = FALSE /\ lwip_netif = TRUE
    /\ queries = {} /\ downs = 0
    /\ status = [r \in Requests |-> "idle"]
    /\ given = [r \in Requests |-> {}]
    /\ told = [n \in Names |-> {}]

Time == \E i \in DOMAIN process_head : Expire(i)

Next ==
    \/ \E r \in Requests : Require(r)
    \/ CommonTimer
    \/ \E q \in queries, good \in BOOLEAN :
          \E ips \in {{}, {q.addr}} : Answered(q, ips, good)
    \/ Stray
    \/ LinkDown \/ LinkUp
    \/ Time

Spec == Init /\ [][Next]_vars

(* Time goes by and the timer's event is handled.  They share one fairness *)
(* condition: queries come due so often only until the timer sends again.  *)
FairSpec == Spec /\ WF_vars(Time \/ CommonTimer)
-----------------------------------------------------------------------------
(* Properties                                                              *)

(* Type invariant.                                                         *)
DnsTypeOK ==
    /\ \A i \in DOMAIN process_head :
          /\ process_head[i].name \in Names
          /\ process_head[i].srv \in 0..MAX_DNS_SERVER - 1
          /\ process_head[i].retry \in 0..DNS_TRY_MAX - 1
          /\ process_head[i].ips \subseteq Addrs
          /\ process_head[i].session \in 1..session_id
    /\ \A i \in DOMAIN require_head : require_head[i].id \in Requests
    /\ {is_run, new_result, dns_timer, lwip_netif} \subseteq BOOLEAN

(* The name of a process is read from the buffer of the request that began *)
(* it (uri_buf, "static, not to be freed"): that request is still waiting, *)
(* so the buffer has not been freed.                                       *)
UriOwned ==
    \A i \in DOMAIN process_head : \E k \in DOMAIN require_head :
        /\ require_head[k].id = process_head[i].uri
        /\ require_head[k].result = None

(* What dns_run and the requests leave in the two lists.                   *)
ListsInOrder == DnsTypeOK /\ UriOwned

(* While anything waits the timer runs, although it is stopped in one      *)
(* callback and started in another that looks at is_run only.              *)
TimerDrives ==
    process_head # <<>> \/ require_head # <<>> => dns_timer

(* A name for which no server has said anything is given up only after     *)
(* every valid server was asked for it DNS_TRY_MAX times, unless the link  *)
(* is lost.                                                                *)
GivenUpAfterAll ==
    [][\A i \in DOMAIN process_head :
          \/ HasName(process_head', process_head[i].name)
          \/ ~lwip_netif'
          \/ told'[process_head[i].name] # {}
          \/ \A s \in Servers : process_head[i].asks[s] >= DNS_TRY_MAX]_vars

(* In the end nobody waits, whatever answers come or do not come.          *)
RequestsEndInTheEnd == <>[](\A r \in Requests : status[r] # "asked")

Promise == INSTANCE DnsPromise WITH Addrs <- Addrs \cup {"none"}

(* A request is ended at most once, and found only with addresses that a   *)
(* server gave for its own name, however late answers are and whichever    *)
(* session they belong to.                                                 *)
KeepsPromise == Promise!PromiseSpec
=============================================================================

-------------------------- MODULE DnsClientProofs --------------------------
(***************************************************************************)
(* Proofs about DnsClient, for any requests, names, servers, numbers of    *)
(* tries and losses of the link, and answers in any order.                 *)
(*                                                                         *)
(* The functions of the client are operators on its record, so the         *)
(* invariant is stated of a record (Sound), with a lemma per function.     *)
(***************************************************************************)
EXTENDS DnsClient, OrdersProofs

Places == 0 .. MAX_DNS_SERVER - 1

Processes == [name : Names, session : Nat, retry : 0 .. DNS_TRY_MAX - 1,
              srv : Places, ips : SUBSET Addrs, mode6 : BOOLEAN,
              is6 : BOOLEAN, done6 : BOOLEAN, asked : BOOLEAN, due : BOOLEAN,
              uri : Requests, asks : [Places -> Nat]]
Requires  == [id : Requests, result : {None} \cup SUBSET Addrs]
Results   == [id : Requests, result : SUBSET Addrs]

Clients == [process : Seq(Processes), require : Seq(Requires), is_run : BOOLEAN,
            new_result : BOOLEAN, session : Nat, out : {None} \cup Queries,
            handed : SUBSET Results]

Words == Addrs \cup {"none"}

\* A process is known by its session, and by its name.
Distinct(c) ==
    /\ \A i \in DOMAIN c.process : c.process[i].session \in 1 .. c.session
    /\ \A i, j \in DOMAIN c.process :
          \/ c.process[i].session = c.process[j].session
          \/ c.process[i].name = c.process[j].name
          => i = j

\* The request whose buffer a process reads still waits.
Borrowed(c) == \A i \in DOMAIN c.process :
    /\ nameOf[c.process[i].uri] = c.process[i].name
    /\ \E k \in DOMAIN c.require : /\ c.require[k].id = c.process[i].uri
                                   /\ c.require[k].result = None

\* A request waits once, and no more when its result has been given out.
WaitsOnce(c) ==
    /\ \A k, l \in DOMAIN c.require : c.require[k].id = c.require[l].id => k = l
    /\ \A h \in c.handed : h.id \notin Ids(c.require)

\* Addresses come from servers: know are those that were given for a name,
\* limit those that a request may get.
Justified(c, know, limit) ==
    /\ \A i \in DOMAIN c.process : c.process[i].ips \subseteq know[c.process[i].name]
    /\ \A k \in DOMAIN c.require :
          c.require[k].result # None => c.require[k].result \subseteq limit[c.require[k].id]
    /\ \A h \in c.handed : h.result \subseteq limit[h.id]

\* How often a process has asked each server, as long as none has answered.
Counted(p, know) == know[p.name] = {} =>
    /\ ~ p.done6 /\ (p.is6 => p.mode6)
    /\ ~ p.asked => p.srv = 0 /\ p.retry = 0
    /\ p.asked => /\ p.srv \in Servers
                  /\ \A s \in Servers : s < p.srv => p.asks[s] >= DNS_TRY_MAX
                  /\ ~ p.is6 => p.asks[p.srv] > p.retry

\* The query that has been put together is one of a process.
Sends(c) == c.out # None =>
    \E i \in DOMAIN c.process : /\ c.process[i].session = c.out.session
                                /\ c.process[i].name = c.out.name

Sound(c, know, limit) ==
    /\ c \in Clients
    /\ Distinct(c) /\ Borrowed(c) /\ WaitsOnce(c) /\ Sends(c)
    /\ Justified(c, know, limit)
    /\ \A i \in DOMAIN c.process : Counted(c.process[i], know)

Limit(know) == [r \in Requests |-> know[nameOf[r]]]

Waiting(c) == c.process # <<>> \/ c.require # <<>>

HistoryOk ==
    /\ told \in [Names -> SUBSET Words]
    /\ status \in [Requests -> {"idle", "asked", "found", "failed", "dropped"}]
    /\ given \in [Requests -> SUBSET Addrs]
    /\ \A r \in Requests : /\ status[r] = "asked" <=> r \in Ids(require_head)
                           /\ status[r] \in {"idle", "asked"} => given[r] = {}

QueriesOk ==
    /\ queries \subseteq Queries
    /\ \A q \in queries : /\ q.session <= session_id
                          /\ \A i \in DOMAIN process_head :
                                process_head[i].session = q.session =>
                                process_head[i].name = q.name

TimerOk == /\ Waiting(Client) => is_run
           /\ is_run => dns_timer
           /\ {is_run, new_result, dns_timer, lwip_netif} \subseteq BOOLEAN

DnsInv == Sound(Client, told, Limit(told)) /\ HistoryOk /\ QueriesOk /\ TimerOk
----------------------------------------------------------------------------
\* Servers are tried in the order of their places.
LEMMA NextServerIs ==
    ASSUME NEW s \in Nat
    PROVE  \/ NextServer(s) = MAX_DNS_SERVER /\ \A t \in Servers : t < s
           \/ /\ NextServer(s) \in Servers /\ NextServer(s) \in Places
              /\ NextServer(s) >= s /\ NextServer(s) # MAX_DNS_SERVER
              /\ \A t \in Servers : t < NextServer(s) => t < s
<1> DEFINE S == {t \in Servers : t >= s}
           P(t) == \A u \in Servers : u >= s => t <= u
<1>1. MAX_DNS_SERVER \in Nat /\ Servers \subseteq Places
  BY DnsAssumption DEF Places
<1>2. \A t \in Servers : t \in Nat /\ t \in Places /\ t < MAX_DNS_SERVER
  BY <1>1 DEF Places
<1>3. CASE S = {}
  <2>1. P(MAX_DNS_SERVER)
    BY <1>3
  <2>2. NextServer(s) = CHOOSE t \in {MAX_DNS_SERVER} : P(t)
    BY <1>3 DEF NextServer
  <2>3. NextServer(s) = MAX_DNS_SERVER
    BY <2>1, <2>2
  <2> QED BY <1>2, <1>3, <2>3
<1>4. CASE S # {}
  <2>1. IsFiniteSet(Places) /\ S \subseteq Places
    <3>1. MAX_DNS_SERVER - 1 \in Int /\ 0 \in Int
      BY <1>1
    <3>2. IsFiniteSet(0 .. MAX_DNS_SERVER - 1)
      BY <3>1, FS_Interval
    <3> QED BY <1>1, <3>2 DEF Places
  <2>2. IsFiniteSet(S) /\ S \subseteq Int
    BY <1>2, <2>1, FS_Subset
  <2>3. PICK i \in S : \A j \in S : i <= j
    BY <1>4, <2>2, LeastIs
  <2>4. i \in S \cup {MAX_DNS_SERVER} /\ P(i)
    BY <2>3
  <2>5. NextServer(s) = CHOOSE t \in S \cup {MAX_DNS_SERVER} : P(t)
    BY DEF NextServer
  <2>6. NextServer(s) \in S \cup {MAX_DNS_SERVER} /\ P(NextServer(s))
    BY <2>4, <2>5
  <2>7. NextServer(s) <= i /\ i < MAX_DNS_SERVER
    BY <1>2, <2>3, <2>6
  <2>8. NextServer(s) \in S /\ NextServer(s) # MAX_DNS_SERVER
    BY <1>1, <1>2, <2>3, <2>6, <2>7
  <2>9. \A t \in Servers : t < NextServer(s) => t < s
    BY <1>2, <2>6, <2>8
  <2> QED BY <1>2, <2>8, <2>9
<1> QED BY <1>3, <1>4

\* What a process is known by, and what it has, goes through a query.
Same(p, q) == /\ p.name = q.name /\ p.session = q.session /\ p.uri = q.uri
              /\ p.ips = q.ips

\* The servers have been asked for a name as often as they are to be.
AskedAll(p) == \A s \in Servers : p.asks[s] >= DNS_TRY_MAX

\* A process that is about to ask: the servers before its place are done with.
Ready(p, know) == know[p.name] = {} =>
    /\ ~ p.done6 /\ (p.is6 => p.mode6)
    /\ \A s \in Servers : s < p.srv => p.asks[s] >= DNS_TRY_MAX
    /\ p.srv \notin Servers => p.retry = 0
    /\ p.retry > 0 /\ ~ p.is6 => p.asks[p.srv] >= p.retry

\* GoesOn finds the next server for a process and counts its query.
LEMMA GoesOnIs ==
    ASSUME NEW p \in Processes, NEW know, Ready(p, know)
    PROVE  LET g == GoesOn(p)
           IN  /\ g.fails \in BOOLEAN
               /\ ~ g.fails => /\ g.p \in Processes /\ Same(g.p, p)
                               /\ Counted(g.p, know)
               /\ g.fails /\ know[p.name] = {} => AskedAll(p)
<1> DEFINE n == NextServer(p.srv)
           g == GoesOn(p)
<1>1. /\ p.srv \in Nat /\ p.srv \in Places /\ p.asks \in [Places -> Nat]
      /\ p.retry \in Nat /\ DOMAIN p.asks = Places /\ p.is6 \in BOOLEAN
  BY DEF Processes, Places
<1>2. \/ n = MAX_DNS_SERVER /\ \A t \in Servers : t < p.srv
      \/ /\ n \in Servers /\ n \in Places /\ n >= p.srv /\ n # MAX_DNS_SERVER
         /\ \A t \in Servers : t < n => t < p.srv
  BY <1>1, NextServerIs
<1> DEFINE asks2 == [s \in Places |-> IF s = n /\ ~ p.is6 THEN p.asks[s] + 1 ELSE p.asks[s]]
           q == [p EXCEPT !.srv = n, !.asked = TRUE, !.due = FALSE, !.asks = asks2]
<1>3. g.fails = (n = MAX_DNS_SERVER) /\ g.p = q
  BY <1>1 DEF GoesOn
<1> HIDE DEF n, g
<1>4. ASSUME n # MAX_DNS_SERVER
      PROVE  q \in Processes /\ Same(q, p) /\ Counted(q, know)
  <2>1. asks2 \in [Places -> Nat]
    BY <1>1
  <2> HIDE DEF asks2
  <2>2. q \in Processes /\ Same(q, p)
    BY <1>2, <1>4, <2>1 DEF Processes, Same
  <2>3. /\ q.name = p.name /\ q.done6 = p.done6 /\ q.is6 = p.is6 /\ q.mode6 = p.mode6
        /\ q.asked = TRUE /\ q.srv = n /\ q.retry = p.retry /\ q.asks = asks2
    BY DEF Processes
  <2> HIDE DEF q
  <2>4. ASSUME know[p.name] = {} PROVE Counted(q, know)
    <3>1. Servers \subseteq Places /\ \A s \in Places : s \in Nat
      BY DnsAssumption DEF Places
    <3>2. \A s \in Servers : s < n => asks2[s] = p.asks[s] /\ s < p.srv
      BY <1>2, <1>4, <3>1 DEF asks2
    <3>3. \A s \in Servers : s < n => asks2[s] >= DNS_TRY_MAX
      BY <2>4, <3>2 DEF Ready
    <3>4. ~ p.is6 => asks2[n] > p.retry
      <4>1. SUFFICES ASSUME ~ p.is6 PROVE asks2[n] > p.retry
        OBVIOUS
      <4>2. asks2[n] = p.asks[n] + 1 /\ p.asks[n] \in Nat
        BY <1>1, <1>2, <1>4, <4>1 DEF asks2
      <4>3. CASE p.retry = 0
        BY <4>2, <4>3
      <4>4. CASE p.retry > 0
        <5>1. p.srv \in Servers /\ p.asks[p.srv] >= p.retry
          BY <2>4, <4>1, <4>4 DEF Ready
        <5>2. n = p.srv
          <6>1. n \in Nat /\ ~ (p.srv < n)
            BY <1>1, <1>2, <1>4, <3>1, <5>1
          <6> QED BY <1>1, <1>2, <1>4, <6>1
        <5> QED BY <1>1, <4>2, <5>1, <5>2
      <4> QED BY <1>1, <4>3, <4>4
    <3> QED BY <1>2, <1>4, <2>3, <2>4, <3>3, <3>4 DEF Counted, Ready
  <2> QED BY <2>2, <2>3, <2>4 DEF Counted
<1>5. n = MAX_DNS_SERVER /\ know[p.name] = {} => AskedAll(p)
  BY <1>2 DEF Ready, AskedAll
<1> QED BY <1>3, <1>4, <1>5 DEF g

\* What becomes of a due process p: it goes on as g.p or fails, which it does
\* only when all servers were asked or one has answered.
Advances(g, p, know) ==
    /\ g.fails \in BOOLEAN /\ g.news \in BOOLEAN
    /\ ~ g.fails => g.p \in Processes /\ Same(g.p, p) /\ Counted(g.p, know)
    /\ g.fails /\ know[p.name] = {} => AskedAll(p)

\* Advance climbs the ladder of tries, address families and servers.
LEMMA AdvanceIs ==
    ASSUME NEW p \in Processes, NEW know, Counted(p, know)
    PROVE  Advances(Advance(p), p, know)
<1>1. /\ p.srv \in Nat /\ p.srv < MAX_DNS_SERVER /\ p.retry \in Nat
      /\ p.asks \in [Places -> Nat] /\ p.retry < DNS_TRY_MAX
      /\ {p.is6, p.mode6, p.done6, p.asked} \subseteq BOOLEAN
      /\ MAX_DNS_SERVER \in Nat \ {0} /\ DNS_TRY_MAX \in Nat \ {0}
      /\ Servers \subseteq Places /\ \A s \in Places : s \in Nat /\ s < MAX_DNS_SERVER
  BY DnsAssumption DEF Processes, Places
<1>0. 0 \in 0 .. DNS_TRY_MAX - 1
  BY <1>1
<1>2. ASSUME NEW q \in Processes, Ready(q, know), Same(q, p), q.asks = p.asks
      PROVE  Advances(GoesOn(q), p, know)
  <2>1. GoesOn(q).news = FALSE
    BY DEF GoesOn
  <2> QED BY <1>2, <2>1, GoesOnIs DEF Advances, Same, AskedAll
<1>3. CASE ~ p.asked
  <2>1. Ready(p, know)
    BY <1>1, <1>3 DEF Counted, Ready
  <2> QED BY <1>2, <1>3, <2>1 DEF Advance, Same
<1>4. CASE p.asked /\ p.retry + 1 < DNS_TRY_MAX
  <2> DEFINE q == [p EXCEPT !.retry = @ + 1]
  <2>1. q \in Processes /\ Same(q, p) /\ q.asks = p.asks
    BY <1>1, <1>4 DEF Processes, Same
  <2>2. /\ q.name = p.name /\ q.done6 = p.done6 /\ q.is6 = p.is6 /\ q.mode6 = p.mode6
        /\ q.srv = p.srv /\ q.retry = p.retry + 1
    BY DEF Processes
  <2>3. p.srv \in Places
    BY DEF Processes
  <2>4. p.asks[p.srv] \in Nat
    BY <1>1, <2>3
  <2> HIDE DEF q
  <2>5. Ready(q, know)
    BY <1>1, <1>4, <2>1, <2>2, <2>4 DEF Counted, Ready
  <2>6. Advance(p) = GoesOn(q)
    BY <1>4 DEF Advance, q
  <2> QED BY <1>2, <2>1, <2>5, <2>6
<1>5. CASE p.asked /\ ~ (p.retry + 1 < DNS_TRY_MAX) /\ p.mode6 /\ p.is6
  <2> DEFINE q == [p EXCEPT !.retry = 0, !.is6 = FALSE]
  <2>1. q \in Processes /\ Same(q, p) /\ q.asks = p.asks
    BY <1>0 DEF Processes, Same
  <2>2. /\ q.name = p.name /\ q.done6 = p.done6 /\ q.is6 = FALSE
        /\ q.srv = p.srv /\ q.retry = 0
    BY DEF Processes
  <2> HIDE DEF q
  <2>5. Ready(q, know)
    BY <1>1, <1>5, <2>1, <2>2 DEF Counted, Ready
  <2>6. Advance(p) = GoesOn(q)
    BY <1>5 DEF Advance, q
  <2> QED BY <1>2, <2>1, <2>5, <2>6
<1>6. CASE /\ p.asked /\ ~ (p.retry + 1 < DNS_TRY_MAX) /\ ~ (p.mode6 /\ p.is6)
           /\ p.mode6 /\ p.done6 /\ p.ips # {}
  <2>1. Advance(p) = Fails(p)
    BY <1>6 DEF Advance
  <2> QED BY <1>6, <2>1 DEF Advances, Fails, Counted
<1>7. CASE /\ p.asked /\ ~ (p.retry + 1 < DNS_TRY_MAX) /\ ~ (p.mode6 /\ p.is6)
           /\ ~ (p.mode6 /\ p.done6 /\ p.ips # {})
  <2> DEFINE q0 == [p EXCEPT !.retry = 0, !.is6 = p.mode6]
             q  == [q0 EXCEPT !.srv = @ + 1]
  <2>1. Advance(p) = NextPlace(q0) /\ q0.srv = p.srv
    BY <1>7 DEF Advance, Processes
  <2>2. ASSUME know[p.name] = {}
        PROVE  /\ \A s \in Servers : s < p.srv + 1 => p.asks[s] >= DNS_TRY_MAX
               /\ ~ p.done6
    <3>1. p.srv \in Servers /\ p.asks[p.srv] > p.retry /\ p.retry + 1 >= DNS_TRY_MAX
      BY <1>1, <1>7, <2>2 DEF Counted
    <3>2. p.asks[p.srv] \in Nat
      BY <1>1, <3>1
    <3>3. p.asks[p.srv] >= DNS_TRY_MAX
      BY <1>1, <3>1, <3>2
    <3>4. \A s \in Servers : s < p.srv + 1 => s < p.srv \/ s = p.srv
      BY <1>1
    <3> QED BY <1>7, <2>2, <3>3, <3>4 DEF Counted
  <2>3. CASE p.srv + 1 >= MAX_DNS_SERVER
    <3>1. Advance(p) = Fails(q0)
      BY <2>1, <2>3 DEF NextPlace
    <3>2. \A s \in Servers : s < p.srv + 1
      BY <1>1, <2>3
    <3> QED BY <2>2, <3>1, <3>2 DEF Advances, Fails, AskedAll
  <2>4. CASE p.srv + 1 < MAX_DNS_SERVER
    <3>1. p.srv + 1 \in Places
      BY <1>1, <2>4 DEF Places
    <3>2. q \in Processes /\ Same(q, p) /\ q.asks = p.asks
      BY <1>0, <3>1 DEF Processes, Same
    <3>3. /\ q.name = p.name /\ q.done6 = p.done6 /\ q.is6 = p.mode6 /\ q.mode6 = p.mode6
          /\ q.srv = p.srv + 1 /\ q.retry = 0
      BY DEF Processes
    <3>4. Advance(p) = GoesOn(q)
      BY <1>1, <2>1, <2>4 DEF NextPlace
    <3> HIDE DEF q, q0
    <3>5. Ready(q, know)
      BY <1>1, <2>2, <3>2, <3>3 DEF Ready
    <3> QED BY <1>2, <3>2, <3>4, <3>5
  <2> QED BY <1>1, <2>3, <2>4
<1> QED BY <1>3, <1>4, <1>5, <1>6, <1>7

\* SetResult gives a result to the requests of some names that have none yet.
LEMMA SetResultIs ==
    ASSUME NEW rs \in Seq(Requires), NEW names, NEW ips \in SUBSET Addrs
    PROVE  LET ts == SetResult(rs, names, ips)
           IN  /\ ts \in Seq(Requires) /\ DOMAIN ts = DOMAIN rs
               /\ \A k \in DOMAIN rs :
                     /\ ts[k].id = rs[k].id
                     /\ IF rs[k].result = None /\ nameOf[rs[k].id] \in names
                        THEN ts[k].result = ips ELSE ts[k].result = rs[k].result
<1> DEFINE ts == SetResult(rs, names, ips)
           new(q) == [q EXCEPT !.result = ips]
<1>1. rs \in [1 .. Len(rs) -> Requires] /\ Len(rs) \in Nat /\ DOMAIN rs = 1 .. Len(rs)
  OBVIOUS
<1>2. \A q \in Requires : new(q) \in Requires /\ new(q).id = q.id /\ new(q).result = ips
  BY DEF Requires
<1>3. ts = [k \in DOMAIN rs |-> IF rs[k].result = None /\ nameOf[rs[k].id] \in names
                                THEN new(rs[k]) ELSE rs[k]]
  BY DEF SetResult
<1> HIDE DEF ts, new
<1>4. ts \in [1 .. Len(rs) -> Requires]
  BY <1>1, <1>2, <1>3
<1>5. ts \in Seq(Requires) /\ DOMAIN ts = DOMAIN rs
  BY <1>1, <1>4
<1>6. \A k \in DOMAIN rs :
         /\ ts[k].id = rs[k].id
         /\ IF rs[k].result = None /\ nameOf[rs[k].id] \in names
            THEN ts[k].result = ips ELSE ts[k].result = rs[k].result
  BY <1>1, <1>2, <1>3
<1> QED BY <1>5, <1>6 DEF ts
----------------------------------------------------------------------------
\* A list without places is empty, and the other way round.
LEMMA EmptyList ==
    ASSUME NEW T, NEW s \in Seq(T)
    PROVE  s = <<>> <=> DOMAIN s = {}
<1>1. s = <<>> => DOMAIN s = {}
  OBVIOUS
<1>2. ASSUME DOMAIN s = {} PROVE s = <<>>
  <2>1. Len(s) \in Nat /\ DOMAIN s = 1 .. Len(s)
    OBVIOUS
  <2>2. Len(s) = 0
    <3>1. Len(s) # 0 => 1 \in 1 .. Len(s)
      BY <2>1
    <3> QED BY <1>2, <2>1, <3>1
  <2> QED BY <2>2
<1> QED BY <1>1, <1>2

\* The parts of a client.
LEMMA ClientShape ==
    ASSUME NEW c \in Clients
    PROVE  /\ c.process \in Seq(Processes) /\ c.require \in Seq(Requires)
           /\ c.is_run \in BOOLEAN /\ c.new_result \in BOOLEAN /\ c.session \in Nat
           /\ c.out \in {None} \cup Queries /\ c.handed \subseteq Results
           /\ \A i \in DOMAIN c.process :
                 /\ c.process[i] \in Processes /\ c.process[i].name \in Names
                 /\ c.process[i].session \in Nat /\ c.process[i].uri \in Requests
                 /\ c.process[i].ips \subseteq Addrs
           /\ \A k \in DOMAIN c.require :
                 /\ c.require[k] \in Requires /\ c.require[k].id \in Requests
                 /\ c.require[k].result \in {None} \cup SUBSET Addrs
           /\ \A h \in c.handed : h.id \in Requests /\ h.result \subseteq Addrs
<1>1. /\ c.process \in Seq(Processes) /\ c.require \in Seq(Requires)
      /\ c.is_run \in BOOLEAN /\ c.new_result \in BOOLEAN /\ c.session \in Nat
      /\ c.out \in {None} \cup Queries /\ c.handed \subseteq Results
  BY DEF Clients
<1>2. \A i \in DOMAIN c.process : c.process[i] \in Processes
  BY <1>1
<1>3. \A k \in DOMAIN c.require : c.require[k] \in Requires
  BY <1>1
<1>4. \A p \in Processes : /\ p.name \in Names /\ p.session \in Nat
                           /\ p.uri \in Requests /\ p.ips \subseteq Addrs
  BY DEF Processes
<1>5. /\ \A q \in Requires : q.id \in Requests /\ q.result \in {None} \cup SUBSET Addrs
      /\ \A h \in Results : h.id \in Requests /\ h.result \subseteq Addrs
  BY DEF Requires, Results
<1> QED BY <1>1, <1>2, <1>3, <1>4, <1>5

\* What a function of the client makes of c: processes are those of before or
\* have a session of their own, and no request appears.
Follows(c, d) ==
    /\ c.session <= d.session
    /\ \A j \in DOMAIN d.process :
          \/ d.process[j].session > c.session
          \/ \E i \in DOMAIN c.process : /\ d.process[j].session = c.process[i].session
                                         /\ d.process[j].name = c.process[i].name
    /\ Ids(d.require) \cup {h.id : h \in d.handed}
          \subseteq Ids(c.require) \cup {h.id : h \in c.handed}
    /\ ~ Waiting(c) => ~ Waiting(d)

\* A name that is given up was asked of all servers, if none has answered.
GivesUp(c, d, know) == \A i \in DOMAIN c.process :
    \/ HasName(d.process, c.process[i].name)
    \/ know[c.process[i].name] # {}
    \/ AskedAll(c.process[i])

\* Functions follow one another.
LEMMA FollowsOn ==
    ASSUME NEW b \in Clients, NEW c \in Clients, NEW d \in Clients,
           Follows(b, c), Follows(c, d)
    PROVE  Follows(b, d)
<1>1. /\ b.session \in Nat /\ c.session \in Nat /\ d.session \in Nat
      /\ \A j \in DOMAIN d.process : d.process[j].session \in Nat
      /\ \A j \in DOMAIN c.process : c.process[j].session \in Nat
  BY ClientShape
<1>2. ASSUME NEW j \in DOMAIN d.process
      PROVE  \/ d.process[j].session > b.session
             \/ \E i \in DOMAIN b.process :
                   /\ d.process[j].session = b.process[i].session
                   /\ d.process[j].name = b.process[i].name
  BY <1>1, <1>2 DEF Follows
<1> QED BY <1>1, <1>2 DEF Follows

\* The processes at the places in gone leave the list, which ends the requests
\* of their names with ips; the others are as nx says.
Leaves(c, d, nx, gone, ips) ==
    /\ gone \subseteq DOMAIN c.process /\ ips \subseteq Addrs
    /\ nx \in Seq(Processes) /\ DOMAIN nx = DOMAIN c.process
    /\ d \in Clients /\ d.session = c.session /\ d.handed = c.handed
    /\ d.process = Selected(nx, DOMAIN c.process \ gone)
    /\ d.require = SetResult(c.require, {c.process[i].name : i \in gone}, ips)
    /\ d.out # None => \E i \in DOMAIN c.process \ gone :
          d.out.session = c.process[i].session /\ d.out.name = c.process[i].name

\* Processes leave the list.
LEMMA LeaveIs ==
    ASSUME NEW c, NEW know, NEW limit, Sound(c, know, limit),
           NEW d, NEW nx, NEW F, NEW ips, Leaves(c, d, nx, F, ips),
           \A i \in DOMAIN nx : Same(nx[i], c.process[i]) /\ Counted(nx[i], know),
           \A i \in F, r \in Requests :
              nameOf[r] = c.process[i].name => ips \subseteq limit[r]
    PROVE  /\ Sound(d, know, limit) /\ Follows(c, d)
           /\ \A i \in DOMAIN nx \ F : \E k \in DOMAIN d.process : d.process[k] = nx[i]
<1> DEFINE P == c.process
           ps == d.process
           rs == d.require
           K == DOMAIN P \ F
           names == {P[i].name : i \in F}
<1>1. /\ c \in Clients /\ P \in Seq(Processes) /\ c.require \in Seq(Requires)
      /\ d \in Clients /\ ps \in Seq(Processes) /\ rs \in Seq(Requires)
  BY ClientShape DEF Sound, Leaves
<1>2. /\ K \in SUBSET DOMAIN nx /\ ps = Selected(nx, K) /\ rs = SetResult(c.require, names, ips)
      /\ nx \in Seq(Processes) /\ ips \in SUBSET Addrs /\ F \subseteq DOMAIN P
      /\ DOMAIN nx = DOMAIN P /\ d.session = c.session /\ d.handed = c.handed
  BY DEF Leaves
<1> HIDE DEF K, names
<1>3. \A i \in K : \E k \in DOMAIN ps : ps[k] = nx[i]
  BY <1>2, SelectedLists
<1>4. \E f \in [DOMAIN ps -> K] :
            /\ \A k \in DOMAIN ps : ps[k] = nx[f[k]]
            /\ \A k, l \in DOMAIN ps : f[k] = f[l] => k = l
  <2>1. K \in SUBSET DOMAIN nx /\ nx \in Seq(Processes)
    BY <1>2
  <2>2. ps = Selected(nx, K)
    BY <1>2
  <2> HIDE DEF ps
  <2>3. \E at \in [DOMAIN Selected(nx, K) -> K] :
           /\ \A k \in DOMAIN Selected(nx, K) : Selected(nx, K)[k] = nx[at[k]]
           /\ \A k, l \in DOMAIN Selected(nx, K) : at[k] = at[l] => k = l
    BY <2>1, SelectedLists, Zenon
  <2> QED BY <2>2, <2>3
<1>5. PICK at \in [DOMAIN ps -> K] :
        /\ \A k \in DOMAIN ps : ps[k] = nx[at[k]]
        /\ \A k, l \in DOMAIN ps : at[k] = at[l] => k = l
  BY <1>4
<1>6. /\ DOMAIN rs = DOMAIN c.require
      /\ \A k \in DOMAIN rs :
            /\ rs[k].id = c.require[k].id
            /\ IF c.require[k].result = None /\ nameOf[rs[k].id] \in names
               THEN rs[k].result = ips ELSE rs[k].result = c.require[k].result
  <2>1. /\ DOMAIN rs = DOMAIN c.require
        /\ \A k \in DOMAIN c.require :
              /\ rs[k].id = c.require[k].id
              /\ IF c.require[k].result = None /\ nameOf[c.require[k].id] \in names
                 THEN rs[k].result = ips ELSE rs[k].result = c.require[k].result
    <3> HIDE DEF rs
    <3> QED BY <1>1, <1>2, SetResultIs
  <2> QED BY <2>1
<1>7. \A k \in DOMAIN ps : /\ at[k] \in DOMAIN P /\ at[k] \notin F
                           /\ Same(ps[k], P[at[k]]) /\ Counted(ps[k], know)
  BY <1>2, <1>5 DEF K
<1>8. Ids(rs) = Ids(c.require)
  BY <1>6 DEF Ids
<1>9. Distinct(d)
  <2>1. \A k \in DOMAIN ps : ps[k].session \in 1 .. d.session
    BY <1>2, <1>7 DEF Distinct, Sound, Same
  <2>2. ASSUME NEW k \in DOMAIN ps, NEW l \in DOMAIN ps,
               ps[k].session = ps[l].session \/ ps[k].name = ps[l].name
        PROVE  k = l
    <3>1. at[k] = at[l]
      BY <1>7, <2>2 DEF Distinct, Sound, Same
    <3> QED BY <1>5, <3>1
  <2> QED BY <2>1, <2>2 DEF Distinct
<1>10. Borrowed(d)
  <2> SUFFICES ASSUME NEW k \in DOMAIN ps
               PROVE  /\ nameOf[ps[k].uri] = ps[k].name
                      /\ \E m \in DOMAIN rs : rs[m].id = ps[k].uri /\ rs[m].result = None
    BY DEF Borrowed
  <2> DEFINE i == at[k]
  <2>1. i \in DOMAIN P /\ i \notin F /\ Same(ps[k], P[i])
    BY <1>7
  <2>2. nameOf[P[i].uri] = P[i].name
    BY <2>1 DEF Sound, Borrowed
  <2>3. PICK m \in DOMAIN c.require : c.require[m].id = P[i].uri /\ c.require[m].result = None
    BY <2>1 DEF Sound, Borrowed
  <2>4. P[i].name \notin names
    BY <1>2, <2>1 DEF Sound, Distinct, names
  <2>5. rs[m].id = P[i].uri /\ rs[m].result = None
    BY <1>6, <2>2, <2>3, <2>4
  <2> QED BY <1>6, <2>1, <2>2, <2>5 DEF Same
<1>11. WaitsOnce(d)
  BY <1>2, <1>6, <1>8 DEF WaitsOnce, Sound
<1>12. Justified(d, know, limit)
  <2>1. \A k \in DOMAIN rs : rs[k].id \in Requests
    BY <1>1, ClientShape
  <2>2. \A k \in DOMAIN rs : rs[k].result # None => rs[k].result \subseteq limit[rs[k].id]
    <3>1. \A k \in DOMAIN rs : nameOf[rs[k].id] \in names => ips \subseteq limit[rs[k].id]
      BY <2>1 DEF names
    <3> QED BY <1>6, <2>1, <3>1 DEF Justified, Sound
  <2>3. \A k \in DOMAIN ps : ps[k].ips \subseteq know[ps[k].name]
    BY <1>7 DEF Justified, Sound, Same
  <2> QED BY <1>2, <2>2, <2>3 DEF Justified, Sound
<1>13. Sends(d)
  <2> SUFFICES ASSUME d.out # None
               PROVE  \E k \in DOMAIN ps : /\ ps[k].session = d.out.session
                                           /\ ps[k].name = d.out.name
    BY DEF Sends
  <2>1. PICK i \in K : d.out.session = P[i].session /\ d.out.name = P[i].name
    BY DEF K, Leaves
  <2>2. PICK k \in DOMAIN ps : ps[k] = nx[i]
    BY <1>3
  <2> QED BY <1>2, <2>1, <2>2 DEF Same
<1>14. Sound(d, know, limit)
  BY <1>1, <1>7, <1>9, <1>10, <1>11, <1>12, <1>13 DEF Sound
<1>15. ~ Waiting(c) => ~ Waiting(d)
  <2> SUFFICES ASSUME P = <<>>, c.require = <<>> PROVE ps = <<>> /\ rs = <<>>
    BY DEF Waiting
  <2>1. DOMAIN P = {} /\ DOMAIN c.require = {}
    BY <1>1, EmptyList
  <2>2. DOMAIN ps = {} /\ DOMAIN rs = {}
    BY <1>6, <1>7, <2>1
  <2> QED BY <1>1, <2>2, EmptyList
<1>16. Follows(c, d)
  <2>1. c.session <= d.session
    BY <1>1, <1>2, ClientShape
  <2>2. \A j \in DOMAIN ps : \E i \in DOMAIN P : /\ ps[j].session = P[i].session
                                                 /\ ps[j].name = P[i].name
    BY <1>7 DEF Same
  <2> QED BY <1>2, <1>8, <1>15, <2>1, <2>2 DEF Follows
<1> QED BY <1>2, <1>3, <1>14, <1>16 DEF K

\* Transmit: due processes fail one after the other until one sends.
LEMMA TransmitIs ==
    ASSUME NEW c, NEW know, NEW limit, Sound(c, know, limit), NEW next,
           next = [i \in DOMAIN c.process |-> Advance(c.process[i])],
           NEW d \in Transmit(c, next, Senders(c, next), Failing(c, next))
    PROVE  Sound(d, know, limit) /\ Follows(c, d) /\ GivesUp(c, d, know)
<1> DEFINE P == c.process
           S == Senders(c, next)
           F == Failing(c, next)
           nx == [i \in DOMAIN P |-> IF i \in S THEN next[i].p ELSE P[i]]
           out == IF S = {} THEN None ELSE Query(next[CHOOSE i \in S : TRUE].p)
           news == c.new_result \/ \E i \in F : next[i].news
           names == {P[i].name : i \in F}
           rs == SetResult(c.require, names, {})
           ps == Selected(nx, DOMAIN P \ F)
<1>1. c \in Clients /\ P \in Seq(Processes) /\ \A i \in DOMAIN P : P[i] \in Processes
  BY ClientShape DEF Sound
<1>2. \A i \in DOMAIN P : next[i] = Advance(P[i]) /\ Advances(next[i], P[i], know)
  BY <1>1, AdvanceIs DEF Sound
<1>3. /\ S \subseteq DOMAIN P /\ F \subseteq DOMAIN P
      /\ \A i \in S : ~ next[i].fails
      /\ \A i \in F : next[i].fails
  BY DEF Senders, Failing
<1>4. d = [c EXCEPT !.out = out, !.new_result = news, !.require = rs, !.process = ps]
  BY DEF Transmit
<1> HIDE DEF S, F
<1>5. \A i \in DOMAIN P : nx[i] \in Processes /\ Same(nx[i], P[i]) /\ Counted(nx[i], know)
  <2> TAKE i \in DOMAIN P
  <2>1. CASE i \in S
    <3>1. nx[i] = next[i].p
      BY <2>1
    <3> QED BY <1>2, <1>3, <2>1, <3>1 DEF Advances
  <2>2. CASE i \notin S
    <3>1. nx[i] = P[i]
      BY <2>2
    <3> QED BY <1>1, <3>1 DEF Sound, Same
  <2> QED BY <2>1, <2>2
<1>6. nx \in Seq(Processes) /\ DOMAIN nx = DOMAIN P
  <2>1. Len(P) \in Nat /\ DOMAIN P = 1 .. Len(P)
    BY <1>1
  <2>2. DOMAIN nx = DOMAIN P /\ nx \in [1 .. Len(P) -> Processes]
    BY <1>5, <2>1
  <2> QED BY <2>1, <2>2
<1> HIDE DEF nx
<1>7. ps \in Seq(Processes)
  <2> DEFINE K == DOMAIN P \ F
  <2>1. K \in SUBSET DOMAIN nx /\ ps = Selected(nx, K)
    BY <1>6
  <2> HIDE DEF K, ps
  <2> QED BY <1>6, <2>1, SelectedLists
<1>8. rs \in Seq(Requires)
  <2>1. c.require \in Seq(Requires) /\ {} \in SUBSET Addrs
    BY <1>1, ClientShape
  <2> HIDE DEF names
  <2> QED BY <2>1, SetResultIs
<1> HIDE DEF ps, rs
<1>9. out \in {None} \cup Queries /\ (out # None => \E i \in S :
          out.session = P[i].session /\ out.name = P[i].name)
  <2>1. CASE S = {}
    BY <2>1
  <2>2. CASE S # {}
    <3> DEFINE i == CHOOSE i \in S : TRUE
               p == next[i].p
    <3>1. i \in S
      BY <2>2
    <3>2. p \in Processes /\ Same(p, P[i])
      BY <1>2, <1>3, <3>1 DEF Advances
    <3>3. out = Query(p)
      BY <2>2
    <3> HIDE DEF p, i
    <3>4. Query(p) \in Queries /\ Query(p).session = p.session /\ Query(p).name = p.name
      BY <3>2 DEF Query, Queries, Processes, Addrs
    <3> QED BY <3>1, <3>2, <3>3, <3>4 DEF Same
  <2> QED BY <2>1, <2>2
<1>10. news \in BOOLEAN
  BY <1>1, <1>2, <1>3, ClientShape DEF Advances
<1> HIDE DEF out, news
<1>11. /\ d \in Clients /\ d.process = ps /\ d.require = rs /\ d.out = out
       /\ d.handed = c.handed /\ d.session = c.session
  BY <1>1, <1>4, <1>7, <1>8, <1>9, <1>10 DEF Clients
<1>12. out # None => \E i \in DOMAIN P \ F :
          out.session = P[i].session /\ out.name = P[i].name
  BY <1>3, <1>9
<1>13. /\ Sound(d, know, limit) /\ Follows(c, d)
       /\ \A i \in DOMAIN nx \ F : \E k \in DOMAIN d.process : d.process[k] = nx[i]
  <2>1. \A i \in DOMAIN nx : Same(nx[i], c.process[i]) /\ Counted(nx[i], know)
    BY <1>5, <1>6
  <2>2. Leaves(c, d, nx, F, {})
    BY <1>3, <1>6, <1>11, <1>12 DEF ps, rs, Leaves
  <2> QED BY <2>1, <2>2, LeaveIs
<1>14. GivesUp(c, d, know)
  <2> SUFFICES ASSUME NEW i \in DOMAIN P
               PROVE  \/ HasName(d.process, P[i].name) \/ know[P[i].name] # {}
                      \/ AskedAll(P[i])
    BY DEF GivesUp
  <2>1. CASE i \in F
    BY <1>2, <1>3, <2>1 DEF Advances
  <2>2. CASE i \notin F
    <3>1. PICK k \in DOMAIN d.process : d.process[k] = nx[i]
      BY <1>6, <1>13, <2>2
    <3> QED BY <1>5, <3>1 DEF HasName, Same
  <2> QED BY <2>1, <2>2
<1> QED BY <1>13, <1>14

\* Flags may change.
LEMMA FlagsAre ==
    ASSUME NEW c, NEW know, NEW limit, Sound(c, know, limit), NEW d \in Clients,
           d.process = c.process, d.require = c.require, d.session = c.session,
           d.out = c.out, d.handed = c.handed
    PROVE  Sound(d, know, limit) /\ Follows(c, d)
<1>1. Sound(d, know, limit)
  BY DEF Sound, Distinct, Borrowed, WaitsOnce, Sends, Justified
<1>2. c.session <= d.session /\ c.session \in Nat
  BY ClientShape DEF Sound
<1>3. Waiting(d) = Waiting(c)
  BY DEF Waiting
<1> QED BY <1>1, <1>2, <1>3 DEF Follows

\* Settle notes whether anything is left to do.
LEMMA SettleIs ==
    ASSUME NEW c, NEW know, NEW limit, Sound(c, know, limit)
    PROVE  LET d == Settle(c)
           IN  /\ Sound(d, know, limit) /\ Follows(c, d)
               /\ d.process = c.process /\ d.out = c.out
               /\ Waiting(d) <=> d.is_run
<1> DEFINE d == Settle(c)
<1>1. c \in Clients
  BY DEF Sound
<1>2. /\ d \in Clients /\ d.process = c.process /\ d.require = c.require
      /\ d.session = c.session /\ d.out = c.out /\ d.handed = c.handed
      /\ d.is_run = (c.process # <<>> \/ c.require # <<>>)
  BY <1>1 DEF Settle, Clients
<1> HIDE DEF d
<1>3. Sound(d, know, limit) /\ Follows(c, d)
  BY <1>2, FlagsAre
<1>4. Waiting(d) <=> d.is_run
  BY <1>2 DEF Waiting
<1> QED BY <1>2, <1>3, <1>4 DEF d

\* Cleared leaves nothing.
LEMMA ClearedIs ==
    ASSUME NEW c, NEW know, NEW limit, Sound(c, know, limit), c.out = None
    PROVE  LET d == Cleared(c)
           IN  /\ Sound(d, know, limit) /\ Follows(c, d) /\ d.out = None
               /\ ~ Waiting(d) /\ ~ d.is_run
<1> DEFINE d == Cleared(c)
<1>1. c \in Clients
  BY DEF Sound
<1>2. /\ d \in Clients /\ d.process = <<>> /\ d.require = <<>> /\ d.is_run = FALSE
      /\ d.session = c.session /\ d.out = None /\ d.handed = c.handed
  <2>1. <<>> \in Seq(Processes) /\ <<>> \in Seq(Requires)
    OBVIOUS
  <2> QED BY <1>1, <2>1 DEF Cleared, Clients
<1> HIDE DEF d
<1>3. DOMAIN d.process = {} /\ DOMAIN d.require = {} /\ Ids(d.require) = {}
  BY <1>2 DEF Ids
<1>4. Justified(d, know, limit)
  BY <1>2, <1>3 DEF Justified, Sound
<1>5. Distinct(d) /\ Borrowed(d) /\ WaitsOnce(d) /\ Sends(d)
  BY <1>2, <1>3 DEF Distinct, Borrowed, WaitsOnce, Sends
<1>6. Sound(d, know, limit)
  BY <1>2, <1>3, <1>4, <1>5 DEF Sound
<1>7. ~ Waiting(d) /\ c.session <= d.session
  BY <1>1, <1>2, ClientShape DEF Waiting
<1>8. Follows(c, d)
  BY <1>2, <1>3, <1>7 DEF Follows
<1> QED BY <1>2, <1>6, <1>7, <1>8 DEF d

\* dns_run with a buffer for a query.
LEMMA TxIs ==
    ASSUME NEW c, NEW know, NEW limit, Sound(c, know, limit), c.out = None,
           NEW d \in dns_run_tx(c)
    PROVE  /\ Sound(d, know, limit) /\ Follows(c, d) /\ GivesUp(c, d, know)
           /\ Waiting(d) <=> d.is_run
<1>1. CASE Forgotten(c)
  <2>1. d = Cleared(c)
    BY <1>1 DEF dns_run_tx
  <2>2. GivesUp(c, d, know)
    BY <1>1 DEF GivesUp, Forgotten
  <2> QED BY <2>1, <2>2, ClearedIs
<1>2. CASE ~ Forgotten(c)
  <2> DEFINE next == [i \in DOMAIN c.process |-> Advance(c.process[i])]
  <2>1. PICK e \in Transmit(c, next, Senders(c, next), Failing(c, next)) : d = Settle(e)
    BY <1>2 DEF dns_run_tx
  <2>2. Sound(e, know, limit) /\ Follows(c, e) /\ GivesUp(c, e, know)
    BY TransmitIs
  <2>3. /\ Sound(d, know, limit) /\ Follows(e, d) /\ d.process = e.process
        /\ Waiting(d) <=> d.is_run
    BY <2>1, <2>2, SettleIs
  <2>4. Follows(c, d)
    BY <2>2, <2>3, FollowsOn DEF Sound
  <2>5. GivesUp(c, d, know)
    BY <2>2, <2>3 DEF GivesUp
  <2> QED BY <2>3, <2>4, <2>5
<1> QED BY <1>1, <1>2

\* Collect hands out the results.
LEMMA CollectIs ==
    ASSUME NEW c, NEW know, NEW limit, Sound(c, know, limit)
    PROVE  LET d == Collect(c)
           IN  /\ Sound(d, know, limit) /\ Follows(c, d) /\ d.process = c.process
               /\ d.out = c.out /\ d.is_run = c.is_run
               /\ Waiting(d) => Waiting(c)
<1> DEFINE R == c.require
           done == {k \in DOMAIN R : R[k].result # None}
           new == {R[k] : k \in done}
           rs == Selected(R, DOMAIN R \ done)
           d == Collect(c)
<1>1. /\ c \in Clients /\ R \in Seq(Requires) /\ c.process \in Seq(Processes)
      /\ \A k \in DOMAIN R : R[k] \in Requires
  BY ClientShape DEF Sound
<1>2. d = [c EXCEPT !.handed = @ \cup new, !.require = rs]
  BY DEF Collect
<1>3. new \subseteq Results
  <2>1. \A q \in Requires : q.result # None => q \in Results
    BY DEF Requires, Results
  <2> QED BY <1>1, <2>1
<1> DEFINE K == DOMAIN R \ done
<1>4. K \in SUBSET DOMAIN R /\ rs = Selected(R, K)
  OBVIOUS
<1> HIDE DEF K, rs
<1>5. rs \in Seq(Requires) /\ \A i \in K : \E k \in DOMAIN rs : rs[k] = R[i]
  BY <1>1, <1>4, SelectedLists
<1>6. \E at \in [DOMAIN Selected(R, K) -> K] :
           /\ \A k \in DOMAIN Selected(R, K) : Selected(R, K)[k] = R[at[k]]
           /\ \A k, l \in DOMAIN Selected(R, K) : at[k] = at[l] => k = l
  BY <1>1, <1>4, SelectedLists, Zenon
<1>7. PICK at \in [DOMAIN rs -> K] :
           /\ \A k \in DOMAIN rs : rs[k] = R[at[k]]
           /\ \A k, l \in DOMAIN rs : at[k] = at[l] => k = l
  BY <1>4, <1>6
<1> HIDE DEF new, done, d
<1>8. /\ d \in Clients /\ d.process = c.process /\ d.require = rs /\ d.out = c.out
      /\ d.handed = c.handed \cup new /\ d.session = c.session /\ d.is_run = c.is_run
  BY <1>1, <1>2, <1>3, <1>5 DEF Clients
<1>9. \A k \in DOMAIN rs : at[k] \in DOMAIN R /\ rs[k] = R[at[k]] /\ R[at[k]].result = None
  BY <1>7 DEF K, done
<1>10. /\ Ids(rs) \subseteq Ids(R) /\ {h.id : h \in new} \subseteq Ids(R)
       /\ \A h \in new : h.id \notin Ids(rs)
  <2>1. Ids(rs) \subseteq Ids(R)
    BY <1>9 DEF Ids
  <2>2. ASSUME NEW h \in new PROVE h.id \in Ids(R) /\ h.id \notin Ids(rs)
    <3>1. PICK k \in done : h = R[k]
      BY DEF new
    <3>2. k \in DOMAIN R /\ R[k].result # None
      BY DEF done
    <3>3. \A l \in DOMAIN rs : rs[l].id # R[k].id
      BY <1>9, <3>2 DEF Sound, WaitsOnce
    <3> QED BY <3>1, <3>2, <3>3 DEF Ids
  <2> QED BY <2>1, <2>2
<1>11. Distinct(d) /\ Sends(d)
  BY <1>8 DEF Distinct, Sends, Sound
<1>12. Borrowed(d)
  <2> SUFFICES ASSUME NEW i \in DOMAIN c.process
               PROVE  \E m \in DOMAIN rs : /\ rs[m].id = c.process[i].uri
                                           /\ rs[m].result = None
    BY <1>8 DEF Borrowed, Sound
  <2>1. PICK k \in DOMAIN R : R[k].id = c.process[i].uri /\ R[k].result = None
    BY DEF Sound, Borrowed
  <2>2. k \in K
    BY <2>1 DEF K, done
  <2> QED BY <1>5, <2>1, <2>2
<1>13. WaitsOnce(d)
  <2>1. \A k, l \in DOMAIN rs : rs[k].id = rs[l].id => k = l
    BY <1>7, <1>9 DEF Sound, WaitsOnce
  <2>2. \A h \in c.handed \cup new : h.id \notin Ids(rs)
    BY <1>10 DEF Sound, WaitsOnce
  <2> QED BY <1>8, <2>1, <2>2 DEF WaitsOnce
<1>14. Justified(d, know, limit)
  <2>1. \A h \in new : h.result \subseteq limit[h.id]
    BY DEF new, done, Sound, Justified
  <2> QED BY <1>8, <1>9, <2>1 DEF Justified, Sound
<1>15. Sound(d, know, limit)
  BY <1>8, <1>11, <1>12, <1>13, <1>14 DEF Sound
<1>16. ~ Waiting(c) => ~ Waiting(d)
  <2> SUFFICES ASSUME c.process = <<>>, R = <<>> PROVE rs = <<>>
    BY <1>8 DEF Waiting
  <2>1. DOMAIN R = {}
    BY <1>1, EmptyList
  <2>2. DOMAIN rs = {}
    BY <1>9, <2>1
  <2> QED BY <1>5, <2>2, EmptyList
<1>17. Follows(c, d)
  <2>1. c.session <= d.session
    BY <1>1, <1>8, ClientShape
  <2>2. Ids(rs) \cup {h.id : h \in d.handed} \subseteq Ids(R) \cup {h.id : h \in c.handed}
    BY <1>8, <1>10
  <2> QED BY <1>8, <1>16, <2>1, <2>2 DEF Follows
<1> QED BY <1>8, <1>15, <1>16, <1>17 DEF d

\* net_lwip_dns_tx_next: a query is sent and results are handed out.
LEMMA TxNextIs ==
    ASSUME NEW c, NEW know, NEW limit, Sound(c, know, limit), c.out = None,
           NEW d \in net_lwip_dns_tx_next(c)
    PROVE  /\ Sound(d, know, limit) /\ Follows(c, d) /\ GivesUp(c, d, know)
           /\ Waiting(d) => d.is_run
           /\ ~ Waiting(c) => ~ d.is_run
<1>1. PICK e \in dns_run_tx(c) : d = TxNext(e)
  BY DEF net_lwip_dns_tx_next
<1>2. /\ Sound(e, know, limit) /\ Follows(c, e) /\ GivesUp(c, e, know)
      /\ Waiting(e) <=> e.is_run
  BY TxIs
<1>3. /\ Sound(d, know, limit) /\ Follows(e, d) /\ d.process = e.process
      /\ d.is_run = e.is_run /\ (Waiting(d) => Waiting(e))
  <2>1. CASE d = e
    <3>1. e.session <= e.session
      BY <1>2, ClientShape DEF Sound
    <3> QED BY <1>2, <2>1, <3>1 DEF Follows
  <2>2. CASE d = [Collect(e) EXCEPT !.new_result = FALSE]
    <3> DEFINE f == Collect(e)
    <3>1. /\ Sound(f, know, limit) /\ Follows(e, f) /\ f.process = e.process
          /\ f.is_run = e.is_run /\ (Waiting(f) => Waiting(e))
      BY <1>2, CollectIs
    <3> HIDE DEF f
    <3>2. f \in Clients
      BY <3>1 DEF Sound
    <3>3. d = [f EXCEPT !.new_result = FALSE]
      BY <2>2 DEF f
    <3>4. /\ d \in Clients /\ d.process = f.process /\ d.require = f.require
          /\ d.session = f.session /\ d.out = f.out /\ d.handed = f.handed
          /\ d.is_run = f.is_run
      BY <3>2, <3>3 DEF Clients
    <3>5. Sound(d, know, limit) /\ Follows(f, d)
      BY <3>1, <3>4, FlagsAre
    <3>6. Follows(e, d)
      BY <1>2, <3>1, <3>2, <3>4, <3>5, FollowsOn DEF Sound
    <3> QED BY <3>1, <3>4, <3>5, <3>6 DEF Waiting
  <2> QED BY <1>1, <2>1, <2>2 DEF TxNext
<1>4. Follows(c, d)
  BY <1>2, <1>3, FollowsOn DEF Sound
<1>5. GivesUp(c, d, know)
  BY <1>2, <1>3 DEF GivesUp
<1>6. ~ Waiting(c) => ~ d.is_run
  BY <1>2, <1>3 DEF Follows
<1> QED BY <1>2, <1>3, <1>4, <1>5, <1>6

\* A name that no server has answered for is asked on as before.
Stays(c, d, know) == \A i \in DOMAIN c.process :
    \/ know[c.process[i].name] # {}
    \/ \E k \in DOMAIN d.process : /\ d.process[k].name = c.process[i].name
                                   /\ d.process[k].asks = c.process[i].asks

\* dns_get_ip: what a server says for the name of a process.
LEMMA TakeAnswerIs ==
    ASSUME NEW c, NEW know, Sound(c, know, Limit(know)), c.out = None,
           NEW i \in DOMAIN c.process, NEW ips \in SUBSET Addrs,
           ips \subseteq know[c.process[i].name], know[c.process[i].name] # {}
    PROVE  LET d == TakeAnswer(c, i, ips)
           IN  /\ Sound(d, know, Limit(know)) /\ Follows(c, d) /\ d.out = None
               /\ Stays(c, d, know)
<1> DEFINE P == c.process
           d == TakeAnswer(c, i, ips)
<1>1. /\ c \in Clients /\ P \in Seq(Processes) /\ c.require \in Seq(Requires)
      /\ c.session \in Nat /\ \A j \in DOMAIN P : /\ P[j] \in Processes
                                                  /\ P[j].session \in Nat
                                                  /\ P[j].ips \subseteq Addrs
  BY ClientShape DEF Sound
<1>2. DNS_TRY_MAX \in Nat \ {0}
  BY DnsAssumption
<1>3. CASE P[i].mode6 /\ P[i].is6
  <2> DEFINE last == c.session + 1
             q == AsksIPv4(P[i], ips, last)
             ps == [P EXCEPT ![i] = q]
  <2>0. last \in Nat
    BY <1>1
  <2>1. d = [c EXCEPT !.session = last, !.process = ps]
    BY <1>1, <1>3 DEF TakeAnswer, Clients
  <2>2. /\ q \in Processes /\ q.name = P[i].name /\ q.uri = P[i].uri
        /\ q.ips = P[i].ips \cup ips /\ q.session = last
    <3>1. 0 \in 0 .. DNS_TRY_MAX - 1
      BY <1>2
    <3>2. P[i] \in Processes /\ P[i].ips \cup ips \in SUBSET Addrs
      BY <1>1
    <3> HIDE DEF last
    <3> QED BY <2>0, <3>1, <3>2 DEF Processes, AsksIPv4
  <2> HIDE DEF q, d
  <2>3. /\ ps \in Seq(Processes) /\ DOMAIN ps = DOMAIN P /\ ps[i] = q
        /\ \A j \in DOMAIN P : j # i => ps[j] = P[j]
    BY <1>1, <2>2
  <2> HIDE DEF ps
  <2>4. /\ d \in Clients /\ d.process = ps /\ d.require = c.require
        /\ d.session = last /\ d.out = None /\ d.handed = c.handed
    <3> HIDE DEF last
    <3> QED BY <1>1, <2>0, <2>1, <2>3 DEF Clients
  <2>5. Distinct(d)
    <3>1. \A j \in DOMAIN P : P[j].session \in 1 .. c.session /\ P[j].session # c.session + 1
      BY <1>1 DEF Sound, Distinct
    <3>2. \A j \in DOMAIN ps : ps[j].session \in 1 .. c.session + 1
      BY <1>1, <2>2, <2>3, <3>1
    <3>3. ASSUME NEW j \in DOMAIN ps, NEW k \in DOMAIN ps,
                 ps[j].session = ps[k].session \/ ps[j].name = ps[k].name
          PROVE  j = k
      BY <2>2, <2>3, <3>1, <3>3 DEF Sound, Distinct
    <3> QED BY <2>4, <3>2, <3>3 DEF Distinct
  <2>6. Borrowed(d)
    BY <2>2, <2>3, <2>4 DEF Borrowed, Sound
  <2>7. WaitsOnce(d) /\ Sends(d)
    BY <2>4 DEF WaitsOnce, Sends, Sound
  <2>8. Justified(d, know, Limit(know))
    BY <2>2, <2>3, <2>4 DEF Justified, Sound
  <2>9. \A j \in DOMAIN ps : Counted(ps[j], know)
    <3>1. Counted(q, know)
      BY <2>2 DEF Counted
    <3> QED BY <2>3, <3>1 DEF Sound
  <2>10. Sound(d, know, Limit(know))
    BY <2>4, <2>5, <2>6, <2>7, <2>8, <2>9 DEF Sound
  <2>11. P # <<>>
    BY <1>1, EmptyList
  <2>12. Follows(c, d)
    <3>1. \A j \in DOMAIN ps :
             \/ ps[j].session > c.session
             \/ \E k \in DOMAIN P : ps[j].session = P[k].session /\ ps[j].name = P[k].name
      <4> TAKE j \in DOMAIN ps
      <4>1. CASE j = i
        <5>1. last > c.session
          BY <1>1
        <5>2. ps[j].session = last
          BY <2>2, <2>3, <4>1
        <5> QED BY <5>1, <5>2
      <4>2. CASE j # i
        <5>1. j \in DOMAIN P /\ ps[j] = P[j]
          BY <2>3, <4>2
        <5> QED BY <5>1
      <4> QED BY <4>1, <4>2
    <3>2. c.session <= d.session /\ Waiting(c)
      BY <1>1, <2>4, <2>11 DEF Waiting
    <3> QED BY <2>4, <3>1, <3>2 DEF Follows
  <2>13. Stays(c, d, know)
    BY <2>3, <2>4 DEF Stays
  <2> QED BY <2>4, <2>10, <2>12, <2>13 DEF d
<1>4. CASE ~ (P[i].mode6 /\ P[i].is6)
  <2> DEFINE all == P[i].ips \cup ips
             rs == SetResult(c.require, {P[i].name}, all)
             ps == Selected(P, DOMAIN P \ {i})
  <2>1. d = [c EXCEPT !.require = rs, !.process = ps]
    BY <1>4 DEF TakeAnswer
  <2>2. all \in SUBSET Addrs /\ all \subseteq know[P[i].name]
    BY <1>1 DEF Sound, Justified
  <2> HIDE DEF all
  <2>3. rs \in Seq(Requires)
    BY <1>1, <2>2, SetResultIs
  <2>4. ps \in Seq(Processes)
    <3> DEFINE K == DOMAIN P \ {i}
    <3>1. K \in SUBSET DOMAIN P /\ ps = Selected(P, K)
      OBVIOUS
    <3> HIDE DEF K, ps
    <3> QED BY <1>1, <3>1, SelectedLists
  <2> HIDE DEF rs, ps, d
  <2>5. /\ d \in Clients /\ d.process = ps /\ d.require = rs
        /\ d.session = c.session /\ d.out = None /\ d.handed = c.handed
    BY <1>1, <2>1, <2>3, <2>4 DEF Clients
  <2>6. Leaves(c, d, P, {i}, all)
    <3>1. {P[i].name} = {P[j].name : j \in {i}}
      OBVIOUS
    <3> QED BY <1>1, <2>2, <2>5, <3>1 DEF Leaves, rs, ps
  <2>7. \A j \in DOMAIN P : Same(P[j], P[j]) /\ Counted(P[j], know)
    BY DEF Sound, Same
  <2>8. \A j \in {i}, r \in Requests : nameOf[r] = P[j].name => all \subseteq Limit(know)[r]
    BY <2>2 DEF Limit
  <2>9. /\ Sound(d, know, Limit(know)) /\ Follows(c, d)
        /\ \A j \in DOMAIN P \ {i} : \E k \in DOMAIN d.process : d.process[k] = P[j]
    BY <2>6, <2>7, <2>8, LeaveIs
  <2>10. Stays(c, d, know)
    BY <2>9 DEF Stays
  <2> QED BY <2>5, <2>9, <2>10 DEF d
<1> QED BY <1>3, <1>4

\* What the server of a session said is known.
Heard(c, session, ips, good, know) ==
    /\ ips \subseteq Addrs
    /\ good => \A i \in DOMAIN c.process : c.process[i].session = session =>
          ips \subseteq know[c.process[i].name] /\ know[c.process[i].name] # {}

\* dns_run with a packet.
LEMMA RxIs ==
    ASSUME NEW c, NEW know, Sound(c, know, Limit(know)), c.out = None,
           NEW session, NEW ips, NEW good, Heard(c, session, ips, good, know)
    PROVE  LET d == dns_run_rx(c, session, ips, good)
           IN  /\ Sound(d, know, Limit(know)) /\ Follows(c, d) /\ d.out = None
               /\ Stays(c, d, know)
<1> DEFINE d == dns_run_rx(c, session, ips, good)
           meant == \E i \in DOMAIN c.process : c.process[i].session = session
           i == CHOOSE i \in DOMAIN c.process : c.process[i].session = session
           e == IF good /\ meant THEN TakeAnswer(c, i, ips) ELSE c
<1>1. CASE Forgotten(c)
  <2>1. d = Cleared(c)
    BY <1>1 DEF dns_run_rx
  <2>2. Stays(c, d, know)
    BY <1>1 DEF Stays, Forgotten
  <2> QED BY <2>1, <2>2, ClearedIs
<1>2. CASE ~ Forgotten(c)
  <2>1. d = Settle(e)
    BY <1>2 DEF dns_run_rx
  <2>2. /\ Sound(e, know, Limit(know)) /\ Follows(c, e) /\ e.out = None
        /\ Stays(c, e, know)
    <3>1. CASE good /\ meant
      <4>1. i \in DOMAIN c.process /\ c.process[i].session = session
        BY <3>1
      <4> HIDE DEF i
      <4>2. /\ ips \in SUBSET Addrs /\ ips \subseteq know[c.process[i].name]
            /\ know[c.process[i].name] # {}
        BY <3>1, <4>1 DEF Heard
      <4>3. e = TakeAnswer(c, i, ips)
        BY <3>1
      <4> HIDE DEF e
      <4> QED BY <4>1, <4>2, <4>3, TakeAnswerIs
    <3>2. CASE ~ (good /\ meant)
      <4>1. e = c /\ c.session <= c.session
        BY <3>2, ClientShape DEF Sound
      <4> QED BY <4>1 DEF Follows, Stays
    <3> QED BY <3>1, <3>2
  <2> HIDE DEF e, d
  <2>3. /\ Sound(d, know, Limit(know)) /\ Follows(e, d) /\ d.process = e.process
        /\ d.out = None
    BY <2>1, <2>2, SettleIs
  <2>4. Follows(c, d)
    BY <2>2, <2>3, FollowsOn DEF Sound
  <2> QED BY <2>2, <2>3, <2>4 DEF Stays, d
<1> QED BY <1>1, <1>2

\* net_lwip_dns_recv_cb: a packet, then a query if one is due.
LEMMA RecvIs ==
    ASSUME NEW c, NEW know, Sound(c, know, Limit(know)), c.out = None,
           NEW session, NEW ips, NEW good, Heard(c, session, ips, good, know),
           NEW d \in net_lwip_dns_recv_cb(c, session, ips, good)
    PROVE  /\ Sound(d, know, Limit(know)) /\ Follows(c, d) /\ GivesUp(c, d, know)
           /\ Waiting(d) => d.is_run
           /\ ~ Waiting(c) => ~ d.is_run
<1> DEFINE a == dns_run_rx(c, session, ips, good)
           b == Collect(a)
           limit == Limit(know)
<1>1. PICK e \in dns_run_tx(b) : d = RxNext(e)
  BY DEF net_lwip_dns_recv_cb
<1>2. Sound(a, know, limit) /\ Follows(c, a) /\ a.out = None /\ Stays(c, a, know)
  BY RxIs
<1> HIDE DEF a
<1>3. Sound(b, know, limit) /\ Follows(a, b) /\ b.process = a.process /\ b.out = None
  BY <1>2, CollectIs
<1> HIDE DEF b
<1>4. /\ Sound(e, know, limit) /\ Follows(b, e) /\ GivesUp(b, e, know)
      /\ Waiting(e) <=> e.is_run
  BY <1>3, TxIs
<1>5. /\ Sound(d, know, limit) /\ Follows(e, d) /\ d.process = e.process
      /\ d.is_run = e.is_run /\ (Waiting(d) => Waiting(e))
  <2>1. CASE d = e
    <3>1. e.session <= e.session
      BY <1>4, ClientShape DEF Sound
    <3> QED BY <1>4, <2>1, <3>1 DEF Follows
  <2>2. CASE d = Collect(e)
    BY <1>4, <2>2, CollectIs
  <2> QED BY <1>1, <2>1, <2>2 DEF RxNext
<1> HIDE DEF limit
<1>6. c \in Clients /\ a \in Clients /\ b \in Clients /\ e \in Clients /\ d \in Clients
  BY <1>2, <1>3, <1>4, <1>5 DEF Sound
<1>7. Follows(c, b)
  BY <1>2, <1>3, <1>6, FollowsOn
<1>8. Follows(b, d)
  BY <1>4, <1>5, <1>6, FollowsOn
<1>9. Follows(c, d)
  BY <1>6, <1>7, <1>8, FollowsOn
<1>10. GivesUp(c, d, know)
  BY <1>2, <1>3, <1>4, <1>5 DEF GivesUp, Stays, AskedAll
<1>11. ~ Waiting(c) => ~ d.is_run
  BY <1>4, <1>5, <1>7 DEF Follows
<1> QED BY <1>4, <1>5, <1>9, <1>10, <1>11 DEF limit

\* dns_require_ipv6: a new request, and a process for its name if there is none.
LEMMA RequireIs ==
    ASSUME NEW c, NEW know, NEW limit, Sound(c, know, limit), c.handed = {}, c.out = None,
           NEW r \in Requests, r \notin Ids(c.require), NEW limit2,
           \A q \in Requests \ {r} : limit2[q] = limit[q]
    PROVE  LET d == dns_require_ipv6(c, r)
           IN  /\ Sound(d, know, limit2) /\ d.out = None /\ d.handed = {}
               /\ c.session <= d.session /\ Ids(d.require) = Ids(c.require) \cup {r}
               /\ \A i \in DOMAIN c.process : /\ i \in DOMAIN d.process
                                              /\ d.process[i] = c.process[i]
               /\ \A j \in DOMAIN d.process :
                     j \in DOMAIN c.process \/ d.process[j].session > c.session
<1> DEFINE P == c.process
           R == c.require
           q == [id |-> r, result |-> None]
           none == [s \in Places |-> 0]
           p == [name |-> nameOf[r], session |-> c.session + 1, retry |-> 0, srv |-> 0,
                 ips |-> {}, mode6 |-> wants6[r], is6 |-> wants6[r], done6 |-> FALSE,
                 asked |-> FALSE, due |-> TRUE, uri |-> r, asks |-> none]
           rs == Append(R, q)
           known == HasName(P, nameOf[r])
           ps == IF known THEN P ELSE Append(P, p)
           last == IF known THEN c.session ELSE c.session + 1
           d == dns_require_ipv6(c, r)
<1>1. /\ c \in Clients /\ P \in Seq(Processes) /\ R \in Seq(Requires) /\ c.session \in Nat
      /\ \A j \in DOMAIN P : P[j] \in Processes /\ P[j].session \in Nat
  BY ClientShape DEF Sound
<1>2. d = [c EXCEPT !.require = rs, !.process = ps, !.session = last]
  BY DEF dns_require_ipv6, Places
<1>3. q \in Requires /\ q.id = r /\ q.result = None
  BY DEF Requires
<1>4. /\ p \in Processes /\ p.name = nameOf[r] /\ p.session = c.session + 1
      /\ p.uri = r /\ p.ips = {} /\ Counted(p, know)
  <2>1. /\ 0 \in Places /\ 0 \in 0 .. DNS_TRY_MAX - 1 /\ none \in [Places -> Nat]
        /\ nameOf[r] \in Names /\ wants6[r] \in BOOLEAN /\ c.session + 1 \in Nat
    BY <1>1, DnsAssumption DEF Places
  <2> HIDE DEF none
  <2>2. p \in Processes
    BY <2>1 DEF Processes
  <2>3. Counted(p, know)
    BY DEF Counted
  <2> QED BY <2>2, <2>3
<1> HIDE DEF p, q, d
<1>5. /\ rs \in Seq(Requires) /\ Len(R) \in Nat /\ DOMAIN R = 1 .. Len(R)
      /\ DOMAIN rs = 1 .. Len(R) + 1 /\ rs[Len(R) + 1] = q
      /\ \A k \in DOMAIN R : rs[k] = R[k]
  BY <1>1, <1>3
<1>6. /\ ps \in Seq(Processes)
      /\ \A i \in DOMAIN P : i \in DOMAIN ps /\ ps[i] = P[i]
      /\ \A j \in DOMAIN ps : j \in DOMAIN P \/ (~ known /\ j = Len(P) + 1 /\ ps[j] = p)
  BY <1>1, <1>4
<1>7. last \in Nat /\ c.session <= last /\ (~ known => last = c.session + 1)
  BY <1>1
<1>0. \A i \in DOMAIN P : P[i].name = nameOf[r] => known
  BY DEF HasName
<1> HIDE DEF ps, rs, last, known
<1>8. /\ d \in Clients /\ d.process = ps /\ d.require = rs /\ d.out = None
      /\ d.handed = {} /\ d.session = last
  BY <1>1, <1>2, <1>5, <1>6, <1>7 DEF Clients
<1>9. Distinct(d)
  <2>1. \A j \in DOMAIN P : P[j].session \in 1 .. c.session
    BY DEF Sound, Distinct
  <2>2. \A j \in DOMAIN ps : ps[j].session \in 1 .. last
    BY <1>1, <1>4, <1>6, <1>7, <2>1
  <2>3. ASSUME NEW j \in DOMAIN ps, NEW k \in DOMAIN ps,
               ps[j].session = ps[k].session \/ ps[j].name = ps[k].name
        PROVE  j = k
    <3>1. CASE j \in DOMAIN P /\ k \in DOMAIN P
      BY <1>6, <2>3, <3>1 DEF Sound, Distinct
    <3>2. CASE j \notin DOMAIN P \/ k \notin DOMAIN P
      <4>1. ~ known /\ \A i \in DOMAIN P : /\ P[i].session # p.session
                                           /\ P[i].name # p.name
        BY <1>0, <1>1, <1>4, <1>6, <2>1, <3>2
      <4> QED BY <1>6, <2>3, <3>2, <4>1
    <3> QED BY <3>1, <3>2
  <2> QED BY <1>8, <2>2, <2>3 DEF Distinct
<1>10. Borrowed(d)
  <2> SUFFICES ASSUME NEW j \in DOMAIN ps
               PROVE  /\ nameOf[ps[j].uri] = ps[j].name
                      /\ \E k \in DOMAIN rs : rs[k].id = ps[j].uri /\ rs[k].result = None
    BY <1>8 DEF Borrowed
  <2>1. CASE j \in DOMAIN P
    <3>1. /\ nameOf[P[j].uri] = P[j].name
          /\ \E k \in DOMAIN R : R[k].id = P[j].uri /\ R[k].result = None
      BY <2>1 DEF Sound, Borrowed
    <3> QED BY <1>5, <1>6, <2>1, <3>1
  <2>2. CASE j \notin DOMAIN P
    <3>1. ps[j].uri = r /\ ps[j].name = nameOf[r]
      BY <1>4, <1>6, <2>2
    <3>2. Len(R) + 1 \in DOMAIN rs
      BY <1>5
    <3> QED BY <1>3, <1>5, <3>1, <3>2
  <2> QED BY <2>1, <2>2
<1>11. Ids(rs) = Ids(R) \cup {r}
  BY <1>3, <1>5 DEF Ids
<1>12. WaitsOnce(d)
  <2>1. \A k \in DOMAIN R : R[k].id # r
    BY DEF Ids
  <2>2. ASSUME NEW k \in DOMAIN rs, NEW l \in DOMAIN rs, rs[k].id = rs[l].id
        PROVE  k = l
    BY <1>3, <1>5, <2>1, <2>2 DEF Sound, WaitsOnce
  <2> QED BY <1>8, <2>2 DEF WaitsOnce
<1>13. Justified(d, know, limit2)
  <2>1. \A j \in DOMAIN ps : ps[j].ips \subseteq know[ps[j].name]
    BY <1>4, <1>6 DEF Sound, Justified
  <2>2. ASSUME NEW k \in DOMAIN rs, rs[k].result # None
        PROVE  rs[k].result \subseteq limit2[rs[k].id]
    <3>1. k \in DOMAIN R /\ rs[k] = R[k]
      BY <1>3, <1>5, <2>2
    <3>2. R[k].id \in Requests \ {r}
      BY <1>1, <3>1, ClientShape DEF Ids
    <3> QED BY <2>2, <3>1, <3>2 DEF Sound, Justified
  <2> QED BY <1>8, <2>1, <2>2 DEF Justified
<1>14. Sound(d, know, limit2)
  <2>1. \A j \in DOMAIN ps : Counted(ps[j], know)
    BY <1>4, <1>6 DEF Sound
  <2>2. Sends(d)
    BY <1>8 DEF Sends
  <2> QED BY <1>8, <1>9, <1>10, <1>12, <1>13, <2>1, <2>2 DEF Sound
<1>15. \A j \in DOMAIN ps : j \in DOMAIN P \/ ps[j].session > c.session
  BY <1>1, <1>4, <1>6
<1> QED BY <1>6, <1>7, <1>8, <1>11, <1>14, <1>15 DEF d
----------------------------------------------------------------------------
\* The client's record is that of its variables.
LEMMA ClientIs ==
    /\ Client.process = process_head /\ Client.require = require_head
    /\ Client.is_run = is_run /\ Client.new_result = new_result
    /\ Client.session = session_id /\ Client.out = None /\ Client.handed = {}
  BY DEF Client

\* Processes keep their sessions, and new ones get new sessions.
Carries(c) ==
    /\ session_id <= c.session
    /\ \A j \in DOMAIN c.process :
          \/ c.process[j].session > session_id
          \/ \E i \in DOMAIN process_head :
                /\ c.process[j].session = process_head[i].session
                /\ c.process[j].name = process_head[i].name

\* The requests that a step is about are asked, or new and get nothing.
Minds(c, limit) ==
    /\ \A r \in Requests : limit[r] \subseteq told'[nameOf[r]]
    /\ \A r \in Ids(c.require) : status[r] \in {"idle", "asked"}
    /\ \A h \in c.handed : \/ status[h.id] = "asked"
                           \/ status[h.id] = "idle" /\ limit[h.id] = {}

\* Becomes writes a sound client back, and queries stay those of its processes.
LEMMA BecomesSound ==
    ASSUME DnsInv, NEW c, NEW limit, NEW left \in SUBSET queries, Becomes(c, left),
           Sound(c, told', limit), Minds(c, limit), Carries(c)
    PROVE  Sound(Client', told', Limit(told')) /\ QueriesOk'
<1> DEFINE d == Client'
           P == c.process
<1>1. /\ d.process = P /\ d.require = c.require /\ d.is_run = c.is_run
      /\ d.new_result = c.new_result /\ d.session = c.session
      /\ d.out = None /\ d.handed = {} /\ d \in Clients
      /\ process_head' = P /\ session_id' = c.session
  <2>1. d = [process |-> P, require |-> c.require, is_run |-> c.is_run,
             new_result |-> c.new_result, session |-> c.session,
             out |-> None, handed |-> {}]
    BY DEF Client, Becomes
  <2>2. process_head' = P /\ session_id' = c.session
    BY DEF Becomes
  <2> HIDE DEF d
  <2>3. c \in Clients
    BY DEF Sound
  <2> QED BY <2>1, <2>2, <2>3 DEF Clients
<1> HIDE DEF d
<1>2. /\ c \in Clients
      /\ \A k \in DOMAIN c.require : c.require[k].id \in Requests
      /\ \A i \in DOMAIN P : P[i].session \in Nat
  BY ClientShape DEF Sound
<1>3. Justified(d, told', Limit(told'))
  <2>1. \A k \in DOMAIN c.require : c.require[k].result # None =>
           c.require[k].result \subseteq Limit(told')[c.require[k].id]
    BY <1>2 DEF Sound, Justified, Minds, Limit
  <2>2. \A i \in DOMAIN P : P[i].ips \subseteq told'[P[i].name]
    BY DEF Sound, Justified
  <2> QED BY <1>1, <2>1, <2>2 DEF Justified
<1>4. Distinct(d) /\ Borrowed(d) /\ WaitsOnce(d) /\ Sends(d)
  BY <1>1 DEF Sound, Distinct, Borrowed, WaitsOnce, Sends
<1>5. Sound(d, told', Limit(told'))
  BY <1>1, <1>3, <1>4 DEF Sound
<1>6. queries' = {q \in (left \cup {c.out}) \ {None} :
                     \E i \in DOMAIN P : P[i].session = q.session}
  BY DEF Becomes
<1>7. ASSUME NEW q \in queries'
      PROVE  /\ q \in Queries /\ q.session <= c.session
             /\ \A i \in DOMAIN P : P[i].session = q.session => P[i].name = q.name
  <2>1. PICK j \in DOMAIN P : P[j].session = q.session
    BY <1>6, <1>7
  <2>2. q.session <= c.session
    <3>1. P[j].session \in 1 .. c.session
      BY DEF Sound, Distinct
    <3> QED BY <2>1, <3>1
  <2>3. CASE q \in left
    <3>1. q \in queries /\ q \in Queries /\ q.session <= session_id
      BY <2>3 DEF DnsInv, QueriesOk
    <3>2. ASSUME NEW i \in DOMAIN P, P[i].session = q.session
          PROVE  P[i].name = q.name
      <4>1. session_id \in Nat /\ P[i].session \in Nat
        BY <1>2, ClientIs, ClientShape DEF DnsInv, Sound
      <4>2. ~ (P[i].session > session_id)
        BY <3>1, <3>2, <4>1
      <4>3. PICK k \in DOMAIN process_head : /\ P[i].session = process_head[k].session
                                             /\ P[i].name = process_head[k].name
        BY <4>2 DEF Carries
      <4> QED BY <3>1, <3>2, <4>3 DEF DnsInv, QueriesOk
    <3> QED BY <2>2, <3>1, <3>2
  <2>4. CASE q = c.out /\ q # None
    <3>1. q \in Queries
      BY <1>2, <2>4, ClientShape
    <3>2. PICK k \in DOMAIN P : P[k].session = q.session /\ P[k].name = q.name
      BY <2>4 DEF Sound, Sends
    <3>3. \A i \in DOMAIN P : P[i].session = q.session => i = k
      BY <3>2 DEF Sound, Distinct
    <3> QED BY <2>2, <3>1, <3>2, <3>3
  <2> QED BY <1>6, <2>3, <2>4
<1>8. QueriesOk'
  BY <1>1, <1>7 DEF QueriesOk
<1> QED BY <1>5, <1>8 DEF d

\* A step of DnsPromise for one request.
RequestMoves(r) ==
    \/ status'[r] = status[r] /\ given'[r] = given[r]
    \/ /\ status[r] = "idle" /\ status'[r] \in {"asked", "failed"}
       /\ given'[r] = {}
    \/ /\ status[r] = "asked" /\ status'[r] \in {"failed", "dropped"}
       /\ given'[r] = {}
    \/ /\ status[r] = "asked" /\ status'[r] = "found"
       /\ given'[r] \in (SUBSET told'[nameOf[r]]) \ {{}}

\* Becomes ends requests as the promise allows.
LEMMA BecomesPromised ==
    ASSUME DnsInv, NEW c, NEW limit, NEW left, Becomes(c, left),
           Sound(c, told', limit), Minds(c, limit), told' \in [Names -> SUBSET Words]
    PROVE  HistoryOk' /\ \A r \in Requests : RequestMoves(r)
<1> DEFINE gave(r) == \E h \in c.handed : h.id = r
           gift(r) == CHOOSE h \in c.handed : h.id = r
           now(r) == IF gave(r) THEN gift(r).result ELSE given[r]
           then(r) == IF gave(r) THEN (IF given'[r] = {} THEN "failed" ELSE "found")
                      ELSE IF r \in Ids(c.require) THEN "asked"
                      ELSE IF status[r] = "asked" THEN "dropped"
                      ELSE status[r]
<1>1. /\ given' = [r \in Requests |-> now(r)]
      /\ status' = [r \in Requests |-> then(r)]
      /\ require_head' = c.require
  BY DEF Becomes
<1>2. /\ status \in [Requests -> {"idle", "asked", "found", "failed", "dropped"}]
      /\ given \in [Requests -> SUBSET Addrs]
      /\ \A r \in Requests : /\ status[r] = "asked" <=> r \in Ids(require_head)
                             /\ status[r] \in {"idle", "asked"} => given[r] = {}
  BY DEF DnsInv, HistoryOk
<1>3. c \in Clients
  BY DEF Sound
<1> HIDE DEF gift
<1>4. ASSUME NEW r \in Requests, gave(r)
      PROVE  /\ gift(r) \in c.handed /\ gift(r).id = r
             /\ given'[r] = gift(r).result /\ given'[r] \in SUBSET Addrs
             /\ given'[r] \subseteq told'[nameOf[r]]
             /\ status'[r] = (IF given'[r] = {} THEN "failed" ELSE "found")
             /\ r \notin Ids(c.require)
             /\ status[r] = "asked" \/ (status[r] = "idle" /\ given'[r] = {})
  <2>1. gift(r) \in c.handed /\ gift(r).id = r
    BY <1>4 DEF gift
  <2>2. given'[r] = gift(r).result
    BY <1>1, <1>4
  <2>3. status'[r] = (IF given'[r] = {} THEN "failed" ELSE "found")
    BY <1>1, <1>4
  <2>4. gift(r).result \subseteq Addrs
    BY <1>3, <2>1, ClientShape
  <2>5. gift(r).result \subseteq limit[r] /\ r \notin Ids(c.require)
    BY <2>1 DEF Sound, Justified, WaitsOnce
  <2>6. limit[r] \subseteq told'[nameOf[r]]
    BY DEF Minds
  <2>7. status[r] = "asked" \/ (status[r] = "idle" /\ limit[r] = {})
    BY <2>1 DEF Minds
  <2> QED BY <2>1, <2>2, <2>3, <2>4, <2>5, <2>6, <2>7
<1>5. ASSUME NEW r \in Requests, ~ gave(r)
      PROVE  /\ given'[r] = given[r]
             /\ status'[r] = (IF r \in Ids(c.require) THEN "asked"
                              ELSE IF status[r] = "asked" THEN "dropped" ELSE status[r])
             /\ r \in Ids(c.require) => status[r] \in {"idle", "asked"}
  BY <1>1, <1>5 DEF Minds
<1> HIDE DEF gave, now, then
<1>6. ASSUME NEW r \in Requests
      PROVE  /\ given'[r] \in SUBSET Addrs
             /\ status'[r] \in {"idle", "asked", "found", "failed", "dropped"}
             /\ status'[r] = "asked" <=> r \in Ids(c.require)
             /\ status'[r] \in {"idle", "asked"} => given'[r] = {}
             /\ RequestMoves(r)
  <2>1. CASE gave(r)
    <3>1. /\ given'[r] \in SUBSET Addrs /\ given'[r] \subseteq told'[nameOf[r]]
          /\ status'[r] = (IF given'[r] = {} THEN "failed" ELSE "found")
          /\ r \notin Ids(c.require)
          /\ status[r] = "asked" \/ (status[r] = "idle" /\ given'[r] = {})
      BY <1>4, <2>1
    <3>2. CASE given'[r] = {}
      <4>1. status'[r] = "failed"
        BY <3>1, <3>2
      <4> QED BY <3>1, <3>2, <4>1 DEF RequestMoves
    <3>3. CASE given'[r] # {}
      <4>1. status'[r] = "found" /\ status[r] = "asked"
        BY <3>1, <3>3
      <4>2. given'[r] \in (SUBSET told'[nameOf[r]]) \ {{}}
        BY <3>1, <3>3
      <4>3. RequestMoves(r)
        BY <3>1, <4>1, <4>2 DEF RequestMoves
      <4> QED BY <3>1, <4>1, <4>3
    <3> QED BY <3>2, <3>3
  <2>2. CASE ~ gave(r)
    <3>1. /\ given[r] \in SUBSET Addrs
          /\ status[r] \in {"idle", "asked", "found", "failed", "dropped"}
          /\ status[r] \in {"idle", "asked"} => given[r] = {}
      BY <1>2
    <3> QED BY <1>5, <2>2, <3>1 DEF RequestMoves
  <2> QED BY <2>1, <2>2
<1>7. /\ status' \in [Requests -> {"idle", "asked", "found", "failed", "dropped"}]
      /\ given' \in [Requests -> SUBSET Addrs]
  BY <1>1, <1>6
<1> QED BY <1>1, <1>6, <1>7 DEF HistoryOk
----------------------------------------------------------------------------
\* What servers have said is not taken back.
LEMMA MoreIsKnown ==
    ASSUME NEW know, NEW more, NEW c, Sound(c, know, Limit(know)),
           \A n \in Names : know[n] \subseteq more[n]
    PROVE  Sound(c, more, Limit(more))
<1>1. /\ \A i \in DOMAIN c.process : c.process[i].name \in Names
      /\ \A k \in DOMAIN c.require : c.require[k].id \in Requests
      /\ \A h \in c.handed : h.id \in Requests
  BY ClientShape DEF Sound
<1>2. \A r \in Requests : Limit(know)[r] \subseteq Limit(more)[r]
  BY DnsAssumption DEF Limit
<1>3. Justified(c, more, Limit(more))
  <2>1. \A i \in DOMAIN c.process : c.process[i].ips \subseteq more[c.process[i].name]
    BY <1>1 DEF Sound, Justified
  <2>2. \A k \in DOMAIN c.require : c.require[k].result # None =>
           c.require[k].result \subseteq Limit(more)[c.require[k].id]
    BY <1>1, <1>2 DEF Sound, Justified
  <2>3. \A h \in c.handed : h.result \subseteq Limit(more)[h.id]
    BY <1>1, <1>2 DEF Sound, Justified
  <2> QED BY <2>1, <2>2, <2>3 DEF Justified
<1>4. ASSUME NEW i \in DOMAIN c.process PROVE Counted(c.process[i], more)
  <2>1. Counted(c.process[i], know) /\ know[c.process[i].name] \subseteq more[c.process[i].name]
    BY <1>1 DEF Sound
  <2> QED BY <2>1 DEF Counted
<1> QED BY <1>3, <1>4 DEF Sound

\* The client that the functions of a step begin with: that of the variables,
\* with or without a new request, which gets nothing in this step.
Begins(b, limit) ==
    /\ b \in Clients /\ b.handed = {} /\ session_id <= b.session
    /\ \A j \in DOMAIN b.process :
          \/ b.process[j].session > session_id
          \/ \E i \in DOMAIN process_head :
                /\ b.process[j].session = process_head[i].session
                /\ b.process[j].name = process_head[i].name
    /\ \A r \in Ids(b.require) : \/ status[r] = "asked"
                                 \/ status[r] = "idle" /\ limit[r] = {}
    /\ \A r \in Requests : limit[r] \subseteq told'[nameOf[r]]

\* Most steps begin with the client of the variables.
LEMMA ClientBegins ==
    ASSUME DnsInv PROVE Begins(Client, Limit(told'))
<1>1. Client \in Clients /\ session_id \in Nat
  BY ClientIs, ClientShape DEF DnsInv, Sound
<1>2. \A r \in Ids(Client.require) : status[r] = "asked"
  <2>1. Ids(Client.require) \subseteq Requests
    BY <1>1, ClientShape DEF Ids
  <2> QED BY <2>1, ClientIs DEF DnsInv, HistoryOk
<1>3. \A r \in Requests : Limit(told')[r] \subseteq told'[nameOf[r]]
  BY DEF Limit
<1> QED BY <1>1, <1>2, <1>3, ClientIs DEF Begins

\* What a step amounts to: the invariant, the promise, and no name given up
\* before its time.
Outcome ==
    /\ DnsInv'
    /\ \A r \in Requests : RequestMoves(r)
    /\ \A i \in DOMAIN process_head :
          \/ HasName(process_head', process_head[i].name)
          \/ ~ lwip_netif'
          \/ told'[process_head[i].name] # {}
          \/ AskedAll(process_head[i])
    /\ \/ told' = told
       \/ \E n \in Names, new \in SUBSET Words :
             told' = [told EXCEPT ![n] = @ \cup new]

\* What the functions of a step have done to b is written back.
LEMMA WrittenBack ==
    ASSUME DnsInv, told' \in [Names -> SUBSET Words], NEW b, NEW c, NEW limit,
           NEW left \in SUBSET queries, Becomes(c, left), Begins(b, limit),
           Follows(b, c), Sound(c, told', limit)
    PROVE  /\ Sound(Client', told', Limit(told')) /\ QueriesOk' /\ HistoryOk'
           /\ \A r \in Requests : RequestMoves(r)
<1>1. b \in Clients /\ c \in Clients
  BY DEF Begins, Sound
<1>2. /\ b.session \in Nat /\ c.session \in Nat /\ session_id \in Nat
      /\ \A j \in DOMAIN b.process : b.process[j].session \in Nat
      /\ \A j \in DOMAIN c.process : c.process[j].session \in Nat
      /\ \A h \in c.handed : h.id \in Requests
      /\ Ids(c.require) \subseteq Requests
  <2>1. Client \in Clients
    BY DEF DnsInv, Sound
  <2>2. session_id \in Nat
    BY <2>1, ClientIs, ClientShape
  <2> QED BY <1>1, <2>2, ClientShape DEF Ids
<1>3. Carries(c)
  <2>1. session_id <= c.session
    BY <1>2 DEF Begins, Follows
  <2>2. ASSUME NEW j \in DOMAIN c.process, ~ (c.process[j].session > session_id)
        PROVE  \E i \in DOMAIN process_head :
                  /\ c.process[j].session = process_head[i].session
                  /\ c.process[j].name = process_head[i].name
    <3>1. PICK k \in DOMAIN b.process : /\ c.process[j].session = b.process[k].session
                                        /\ c.process[j].name = b.process[k].name
      BY <1>2, <2>2 DEF Begins, Follows
    <3> QED BY <2>2, <3>1 DEF Begins
  <2> QED BY <2>1, <2>2 DEF Carries
<1>4. Minds(c, limit)
  <2>1. Ids(c.require) \cup {h.id : h \in c.handed} \subseteq Ids(b.require)
    BY DEF Begins, Follows
  <2> QED BY <2>1 DEF Begins, Minds
<1>5. Sound(Client', told', Limit(told')) /\ QueriesOk'
  BY <1>3, <1>4, BecomesSound
<1>6. HistoryOk' /\ \A r \in Requests : RequestMoves(r)
  BY <1>4, BecomesPromised
<1> QED BY <1>5, <1>6

\* The booleans and what waits, after Becomes.
LEMMA BecomesRuns ==
    ASSUME NEW c, NEW left, Becomes(c, left), c \in Clients,
           Waiting(c) => c.is_run, dns_timer' \in BOOLEAN, lwip_netif' \in BOOLEAN,
           c.is_run => dns_timer'
    PROVE  TimerOk' /\ process_head' = c.process
<1>1. /\ process_head' = c.process /\ require_head' = c.require
      /\ is_run' = c.is_run /\ new_result' = c.new_result
  BY DEF Becomes
<1>2. c.is_run \in BOOLEAN /\ c.new_result \in BOOLEAN
  BY ClientShape
<1>3. Waiting(Client)' = Waiting(c)
  BY <1>1 DEF Waiting, Client
<1> QED BY <1>1, <1>2, <1>3 DEF TimerOk

\* A request: EV_LWIP_SOCKET_DNS.
LEMMA RequireStep ==
    ASSUME DnsInv, NEW r \in Requests, Require(r) PROVE Outcome
<1> DEFINE b == dns_require_ipv6(Client, r)
           limit == [Limit(told) EXCEPT ![r] = {}]
<1>1. /\ lwip_netif /\ lwip_netif' = lwip_netif /\ status[r] = "idle" /\ told' = told
      /\ dns_timer' = (dns_timer \/ ~ is_run)
  BY DEF Require
<1>2. PICK c \in net_lwip_dns_tx_next(b) : Becomes(c, queries)
  BY DEF Require
<1>3. /\ Sound(Client, told, Limit(told)) /\ told \in [Names -> SUBSET Words]
      /\ is_run \in BOOLEAN /\ dns_timer \in BOOLEAN /\ (is_run => dns_timer)
  BY DEF DnsInv, HistoryOk, TimerOk
<1>4. r \notin Ids(Client.require)
  BY <1>1, ClientIs DEF DnsInv, HistoryOk
<1>5. \A q \in Requests \ {r} : limit[q] = Limit(told)[q]
  BY DEF Limit
<1>6. limit[r] = {} /\ \A q \in Requests : limit[q] \subseteq told[nameOf[q]]
  BY DEF Limit
<1> HIDE DEF limit
<1>7. /\ Sound(b, told, limit) /\ b.out = None /\ b.handed = {}
      /\ Client.session <= b.session
      /\ Ids(b.require) = Ids(Client.require) \cup {r}
      /\ \A i \in DOMAIN Client.process : /\ i \in DOMAIN b.process
                                          /\ b.process[i] = Client.process[i]
      /\ \A j \in DOMAIN b.process :
            j \in DOMAIN Client.process \/ b.process[j].session > Client.session
  <2>1. Sound(Client, told, Limit(told)) /\ Client.handed = {} /\ Client.out = None
    BY <1>3, ClientIs
  <2> QED BY <1>4, <1>5, <2>1, RequireIs, Zenon
<1> HIDE DEF b
<1>8. /\ Sound(c, told, limit) /\ Follows(b, c) /\ GivesUp(b, c, told)
      /\ Waiting(c) => c.is_run
  BY <1>2, <1>7, TxNextIs
<1>9. Begins(b, limit)
  <2>1. \A j \in DOMAIN b.process :
           \/ b.process[j].session > session_id
           \/ \E i \in DOMAIN process_head : b.process[j] = process_head[i]
    BY <1>7, ClientIs
  <2>2. ASSUME NEW q \in Ids(b.require)
        PROVE  status[q] = "asked" \/ (status[q] = "idle" /\ limit[q] = {})
    <3>1. CASE q = r
      BY <1>1, <1>6, <3>1
    <3>2. CASE q # r
      <4>1. q \in Ids(require_head)
        BY <1>7, <3>2, ClientIs
      <4>2. q \in Requests
        BY <1>7, ClientShape DEF Ids, Sound
      <4> QED BY <4>1, <4>2 DEF DnsInv, HistoryOk
    <3> QED BY <3>1, <3>2
  <2>3. b \in Clients /\ session_id <= b.session
    BY <1>7, ClientIs DEF Sound
  <2> QED BY <1>1, <1>6, <1>7, <2>1, <2>2, <2>3 DEF Begins
<1>10. /\ Sound(Client', told', Limit(told')) /\ QueriesOk' /\ HistoryOk'
       /\ \A q \in Requests : RequestMoves(q)
  BY <1>1, <1>2, <1>3, <1>8, <1>9, WrittenBack
<1>11. dns_timer' = TRUE /\ lwip_netif' \in BOOLEAN
  BY <1>1, <1>3 DEF DnsInv, TimerOk
<1>12. TimerOk' /\ process_head' = c.process
  BY <1>2, <1>8, <1>11, BecomesRuns DEF Sound
<1>13. ASSUME NEW i \in DOMAIN process_head
       PROVE  \/ HasName(process_head', process_head[i].name)
              \/ told'[process_head[i].name] # {}
              \/ AskedAll(process_head[i])
  <2>1. i \in DOMAIN b.process /\ b.process[i] = process_head[i]
    BY <1>7, ClientIs
  <2> QED BY <1>1, <1>8, <1>12, <2>1 DEF GivesUp
<1>14. DnsInv'
  BY <1>10, <1>12 DEF DnsInv
<1> QED BY <1>1, <1>10, <1>13, <1>14 DEF Outcome

\* The timer of 1000 ms.
LEMMA CommonTimerStep ==
    ASSUME DnsInv, CommonTimer PROVE Outcome
<1>1. /\ told' = told /\ lwip_netif' = lwip_netif /\ dns_timer' = is_run'
  BY DEF CommonTimer
<1>2. PICK c \in net_lwip_dns_tx_next(Client) : Becomes(c, queries)
  BY DEF CommonTimer
<1>3. Sound(Client, told, Limit(told)) /\ told \in [Names -> SUBSET Words]
  BY DEF DnsInv, HistoryOk
<1>4. /\ Sound(c, told, Limit(told)) /\ Follows(Client, c) /\ GivesUp(Client, c, told)
      /\ Waiting(c) => c.is_run
  BY <1>2, <1>3, ClientIs, TxNextIs
<1>5. Begins(Client, Limit(told))
  BY <1>1, ClientBegins
<1>6. /\ Sound(Client', told', Limit(told')) /\ QueriesOk' /\ HistoryOk'
      /\ \A q \in Requests : RequestMoves(q)
  BY <1>1, <1>2, <1>3, <1>4, <1>5, WrittenBack
<1>7. dns_timer' = c.is_run /\ c.is_run \in BOOLEAN /\ lwip_netif' \in BOOLEAN
  <2>1. c.is_run \in BOOLEAN
    BY <1>4, ClientShape DEF Sound
  <2> QED BY <1>1, <1>2, <2>1 DEF DnsInv, TimerOk, Becomes
<1>8. TimerOk' /\ process_head' = c.process
  BY <1>2, <1>4, <1>7, BecomesRuns DEF Sound
<1>9. \A i \in DOMAIN process_head :
         \/ HasName(process_head', process_head[i].name)
         \/ told'[process_head[i].name] # {}
         \/ AskedAll(process_head[i])
  BY <1>1, <1>4, <1>8, ClientIs DEF GivesUp
<1>10. DnsInv'
  BY <1>6, <1>8 DEF DnsInv
<1> QED BY <1>1, <1>6, <1>9, <1>10 DEF Outcome

\* A packet with what is known after it.
LEMMA PacketStep ==
    ASSUME DnsInv, told' \in [Names -> SUBSET Words],
           \A n \in Names : told[n] \subseteq told'[n],
           NEW session, NEW ips, NEW good, Heard(Client, session, ips, good, told'),
           NEW left \in SUBSET queries,
           \E c \in net_lwip_dns_recv_cb(Client, session, ips, good) : Becomes(c, left),
           dns_timer' = (dns_timer /\ is_run'), lwip_netif' = lwip_netif
    PROVE  /\ DnsInv' /\ \A r \in Requests : RequestMoves(r)
           /\ \A i \in DOMAIN process_head :
                 \/ HasName(process_head', process_head[i].name)
                 \/ told'[process_head[i].name] # {}
                 \/ AskedAll(process_head[i])
<1>1. Sound(Client, told', Limit(told'))
  <2>1. Sound(Client, told, Limit(told))
    BY DEF DnsInv
  <2> QED BY <2>1, MoreIsKnown
<1>2. PICK c \in net_lwip_dns_recv_cb(Client, session, ips, good) : Becomes(c, left)
  OBVIOUS
<1>3. /\ Sound(c, told', Limit(told')) /\ Follows(Client, c)
      /\ GivesUp(Client, c, told')
      /\ Waiting(c) => c.is_run
      /\ ~ Waiting(Client) => ~ c.is_run
  BY <1>1, <1>2, ClientIs, RecvIs
<1>4. /\ Sound(Client', told', Limit(told')) /\ QueriesOk' /\ HistoryOk'
      /\ \A q \in Requests : RequestMoves(q)
  BY <1>2, <1>3, ClientBegins, WrittenBack
<1>5. /\ is_run' = c.is_run /\ c.is_run \in BOOLEAN /\ lwip_netif' \in BOOLEAN
      /\ dns_timer \in BOOLEAN /\ (Waiting(Client) => dns_timer)
  <2>1. c.is_run \in BOOLEAN
    BY <1>3, ClientShape DEF Sound
  <2> QED BY <1>2, <2>1 DEF DnsInv, TimerOk, Becomes
<1>6. dns_timer' \in BOOLEAN /\ (c.is_run => dns_timer')
  BY <1>3, <1>5
<1>7. TimerOk' /\ process_head' = c.process
  BY <1>2, <1>3, <1>5, <1>6, BecomesRuns DEF Sound
<1>8. DnsInv'
  BY <1>4, <1>7 DEF DnsInv
<1> QED BY <1>3, <1>4, <1>7, <1>8, ClientIs DEF GivesUp

\* An answer.
LEMMA AnsweredStep ==
    ASSUME DnsInv, NEW q \in queries, NEW good \in BOOLEAN, NEW ips \in {{}, {q.addr}},
           Answered(q, ips, good)
    PROVE  Outcome
<1> DEFINE new == IF good /\ ips = {} THEN {"none"} ELSE ips
<1>1. /\ lwip_netif' = lwip_netif /\ dns_timer' = (dns_timer /\ is_run')
      /\ told' = [told EXCEPT ![q.name] = @ \cup new]
      /\ \E c \in net_lwip_dns_recv_cb(Client, q.session, ips, good) : Becomes(c, queries \ {q})
  BY DEF Answered
<1>2. q.name \in Names /\ q.addr \in Addrs
  BY DEF DnsInv, QueriesOk, Queries
<1>3. ips \subseteq Addrs /\ new \in SUBSET Words /\ ips \subseteq new /\ (good => new # {})
  BY <1>2 DEF Words
<1> HIDE DEF new
<1>4. told \in [Names -> SUBSET Words]
  BY DEF DnsInv, HistoryOk
<1>5. /\ told' \in [Names -> SUBSET Words]
      /\ \A n \in Names : told[n] \subseteq told'[n]
      /\ new \subseteq told'[q.name]
  BY <1>1, <1>2, <1>3, <1>4
<1>6. Heard(Client, q.session, ips, good, told')
  <2>1. ASSUME good, NEW i \in DOMAIN process_head, process_head[i].session = q.session
        PROVE  ips \subseteq told'[process_head[i].name] /\ told'[process_head[i].name] # {}
    <3>1. process_head[i].name = q.name
      BY <2>1 DEF DnsInv, QueriesOk
    <3> QED BY <1>3, <1>5, <2>1, <3>1
  <2> QED BY <1>3, <2>1, ClientIs DEF Heard
<1>7. /\ DnsInv' /\ \A r \in Requests : RequestMoves(r)
      /\ \A i \in DOMAIN process_head :
            \/ HasName(process_head', process_head[i].name)
            \/ told'[process_head[i].name] # {}
            \/ AskedAll(process_head[i])
  <2>1. queries \ {q} \in SUBSET queries
    OBVIOUS
  <2> QED BY <1>1, <1>5, <1>6, <2>1, PacketStep
<1> QED BY <1>1, <1>2, <1>3, <1>7 DEF Outcome

\* A packet of no session.
LEMMA StrayStep ==
    ASSUME DnsInv, Stray PROVE Outcome
<1>1. /\ lwip_netif' = lwip_netif /\ dns_timer' = (dns_timer /\ is_run') /\ told' = told
      /\ \E c \in net_lwip_dns_recv_cb(Client, 0, {}, FALSE) : Becomes(c, queries)
  BY DEF Stray
<1>2. Heard(Client, 0, {}, FALSE, told')
  BY DEF Heard
<1>3. /\ told' \in [Names -> SUBSET Words] /\ queries \in SUBSET queries
      /\ \A n \in Names : told[n] \subseteq told'[n]
  BY <1>1 DEF DnsInv, HistoryOk
<1>4. /\ DnsInv' /\ \A r \in Requests : RequestMoves(r)
      /\ \A i \in DOMAIN process_head :
            \/ HasName(process_head', process_head[i].name)
            \/ told'[process_head[i].name] # {}
            \/ AskedAll(process_head[i])
  BY <1>1, <1>2, <1>3, PacketStep
<1> QED BY <1>1, <1>4 DEF Outcome

\* The link goes down: nothing is left.
LEMMA LinkDownStep ==
    ASSUME DnsInv, LinkDown PROVE Outcome
<1> DEFINE c == Cleared(Client)
<1>1. told' = told /\ lwip_netif' = FALSE /\ dns_timer' = dns_timer /\ Becomes(c, queries)
  BY DEF LinkDown
<1>2. Sound(Client, told, Limit(told)) /\ told \in [Names -> SUBSET Words]
  BY DEF DnsInv, HistoryOk
<1>3. /\ Sound(c, told, Limit(told)) /\ Follows(Client, c)
      /\ ~ Waiting(c) /\ ~ c.is_run
  BY <1>2, ClientIs, ClearedIs
<1> HIDE DEF c
<1>4. /\ Sound(Client', told', Limit(told')) /\ QueriesOk' /\ HistoryOk'
      /\ \A q \in Requests : RequestMoves(q)
  BY <1>1, <1>2, <1>3, ClientBegins, WrittenBack
<1>5. dns_timer' \in BOOLEAN /\ lwip_netif' \in BOOLEAN
  BY <1>1 DEF DnsInv, TimerOk
<1>6. TimerOk'
  BY <1>1, <1>3, <1>5, BecomesRuns DEF Sound
<1>7. DnsInv'
  BY <1>4, <1>6 DEF DnsInv
<1> QED BY <1>1, <1>4, <1>7 DEF Outcome

\* The link comes back, or nothing happens.
LEMMA IdleStep ==
    ASSUME DnsInv, UNCHANGED <<clientVars, dns_timer, queries, historyVars>>,
           lwip_netif' \in BOOLEAN
    PROVE  Outcome
<1>1. /\ process_head' = process_head /\ require_head' = require_head
      /\ is_run' = is_run /\ new_result' = new_result /\ session_id' = session_id
      /\ dns_timer' = dns_timer /\ queries' = queries /\ status' = status
      /\ given' = given /\ told' = told
  BY DEF clientVars, historyVars
<1>2. Client' = Client
  BY <1>1 DEF Client
<1>3. Sound(Client', told', Limit(told')) /\ Waiting(Client)' = Waiting(Client)
  BY <1>1, <1>2 DEF DnsInv, Waiting
<1>4. HistoryOk' /\ QueriesOk'
  BY <1>1 DEF DnsInv, HistoryOk, QueriesOk, Ids
<1>5. TimerOk'
  BY <1>1, <1>3 DEF DnsInv, TimerOk
<1>6. \A r \in Requests : RequestMoves(r)
  BY <1>1 DEF RequestMoves
<1>7. \A i \in DOMAIN process_head : HasName(process_head', process_head[i].name)
  BY <1>1 DEF HasName
<1>8. DnsInv'
  BY <1>3, <1>4, <1>5 DEF DnsInv
<1> QED BY <1>1, <1>6, <1>7, <1>8 DEF Outcome

\* Time passes for a process.
LEMMA ExpireStep ==
    ASSUME DnsInv, NEW i \in DOMAIN process_head, Expire(i) PROVE Outcome
<1> DEFINE P == process_head
           p == [P[i] EXCEPT !.due = TRUE]
           d == Client'
<1>1. /\ P' = [P EXCEPT ![i] = p] /\ require_head' = require_head
      /\ is_run' = is_run /\ new_result' = new_result /\ session_id' = session_id
      /\ dns_timer' = dns_timer /\ queries' = queries /\ status' = status
      /\ given' = given /\ told' = told /\ lwip_netif' = lwip_netif
  BY DEF Expire, historyVars
<1>2. /\ Client \in Clients /\ P \in Seq(Processes) /\ Sound(Client, told, Limit(told))
      /\ \A j \in DOMAIN P : P[j] \in Processes
  BY ClientIs, ClientShape DEF DnsInv, Sound
<1>3. /\ p \in Processes /\ Same(p, P[i]) /\ p.asks = P[i].asks
      /\ p.done6 = P[i].done6 /\ p.is6 = P[i].is6 /\ p.mode6 = P[i].mode6
      /\ p.asked = P[i].asked /\ p.srv = P[i].srv /\ p.retry = P[i].retry
  BY <1>2 DEF Processes, Same
<1> HIDE DEF p
<1>4. /\ P' \in Seq(Processes) /\ DOMAIN P' = DOMAIN P
      /\ \A j \in DOMAIN P : j # i => P'[j] = P[j]
      /\ P'[i] = p
  BY <1>1, <1>2, <1>3
<1>5. \A j \in DOMAIN P : Same(P'[j], P[j]) /\ Counted(P'[j], told)
  <2>1. \A j \in DOMAIN P : Counted(P[j], told)
    BY <1>2, ClientIs DEF Sound
  <2>2. Counted(p, told)
    BY <1>3, <2>1 DEF Counted, Same
  <2> QED BY <1>3, <1>4, <2>1, <2>2 DEF Same
<1>6. /\ d \in Clients /\ d.process = P' /\ d.require = require_head
      /\ d.session = session_id /\ d.out = None /\ d.handed = {}
  <2>1. d = [Client EXCEPT !.process = P']
    BY <1>1 DEF Client
  <2> HIDE DEF d
  <2> QED BY <1>2, <1>4, <2>1, ClientIs DEF Clients
<1> HIDE DEF d
<1>7. Distinct(d)
  BY <1>2, <1>4, <1>5, <1>6, ClientIs DEF Sound, Distinct, Same
<1>0. Borrowed(d)
  BY <1>2, <1>4, <1>5, <1>6, ClientIs DEF Sound, Borrowed, Same
<1>8. WaitsOnce(d) /\ Sends(d) /\ Justified(d, told, Limit(told))
  BY <1>2, <1>4, <1>5, <1>6, ClientIs DEF Sound, WaitsOnce, Sends, Justified, Same
<1>9. Sound(Client', told', Limit(told'))
  BY <1>0, <1>1, <1>4, <1>5, <1>6, <1>7, <1>8 DEF Sound, d
<1>10. QueriesOk'
  BY <1>1, <1>4, <1>5 DEF DnsInv, QueriesOk, Same
<1>11. HistoryOk'
  BY <1>1 DEF DnsInv, HistoryOk, Ids
<1>12. TimerOk'
  <2>1. P # <<>>
    BY <1>2, EmptyList
  <2>2. is_run
    BY <2>1, ClientIs DEF DnsInv, TimerOk, Waiting
  <2> QED BY <1>1, <2>2 DEF DnsInv, TimerOk
<1>13. DnsInv'
  BY <1>9, <1>10, <1>11, <1>12 DEF DnsInv
<1>14. \A j \in DOMAIN P : HasName(P', P[j].name)
  BY <1>4, <1>5 DEF HasName, Same
<1>15. \A r \in Requests : RequestMoves(r)
  BY <1>1 DEF RequestMoves
<1> QED BY <1>1, <1>13, <1>14, <1>15 DEF Outcome

\* Every step has its outcome.
LEMMA StepOutcome ==
    ASSUME DnsInv, [Next]_vars PROVE Outcome
<1>0. lwip_netif \in BOOLEAN
  BY DEF DnsInv, TimerOk
<1>1. ASSUME NEW r \in Requests, Require(r) PROVE Outcome
  BY <1>1, RequireStep
<1>2. CASE CommonTimer
  BY <1>2, CommonTimerStep
<1>3. ASSUME NEW q \in queries, NEW good \in BOOLEAN, NEW ips \in {{}, {q.addr}},
             Answered(q, ips, good)
      PROVE  Outcome
  BY <1>3, AnsweredStep
<1>4. CASE Stray
  BY <1>4, StrayStep
<1>5. CASE LinkDown
  BY <1>5, LinkDownStep
<1>6. CASE LinkUp
  BY <1>6, IdleStep DEF LinkUp
<1>7. ASSUME NEW i \in DOMAIN process_head, Expire(i) PROVE Outcome
  BY <1>7, ExpireStep
<1>8. CASE UNCHANGED vars
  BY <1>0, <1>8, IdleStep DEF vars
<1> QED BY <1>1, <1>2, <1>3, <1>4, <1>5, <1>6, <1>7, <1>8 DEF Next, Time

LEMMA DnsInvInit == Init => DnsInv
<1> SUFFICES ASSUME Init PROVE DnsInv
  OBVIOUS
<1>1. /\ process_head = <<>> /\ require_head = <<>> /\ is_run = FALSE
      /\ new_result = FALSE /\ session_id = 0 /\ dns_timer = FALSE /\ lwip_netif = TRUE
      /\ queries = {} /\ status = [r \in Requests |-> "idle"]
      /\ given = [r \in Requests |-> {}] /\ told = [n \in Names |-> {}]
  BY DEF Init
<1>2. DOMAIN process_head = {} /\ DOMAIN require_head = {} /\ Ids(require_head) = {}
  BY <1>1 DEF Ids
<1>3. Client \in Clients
  <2>1. <<>> \in Seq(Processes) /\ <<>> \in Seq(Requires)
    OBVIOUS
  <2> QED BY <1>1, <2>1 DEF Client, Clients
<1>4. Distinct(Client) /\ Borrowed(Client) /\ WaitsOnce(Client) /\ Sends(Client)
  BY <1>2, ClientIs DEF Distinct, Borrowed, WaitsOnce, Sends
<1>5. Justified(Client, told, Limit(told))
  BY <1>2, ClientIs DEF Justified
<1>6. Sound(Client, told, Limit(told))
  BY <1>2, <1>3, <1>4, <1>5, ClientIs DEF Sound
<1>7. HistoryOk
  BY <1>1, <1>2 DEF HistoryOk
<1>8. QueriesOk /\ TimerOk
  BY <1>1, ClientIs DEF QueriesOk, TimerOk, Waiting
<1> QED BY <1>6, <1>7, <1>8 DEF DnsInv

\* The invariant holds in every state.
LEMMA DnsInvariance == Spec => []DnsInv
<1>1. DnsInv /\ [Next]_vars => DnsInv'
  BY StepOutcome DEF Outcome
<1> QED BY <1>1, DnsInvInit, PTL DEF Spec

\* The two lists of the client hold what their readers expect, and the name of
\* a process is read from a buffer whose owner still waits (uri_buf).
THEOREM ListsStayInOrder == Spec => []ListsInOrder
<1>1. ASSUME DnsInv PROVE ListsInOrder
  <2>0. Client \in Clients /\ Distinct(Client) /\ Borrowed(Client)
    BY <1>1 DEF DnsInv, Sound
  <2>1. /\ Client \in Clients /\ Distinct(Client) /\ Borrowed(Client)
        /\ process_head \in Seq(Processes)
    BY <2>0, ClientIs, ClientShape
  <2>2. ASSUME NEW i \in DOMAIN process_head
        PROVE  /\ process_head[i].name \in Names
               /\ process_head[i].srv \in 0..MAX_DNS_SERVER - 1
               /\ process_head[i].retry \in 0..DNS_TRY_MAX - 1
               /\ process_head[i].ips \subseteq Addrs
               /\ process_head[i].session \in 1..session_id
    <3>1. process_head[i] \in Processes
      BY <2>1
    <3>2. process_head[i].session \in 1..session_id
      BY <2>1, ClientIs DEF Distinct
    <3> QED BY <3>1, <3>2 DEF Processes, Places
  <2>3. \A k \in DOMAIN require_head : require_head[k].id \in Requests
    BY <2>1, ClientIs, ClientShape
  <2>4. DnsTypeOK
    BY <1>1, <2>2, <2>3 DEF DnsTypeOK, DnsInv, TimerOk
  <2>5. UriOwned
    BY <2>1, ClientIs DEF Borrowed, UriOwned
  <2> QED BY <2>4, <2>5 DEF ListsInOrder
<1> QED BY <1>1, DnsInvariance, PTL

\* The periodic timer runs while anything waits, whichever callback has stopped
\* or started it.
THEOREM TimerAlwaysDrives == Spec => []TimerDrives
<1>1. DnsInv => TimerDrives
  BY ClientIs DEF DnsInv, TimerOk, Waiting, TimerDrives
<1> QED BY <1>1, DnsInvariance, PTL

\* A name is given up only when every valid server was asked DNS_TRY_MAX times,
\* if none of them has said anything and the link holds.
THEOREM NamesAreGivenUpLast == Spec => GivenUpAfterAll
<1> DEFINE Step == \A i \in DOMAIN process_head :
          \/ HasName(process_head', process_head[i].name)
          \/ ~lwip_netif'
          \/ told'[process_head[i].name] # {}
          \/ \A s \in Servers : process_head[i].asks[s] >= DNS_TRY_MAX
<1>1. DnsInv /\ [Next]_vars => [Step]_vars
  BY StepOutcome DEF Outcome, AskedAll
<1> QED BY <1>1, DnsInvariance, PTL DEF Spec, GivenUpAfterAll

\* The client implements DnsPromise: a request is ended at most once, and found
\* only with addresses that a server gave for its own name.
THEOREM PromiseIsKept == Spec => KeepsPromise
<1>1. Init => Promise!PromiseInit
  BY DEF Init, Promise!PromiseInit
<1>2. ASSUME DnsInv, [Next]_vars PROVE [Promise!PromiseNext]_(Promise!promiseVars)
  <2>1. Outcome
    BY <1>2, StepOutcome
  <2>2. HistoryOk /\ HistoryOk'
    BY <1>2, <2>1 DEF Outcome, DnsInv
  <2>3. CASE Names = {}
    <3>1. Requests = {}
      BY <2>3, DnsAssumption
    <3>2. told' = told /\ status' = status /\ given' = given
      BY <2>2, <2>3, <3>1 DEF HistoryOk
    <3> QED BY <3>2 DEF Promise!promiseVars
  <2>4. CASE Names # {}
    <3>1. \E n \in Names, new \in SUBSET (Addrs \cup {"none"}) :
             told' = [told EXCEPT ![n] = @ \cup new]
      <4>1. CASE told' = told
        <5>1. PICK n \in Names : TRUE
          BY <2>4
        <5>2. told = [told EXCEPT ![n] = @ \cup {}]
          BY <2>2, <5>1 DEF HistoryOk
        <5> QED BY <4>1, <5>2
      <4> QED BY <2>1, <4>1 DEF Outcome, Words
    <3>2. /\ status' \in [Requests -> {"idle", "asked", "found", "failed", "dropped"}]
          /\ given' \in [Requests -> SUBSET (Addrs \cup {"none"})]
      BY <2>2 DEF HistoryOk
    <3>3. \A r \in Requests : Promise!Moves(r)
      BY <2>1 DEF Outcome, RequestMoves, Promise!Moves
    <3> QED BY <3>1, <3>2, <3>3 DEF Promise!PromiseNext
  <2> QED BY <2>3, <2>4
<1> QED BY <1>1, <1>2, DnsInvariance, PTL DEF Spec, KeepsPromise, Promise!PromiseSpec
=============================================================================

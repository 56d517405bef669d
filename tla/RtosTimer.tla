----------------------------- MODULE RtosTimer -----------------------------
(***************************************************************************)
(* The timers of the rtos library and the message bus they report to.      *)
(*                                                                         *)
(* luat_timer_freertos.c keeps a table of FREERTOS_TIMER_COUNT slots.  The *)
(* callback of a FreeRTOS timer runs in the timer daemon, finds the slot   *)
(* by the timer's id and puts a message on the bus (a FreeRTOS queue, see  *)
(* luat_msgbus_freertos.c).  The Lua task takes the message in             *)
(* rtos.receive, whose handler finds the slot by the id again, hands       *)
(* (MSG_TIMER, id, repeat) to sys.lua and frees the slot of a one-shot.    *)
(*                                                                         *)
(* The functions of the table and the bus are operators on values, so that *)
(* Sys can compose several calls in one step; the actions of this module   *)
(* are the four entry points: start, stop, the callback, receive.          *)
(*                                                                         *)
(* The daemon has the highest priority on a single core and its callback   *)
(* does not block, so a callback is one step.  The Lua task clears the     *)
(* slot before it frees the timer, so its calls are one step each.         *)
(*                                                                         *)
(* Operators named Bug... are what a plausible defect would make of the    *)
(* definition that follows them; no other definition uses them.            *)
(***************************************************************************)
EXTENDS Integers, Sequences, FiniteSets

CONSTANTS
    SlotCount,      \* FREERTOS_TIMER_COUNT
    BusCap,         \* length of the bus queue
    TimerIds,       \* ids that rtos.timer_start is called with
    Repeats,        \* its repeat arguments: 0 one-shot, -1 for ever, n > 0
    FreedReads,     \* what reading the id of a freed timer may yield
    MayFail,        \* may a start fail with a slot free: timeout < 1, no heap
    SharedIds       \* may a start reuse an id that is live or on the bus

ASSUME SlotAssumption  == SlotCount \in Nat \ {0}
ASSUME BusAssumption   == BusCap \in Nat \ {0}
ASSUME IdAssumption    == TimerIds \subseteq Nat /\ FreedReads \subseteq Nat
ASSUME RepeatAssumption == Repeats \subseteq Int
ASSUME SwitchAssumption == MayFail \in BOOLEAN /\ SharedIds \in BOOLEAN

VARIABLES
    timers,     \* the table: a timer in every slot, or NoTimer
    bus,        \* the queue of rtos_msg_t
    dropped     \* slots whose last tick was refused by a full bus (history)

rtosVars == <<timers, bus, dropped>>

Slots    == 1 .. SlotCount
NoId     == -1
Dangling == 0           \* msg.ptr of a tick whose timer has been freed

\* luat_timer_t: its id and the remaining repeats; of the FreeRTOS timer
\* behind it, whether it reloads itself and whether it will expire (again).
Timer   == [id : TimerIds, repeat : Int, reload : BOOLEAN, armed : BOOLEAN]
NoTimer == [id |-> NoId, repeat |-> 0, reload |-> FALSE, armed |-> FALSE]

\* rtos_msg_t: a tick carries the id (arg1) and the slot msg.ptr points to;
\* other messages (uart, network, ...) only matter for the room they take.
Tick(ts, s) == [kind |-> "tick", id |-> ts[s].id, ptr |-> s]
OtherMsg    == [kind |-> "other", id |-> NoId, ptr |-> Dangling]
Messages    == [kind : {"tick"}, id : TimerIds, ptr : Slots \cup {Dangling}]
                 \cup {OtherMsg}

----------------------------------------------------------------------------
\* luat_timer_get and nextTimerSlot: the first slot with that id, as a set
\* with at most one element.
First(ts, id) == {s \in Slots : /\ ts[s].id = id
                                /\ \A r \in Slots : r < s => ts[r].id # id}
BugNextTimerSlot(ts) == {1}     \* forgets to look whether the slot is used
NextTimerSlot(ts) == First(ts, NoId)

Live(ts, id)  == \E s \in Slots : ts[s].id = id
OnBus(b, id)  == \E i \in DOMAIN b : b[i].kind = "tick" /\ b[i].id = id

\* No timer and no message has this id.  The Lua side hands out 2^21 - 1 and
\* 6 * 2^20 ids in turn, so that an id is free again long before its next use.
Fresh(ts, b, id) == ~ Live(ts, id) /\ ~ OnBus(b, id)

\* luat_timer_start in slot S (NextTimerSlot), luat_timer_stop plus
\* luat_heap_free of the timers in S, and what the latter leaves on the bus.
Started(ts, S, id, n) ==
    [s \in Slots |->
        IF s \in S
        THEN [id |-> id, repeat |-> n, reload |-> n # 0, armed |-> TRUE]
        ELSE ts[s]]
Freed(ts, S) == [s \in Slots |-> IF s \in S THEN NoTimer ELSE ts[s]]
Unlinked(b, S) ==
    [i \in DOMAIN b |-> IF b[i].ptr \in S THEN [b[i] EXCEPT !.ptr = Dangling]
                                          ELSE b[i]]

\* l_rtos_timer_start returns 1 or 0.
StartOk(ts)    == NextTimerSlot(ts) # {}
StartFails(ts) == MayFail \/ NextTimerSlot(ts) = {}

BugBusFull(b) == Len(b) > BusCap
\* luat_msgbus_put: xQueueSendFromISR fails when the queue is full.
BusFull(b) == Len(b) >= BusCap

\* The id l_timer_handler looks up.  Id 0 is read through msg.ptr, which may
\* point to freed memory.
LookupIds(ts, m) ==
    IF m.id > 0 THEN {m.id}
    ELSE IF m.ptr \in Slots THEN {ts[m.ptr].id} ELSE FreedReads

\* takes the first timer of the table, whatever its id
BugHandlerSlots(ts, m) ==
    {s \in Slots : /\ ts[s].id # NoId
                   /\ \A r \in Slots : r < s => ts[r].id = NoId}

\* l_timer_handler: the slots it may find, and the table afterwards.
HandlerSlots(ts, m) == UNION {First(ts, id) : id \in LookupIds(ts, m)}
FreedByHandler(ts, s) == IF ts[s].repeat = 0 THEN {s} ELSE {}
\* does not free a one-shot
BugHandled(ts, s) ==
    IF ts[s].repeat > 0 THEN [ts EXCEPT ![s].repeat = @ - 1] ELSE ts
Handled(ts, s) ==
    IF ts[s].repeat = 0 THEN Freed(ts, {s})
    ELSE IF ts[s].repeat > 0 THEN [ts EXCEPT ![s].repeat = @ - 1]
    ELSE ts

----------------------------------------------------------------------------
RtosInit ==
    /\ timers = [s \in Slots |-> NoTimer]
    /\ bus = <<>>
    /\ dropped = {}

\* rtos.timer_start(id, ms, n)
Start(id, n) ==
    /\ StartOk(timers)
    /\ SharedIds \/ Fresh(timers, bus, id)
    /\ timers' = Started(timers, NextTimerSlot(timers), id, n)
    /\ UNCHANGED <<bus, dropped>>

\* rtos.timer_stop(id): luat_timer_get, luat_timer_stop, luat_heap_free
StopSlots(S) ==
    /\ timers' = Freed(timers, S)
    /\ bus' = Unlinked(bus, S)
    /\ dropped' = dropped \ S

Stop(id) == Live(timers, id) /\ StopSlots(First(timers, id))

\* luat_timer_callback of the FreeRTOS timer created for slot s.  It looks
\* the timer up by id, so with shared ids it may report another one.
ExpiredSlot(s) == First(timers, timers[s].id)
\* the callback returns before it posts
BugExpireSilent(s) ==
    /\ timers[s].armed
    /\ timers' = [timers EXCEPT ![s].armed = timers[s].reload]
    /\ UNCHANGED <<bus, dropped>>

Expire(s) ==
    /\ timers[s].armed
    /\ timers' = [timers EXCEPT ![s].armed = timers[s].reload]
    /\ IF BusFull(bus)
       THEN /\ bus' = bus
            /\ dropped' = dropped \cup {r \in {s} : ~ timers[r].reload}
       ELSE /\ \E r \in ExpiredSlot(s) : bus' = Append(bus, Tick(timers, r))
            /\ UNCHANGED dropped

\* luat_msgbus_put by any other driver
Post ==
    /\ ~ BusFull(bus)
    /\ bus' = Append(bus, OtherMsg)
    /\ UNCHANGED <<timers, dropped>>

\* rtos.receive: luat_msgbus_get, then the handler of the message
ReceiveOther ==
    /\ bus # <<>> /\ Head(bus).kind = "other"
    /\ bus' = Tail(bus)
    /\ UNCHANGED <<timers, dropped>>

ReceiveTick(s) ==
    /\ bus # <<>> /\ Head(bus).kind = "tick"
    /\ s \in HandlerSlots(timers, Head(bus))
    /\ timers' = Handled(timers, s)
    /\ bus' = Unlinked(Tail(bus), FreedByHandler(timers, s))
    /\ dropped' = dropped \ FreedByHandler(timers, s)

\* the handler finds no timer and returns no value to Lua
ReceiveStale ==
    /\ bus # <<>> /\ Head(bus).kind = "tick"
    /\ \E id \in LookupIds(timers, Head(bus)) : ~ Live(timers, id)
    /\ bus' = Tail(bus)
    /\ UNCHANGED <<timers, dropped>>

RtosReceive == ReceiveOther \/ ReceiveStale \/ \E s \in Slots : ReceiveTick(s)

RtosNext ==
    \/ \E id \in TimerIds, n \in Repeats : Start(id, n)
    \/ \E id \in TimerIds : Stop(id)
    \/ \E s \in Slots : Expire(s)
    \/ Post
    \/ RtosReceive

RtosSpec == RtosInit /\ [][RtosNext]_rtosVars

\* The clock runs, and the main loop always comes back to rtos.receive.
RtosFairSpec ==
    /\ RtosSpec
    /\ \A s \in 1 .. SlotCount : WF_rtosVars(Expire(s))
    /\ WF_rtosVars(RtosReceive)
----------------------------------------------------------------------------
RtosTypeOK ==
    /\ timers \in [Slots -> Timer \cup {NoTimer}]
    /\ bus \in Seq(Messages) /\ Len(bus) <= BusCap
    /\ dropped \subseteq Slots

TickPending(s) == \E i \in DOMAIN bus : bus[i].kind = "tick" /\ bus[i].ptr = s
Expired(s)     == timers[s] # NoTimer /\ ~ timers[s].armed

\* An expired one-shot keeps its slot only while its tick is on the bus, or
\* for ever if the full bus refused the tick: luat_timer_callback ignores the
\* result of luat_msgbus_put, and nothing else gives the slot back.
ExpiredHasTick == \A s \in Slots : Expired(s) => TickPending(s) \/ s \in dropped

\* A slot whose tick was lost is really stuck: it is occupied, its timer will
\* not expire again and no message will ever release it.
DroppedIsStuck == \A s \in dropped : Expired(s) /\ ~ TickPending(s)

\* A message whose pointer is not dangling points to an occupied slot that
\* still has the id the message was sent with: msg.ptr is used after free
\* only through a dangling pointer.
TickPointsToOwner ==
    \A i \in DOMAIN bus : LET m == bus[i] IN
        m.ptr \in Slots => timers[m.ptr].id = m.id

\* A tick that was on the bus when its timer was stopped reaches nobody: when
\* rtos.receive takes it, no timer is freed or counted down.
StaleTickHarmless ==
    [][RtosReceive /\ Head(bus).ptr = Dangling => timers' = timers]_rtosVars

\* rtos.timer_stop and the handler are the only ways to lose a slot, and
\* the handler frees a one-shot only after it has expired.
OnlyExpiredFreed ==
    [][\A s \in Slots :
        RtosReceive /\ timers[s] # NoTimer /\ timers'[s] = NoTimer
            => Expired(s) \/ timers[s].reload]_rtosVars

\* A started one-shot comes to an end - it is delivered or stopped - unless
\* its tick met a full bus.
OneShotEnds ==
    \A s \in 1 .. SlotCount :
        (timers[s] # NoTimer /\ ~ timers[s].reload)
            ~> (timers[s] = NoTimer \/ s \in dropped)
=============================================================================

-------------------------------- MODULE Sys --------------------------------
(***************************************************************************)
(* sys.lua, the task framework of LuatOS, over the timers and the bus of   *)
(* RtosTimer.                                                              *)
(*                                                                         *)
(* One Lua thread runs everything: first the main script, then sys.run,    *)
(* which dispatches published messages to their subscribers and blocks in  *)
(* rtos.receive once there is none left.  Subscribers are callbacks and    *)
(* tasks (coroutines) that wait; a timer either wakes the task that waits  *)
(* for it or calls a callback.  Whoever runs keeps the thread until it     *)
(* returns or waits; a task is created by the running actor and runs at    *)
(* once, nested in it.  Below, `stack' is that nesting, innermost first,   *)
(* and the scheduler moves when it is empty.  The timer daemon and the     *)
(* drivers post to the bus at any time.                                    *)
(*                                                                         *)
(* Operators named Bug... are plausible defects of the definition after    *)
(* them; no other definition uses them.                                    *)
(***************************************************************************)
EXTENDS RtosTimer

CONSTANTS
    Tasks,              \* coroutines the script may create
    Fns,                \* callbacks of subscriptions, timers and drivers
    Topics,             \* ids of published messages
    Args,               \* arguments of timer callbacks
    TASK_TIMER_ID_MAX,  \* sys.wait uses the ids below it,
    MSG_TIMER_ID_MAX,   \* sys.timerStart those from there to this one
    MaxMessages         \* bound: messages in messageQueue

CONSTANTS Nil, Main, AssertFn, NoArg      \* distinct values

TaskIds == 0 .. TASK_TIMER_ID_MAX - 1
MsgIds  == TASK_TIMER_ID_MAX + 1 .. MSG_TIMER_ID_MAX

ASSUME LimitAssumption ==
    /\ TASK_TIMER_ID_MAX \in Nat \ {0} /\ MSG_TIMER_ID_MAX \in Nat
    /\ TASK_TIMER_ID_MAX < MSG_TIMER_ID_MAX
    /\ MaxMessages \in Nat
ASSUME IdsAssumption == TimerIds = TaskIds \cup MsgIds
ASSUME NamesAssumption ==
    /\ Tasks \cap Fns = {} /\ {Nil, Main, AssertFn} \cap (Tasks \cup Fns) = {}
    /\ Nil # Main /\ Nil # AssertFn /\ Main # AssertFn /\ NoArg \notin Args

VARIABLES
    taskTimerId,    \* last id taken by sys.wait
    msgId,          \* last id taken by sys.timerAdvStart
    timerPool,      \* id -> the task or callback it was started for, or Nil
    taskTimerPool,  \* task -> the id of its wait, or NoId
    para,           \* id -> the argument of the callback, or NoArg
    subscribers,    \* topic -> tasks and callbacks
    messageQueue,   \* published, not yet dispatched
    snapshot,       \* dispatch: its message and the subscribers left to call
    stack,          \* the running actors, innermost first
    cbTimer,        \* id whose para is cleared when the callback returns
    status,         \* of a coroutine: "none", "run", "wait", "dead"
    topics,         \* of a waiting task: what it is subscribed to ...
    timerid         \* ... and the timer of its sys.wait, or NoId

taskVars  == <<status, topics, timerid>>
poolVars  == <<taskTimerId, msgId, timerPool, taskTimerPool, para>>
queueVars == <<subscribers, messageQueue, snapshot>>
sysVars   == <<poolVars, queueVars, taskVars, stack, cbTimer>>
vars      == <<rtosVars, sysVars>>

Callbacks == Fns \cup {AssertFn}
Idle == [topic |-> Nil, left |-> {}]

----------------------------------------------------------------------------
\* The start of the program, and the state after rtos.reboot.
Init ==
    /\ RtosInit
    /\ taskTimerId = 0
    /\ msgId = TASK_TIMER_ID_MAX
    /\ timerPool = [id \in TimerIds |-> Nil]
    /\ taskTimerPool = [t \in Tasks |-> NoId]
    /\ para = [id \in TimerIds |-> NoArg]
    /\ subscribers = [m \in Topics |-> {}]
    /\ messageQueue = <<>>
    /\ snapshot = Idle
    /\ stack = <<Main>>
    /\ cbTimer = NoId
    /\ status = [t \in Tasks |-> "none"]
    /\ topics = [t \in Tasks |-> {}]
    /\ timerid = [t \in Tasks |-> NoId]

Reboot ==
    /\ timers' = [s \in Slots |-> NoTimer] /\ bus' = <<>> /\ dropped' = {}
    /\ taskTimerId' = 0 /\ msgId' = TASK_TIMER_ID_MAX
    /\ timerPool' = [id \in TimerIds |-> Nil]
    /\ taskTimerPool' = [t \in Tasks |-> NoId]
    /\ para' = [id \in TimerIds |-> NoArg]
    /\ subscribers' = [m \in Topics |-> {}]
    /\ messageQueue' = <<>> /\ snapshot' = Idle
    /\ stack' = <<Main>> /\ cbTimer' = NoId
    /\ status' = [t \in Tasks |-> "none"]
    /\ topics' = [t \in Tasks |-> {}] /\ timerid' = [t \in Tasks |-> NoId]

Running   == stack # <<>>
Actor     == Head(stack)
Scheduler == stack = <<>>

Without(f, ids, none) == [x \in DOMAIN f |-> IF x \in ids THEN none ELSE f[x]]
Unsubscribed(subs, c, S) ==
    [m \in Topics |-> IF m \in S THEN subs[m] \ {c} ELSE subs[m]]

----------------------------------------------------------------------------
\* sys.publish, sys.subscribe and sys.unsubscribe of a callback.  Calling
\* unsubscribe when nobody is subscribed is a Lua error, see Fail.
Publish(m) ==
    /\ Running /\ Len(messageQueue) < MaxMessages
    /\ messageQueue' = Append(messageQueue, m)
    /\ UNCHANGED <<rtosVars, poolVars, subscribers, snapshot, taskVars, stack,
                   cbTimer>>

Subscribe(m, f) ==
    /\ Running
    /\ subscribers' = [subscribers EXCEPT ![m] = @ \cup {f}]
    /\ UNCHANGED <<rtosVars, poolVars, messageQueue, snapshot, taskVars, stack,
                   cbTimer>>

Unsubscribe(m, f) ==
    /\ Running /\ subscribers[m] # {}
    /\ subscribers' = Unsubscribed(subscribers, f, {m})
    /\ UNCHANGED <<rtosVars, poolVars, messageQueue, snapshot, taskVars, stack,
                   cbTimer>>

\* sys.taskInit: the new coroutine runs at once, on top of its creator.
TaskInit(t) ==
    /\ Running /\ status[t] = "none"
    /\ status' = [status EXCEPT ![t] = "run"]
    /\ stack' = <<t>> \o stack
    /\ UNCHANGED <<rtosVars, poolVars, queueVars, topics, timerid, cbTimer>>

----------------------------------------------------------------------------
\* The id sys.wait takes.  Its check for a used id looks into taskTimerPool,
\* which is keyed by coroutine, and so never rejects one.
NextTaskTimerId ==
    IF taskTimerId >= TASK_TIMER_ID_MAX - 1 THEN 0 ELSE taskTimerId + 1

\* sys.wait in task t: the bookkeeping, then rtos.timer_start.
BugTakeTaskTimer(t, id) ==  \* forgets taskTimerPool
    /\ taskTimerId' = id
    /\ timerPool' = [timerPool EXCEPT ![id] = t]
    /\ UNCHANGED <<taskTimerPool, msgId, para>>
TakeTaskTimer(t, id) ==
    /\ taskTimerId' = id
    /\ taskTimerPool' = [taskTimerPool EXCEPT ![t] = id]
    /\ timerPool' = [timerPool EXCEPT ![id] = t]
    /\ UNCHANGED <<msgId, para>>

BugSuspend(t, S, id) ==     \* forgets to subscribe
    /\ status' = [status EXCEPT ![t] = "wait"]
    /\ topics' = [topics EXCEPT ![t] = S]
    /\ timerid' = [timerid EXCEPT ![t] = id]
    /\ stack' = Tail(stack)
    /\ UNCHANGED subscribers
Suspend(t, S, id) ==
    /\ status' = [status EXCEPT ![t] = "wait"]
    /\ topics' = [topics EXCEPT ![t] = S]
    /\ timerid' = [timerid EXCEPT ![t] = id]
    /\ subscribers' = [m \in Topics |->
            IF m \in S THEN subscribers[m] \cup {t} ELSE subscribers[m]]
    /\ stack' = Tail(stack)

\* sys.waitUntil(S, ms), or sys.wait(ms) when S is empty
WaitTimed(t, S) ==
    /\ Running /\ Actor = t
    /\ LET id == NextTaskTimerId IN
        /\ Start(id, 0)
        /\ TakeTaskTimer(t, id)
        /\ Suspend(t, S, id)
    /\ UNCHANGED <<messageQueue, snapshot, cbTimer>>

\* The same when rtos.timer_start fails: sys.wait returns without yielding
\* and leaves its entries behind; waitUntil unsubscribes again.
WaitFails(t) ==
    /\ Running /\ Actor = t /\ StartFails(timers)
    /\ SharedIds \/ Fresh(timers, bus, NextTaskTimerId)
    /\ TakeTaskTimer(t, NextTaskTimerId)
    /\ UNCHANGED <<rtosVars, queueVars, taskVars, stack, cbTimer>>

\* sys.waitUntil(S) and waitUntilMsg(S), without a timeout
WaitForever(t, S) ==
    /\ Running /\ Actor = t /\ S # {}
    /\ Suspend(t, S, NoId)
    /\ UNCHANGED <<rtosVars, poolVars, messageQueue, snapshot, cbTimer>>

----------------------------------------------------------------------------
\* timerStop(f, a): pairs() finds the entries in any order, and the loop
\* stops at the first one that matches.
TimersOf(f, a) == {k \in MsgIds : timerPool[k] = f /\ para[k] = a}
FirstMatch(f, a) ==
    IF TimersOf(f, a) = {} THEN {{}} ELSE {{k} : k \in TimersOf(f, a)}

SlotsOfIds(K) == UNION {First(timers, k) : k \in K}

\* Entries and timers of the ids K are gone.
BugForgetTimers(K) ==       \* leaves para
    /\ timerPool' = Without(timerPool, K, Nil)
    /\ StopSlots(SlotsOfIds(K))
    /\ UNCHANGED para
BugForgetTimersOnly(K) ==   \* forgets rtos.timer_stop
    /\ timerPool' = Without(timerPool, K, Nil)
    /\ para' = Without(para, K, NoArg)
    /\ UNCHANGED rtosVars
ForgetTimers(K) ==
    /\ timerPool' = Without(timerPool, K, Nil)
    /\ para' = Without(para, K, NoArg)
    /\ StopSlots(SlotsOfIds(K))

\* sys.timerStop(id), sys.timerStop(f, a), sys.timerStopAll(f); the script
\* never learns the id of the timer that the wrapper starts for assert
TimerStop(K) ==
    /\ Running
    /\ ForgetTimers(K)
    /\ UNCHANGED <<taskTimerId, msgId, taskTimerPool, queueVars, taskVars, stack,
                   cbTimer>>
TimerStopId(k)    == timerPool[k] # AssertFn /\ TimerStop({k})
TimerStopFn(f, a) == \E K \in FirstMatch(f, a) : TimerStop(K)
TimerStopAll(f)   == TimerStop({k \in MsgIds : timerPool[k] = f})

\* The search for an id in timerAdvStart, from msgId on and round: the free
\* id that is reached first.
NextMsgId(pool) ==
    LET dist(id) == (id - msgId - 1) % (MSG_TIMER_ID_MAX - TASK_TIMER_ID_MAX)
        free     == {id \in MsgIds : pool[id] = Nil}
    IN  {id \in free : \A j \in free : dist(id) <= dist(j)}

\* timerAdvStart(f, ms, n, a): stop the identical timer, enter the callback,
\* start the timer; para is only set when that succeeded.
AdvStart(f, n, a, ok) ==
    \E K \in FirstMatch(f, a) :
        LET S    == SlotsOfIds(K)
            pool == Without(timerPool, K, Nil)
            ts   == Freed(timers, S)
        IN  \E id \in NextMsgId(pool) :
            /\ SharedIds \/ (Fresh(ts, bus, id) /\ id # cbTimer)
            /\ IF ok THEN StartOk(ts) ELSE StartFails(ts)
            /\ msgId' = id
            /\ timerPool' = [pool EXCEPT ![id] = f]
            /\ para' = [Without(para, K, NoArg) EXCEPT ![id] = IF ok /\ a # NoArg THEN a ELSE @]
            /\ timers' = IF ok THEN Started(ts, NextTimerSlot(ts), id, n) ELSE ts
            /\ bus' = Unlinked(bus, S)
            /\ dropped' = dropped \ S
            /\ UNCHANGED <<taskTimerId, taskTimerPool>>

\* sys.timerStart and sys.timerLoopStart
TimerStart(f, n, a) ==
    /\ Running
    /\ \E ok \in BOOLEAN : AdvStart(f, n, a, ok)
    /\ UNCHANGED <<queueVars, taskVars, stack, cbTimer>>

----------------------------------------------------------------------------
\* The running actor comes to its end.
Return ==
    /\ Running
    /\ stack' = Tail(stack)
    /\ status' = [t \in Tasks |-> IF t = Actor THEN "dead" ELSE status[t]]
    /\ IF Actor \in Tasks
       THEN UNCHANGED <<para, cbTimer>>
       ELSE para' = Without(para, {cbTimer}, NoArg) /\ cbTimer' = NoId
    /\ UNCHANGED <<rtosVars, taskTimerId, msgId, timerPool, taskTimerPool,
                   queueVars, topics, timerid>>

\* A Lua error in a task kills it, and the wrapper of coroutine.resume starts
\* a timer whose callback, assert, restarts the system.
TaskFails(t) ==
    /\ Running /\ Actor = t
    /\ status' = [status EXCEPT ![t] = "dead"]
    /\ stack' = Tail(stack)
    /\ \E a \in Args, ok \in BOOLEAN : AdvStart(AssertFn, 0, a, ok)
    /\ UNCHANGED <<queueVars, topics, timerid, cbTimer>>

\* An error in the main script or in a callback ends the Lua thread.
Crash ==
    /\ Running /\ Actor \notin Tasks
    /\ Reboot

----------------------------------------------------------------------------
\* coroutine.resume of task t with a message (woken = TRUE) or by its timer,
\* and what sys.wait and waitUntil do before they return: with a message the
\* timer is stopped and its entries cleared, and in both cases the task
\* unsubscribes.
BugWakesTimerOn(t, woken) ==        \* a message leaves the timer running
    /\ status' = [status EXCEPT ![t] = "run"]
    /\ topics' = [topics EXCEPT ![t] = {}]
    /\ timerid' = [timerid EXCEPT ![t] = NoId]
    /\ stack' = <<t>>
    /\ subscribers' = Unsubscribed(subscribers, t, topics[t])
    /\ IF woken /\ timerid[t] # NoId
       THEN UNCHANGED <<rtosVars, taskTimerPool, timerPool>>
       ELSE TRUE
Wakes(t, woken) ==
    /\ status' = [status EXCEPT ![t] = "run"]
    /\ topics' = [topics EXCEPT ![t] = {}]
    /\ timerid' = [timerid EXCEPT ![t] = NoId]
    /\ stack' = <<t>>
    /\ subscribers' = Unsubscribed(subscribers, t, topics[t])
    /\ IF woken /\ timerid[t] # NoId
       THEN /\ StopSlots(First(timers, timerid[t]))
            /\ taskTimerPool' = [taskTimerPool EXCEPT ![t] = NoId]
            /\ timerPool' = [timerPool EXCEPT ![timerid[t]] = Nil]
       ELSE TRUE

Drained == snapshot.left = {} /\ messageQueue = <<>>

\* dispatch: take the next message and list its subscribers ...
DispatchNext ==
    /\ Scheduler /\ snapshot.left = {} /\ messageQueue # <<>>
    /\ messageQueue' = Tail(messageQueue)
    /\ snapshot' = [topic |-> Head(messageQueue),
                    left |-> subscribers[Head(messageQueue)]]
    /\ UNCHANGED <<rtosVars, poolVars, subscribers, taskVars, stack, cbTimer>>

\* ... and call them one after the other, in the order pairs() had.
Calls(c) ==
    /\ Scheduler /\ c \in snapshot.left
    /\ snapshot' = [snapshot EXCEPT !.left = @ \ {c}]
    /\ UNCHANGED <<messageQueue, cbTimer>>

DispatchFn(f) ==
    /\ Calls(f)
    /\ stack' = <<f>>
    /\ UNCHANGED <<rtosVars, poolVars, subscribers, taskVars>>

DispatchTask(t) ==
    /\ Calls(t)
    /\ Wakes(t, TRUE)
    /\ timerid[t] = NoId => UNCHANGED <<rtosVars, timerPool, taskTimerPool>>
    /\ UNCHANGED <<taskTimerId, msgId, para>>

----------------------------------------------------------------------------
\* safeRun blocks in rtos.receive when dispatch has nothing left.  The
\* handler of a driver's message calls a callback.
ReceiveDriver(f) ==
    /\ Scheduler /\ Drained
    /\ ReceiveOther
    /\ stack' = <<f>>
    /\ UNCHANGED <<poolVars, queueVars, taskVars, cbTimer>>

\* no value from the handler, or an id timerPool does not know
ReceiveNothing ==
    /\ Scheduler /\ Drained
    /\ \/ ReceiveStale
       \/ \E s \in Slots : ReceiveTick(s) /\ timerPool[timers[s].id] = Nil
    /\ UNCHANGED sysVars

\* a tick of sys.wait; the task resumes if this is still the timer it waits on
ReceiveWait(s) ==
    /\ Scheduler /\ Drained
    /\ ReceiveTick(s)
    /\ LET id == timers[s].id
           t  == timerPool[id]
       IN  /\ id < TASK_TIMER_ID_MAX /\ t # Nil
           /\ timerPool' = [timerPool EXCEPT ![id] = Nil]
           /\ IF taskTimerPool[t] = id
              THEN /\ taskTimerPool' = [taskTimerPool EXCEPT ![t] = NoId]
                   /\ Wakes(t, FALSE)
              ELSE UNCHANGED <<taskTimerPool, taskVars, stack, subscribers>>
    /\ UNCHANGED <<taskTimerId, msgId, para, messageQueue, snapshot, cbTimer>>

\* a tick of sys.timerStart: a one-shot leaves timerPool before its callback
\* runs, and para after it
ReceiveTimer(s) ==
    /\ Scheduler /\ Drained
    /\ LET id == timers[s].id
           f  == timerPool[id]
       IN  /\ id > TASK_TIMER_ID_MAX /\ f \in Fns
           /\ ReceiveTick(s)
           /\ stack' = <<f>>
           /\ timerPool' = IF timers[s].repeat = 0
                           THEN [timerPool EXCEPT ![id] = Nil] ELSE timerPool
           /\ cbTimer' = IF timers[s].repeat = 0 /\ para[id] # NoArg
                         THEN id ELSE NoId
    /\ UNCHANGED <<taskTimerId, msgId, taskTimerPool, para, queueVars, taskVars>>

\* the timer of a failed task: assert(false) ends the Lua thread
ReceiveAssert(s) ==
    /\ Scheduler /\ Drained
    /\ bus # <<>> /\ Head(bus).kind = "tick"
    /\ s \in HandlerSlots(timers, Head(bus))
    /\ timerPool[timers[s].id] = AssertFn
    /\ Reboot

----------------------------------------------------------------------------
Script ==
    \/ \E m \in Topics : Publish(m)
    \/ \E m \in Topics, f \in Fns : Subscribe(m, f) \/ Unsubscribe(m, f)
    \/ \E t \in Tasks : TaskInit(t)
    \/ \E t \in Tasks, S \in SUBSET Topics : WaitTimed(t, S) \/ WaitForever(t, S)
    \/ \E t \in Tasks : WaitFails(t) \/ TaskFails(t)
    \/ \E k \in MsgIds : TimerStopId(k)
    \/ \E f \in Fns, a \in Args \cup {NoArg} : TimerStopFn(f, a)
    \/ \E f \in Fns : TimerStopAll(f)
    \/ \E f \in Fns, n \in Repeats, a \in Args \cup {NoArg} : TimerStart(f, n, a)
    \/ Return
    \/ Crash

Dispatch ==
    \/ DispatchNext
    \/ \E f \in Fns : DispatchFn(f)
    \/ \E t \in Tasks : DispatchTask(t)

Receive ==
    \/ ReceiveNothing
    \/ \E f \in Fns : ReceiveDriver(f)
    \/ \E s \in Slots : ReceiveWait(s) \/ ReceiveTimer(s) \/ ReceiveAssert(s)

Daemon == (Post \/ \E s \in Slots : Expire(s)) /\ UNCHANGED sysVars

Next == Script \/ Dispatch \/ Receive \/ Daemon

Spec == Init /\ [][Next]_vars

\* The Lua thread goes on as long as it has something to do, a callback or a
\* task does not run for ever without waiting, and the clock runs.
Fairness ==
    /\ WF_vars(Return) /\ WF_vars(Dispatch) /\ WF_vars(Receive)
    /\ \A s \in 1 .. SlotCount : WF_vars(Expire(s) /\ UNCHANGED sysVars)

FairSpec == Spec /\ Fairness

----------------------------------------------------------------------------
\* Type invariant.
SysTypeOK ==
    /\ RtosTypeOK
    /\ taskTimerId \in TaskIds
    /\ msgId \in TASK_TIMER_ID_MAX .. MSG_TIMER_ID_MAX
    /\ timerPool \in [TimerIds -> Tasks \cup Callbacks \cup {Nil}]
    /\ taskTimerPool \in [Tasks -> TaskIds \cup {NoId}]
    /\ para \in [TimerIds -> Args \cup {NoArg}]
    /\ subscribers \in [Topics -> SUBSET (Tasks \cup Fns)]
    /\ messageQueue \in Seq(Topics)
    /\ snapshot \in [topic : Topics \cup {Nil}, left : SUBSET (Tasks \cup Fns)]
    /\ stack \in Seq(Tasks \cup Fns \cup {Main})
    /\ cbTimer \in MsgIds \cup {NoId}
    /\ status \in [Tasks -> {"none", "run", "wait", "dead"}]
    /\ topics \in [Tasks -> SUBSET Topics]
    /\ timerid \in [Tasks -> TaskIds \cup {NoId}]

Waiting(t)   == status[t] = "wait"
WaitsOn(t, id) == Waiting(t) /\ timerid[t] = id

\* A task in a timed wait owns the timer it waits for: both pools lead from
\* one to the other, and the timer is still in the table.  So the tick finds
\* the task, or the message that comes first finds the timer to stop.
WaitOwnsTimer ==
    \A t \in Tasks : Waiting(t) /\ timerid[t] # NoId =>
        /\ timerPool[timerid[t]] = t
        /\ taskTimerPool[t] = timerid[t]
        /\ Live(timers, timerid[t])

\* A timer of sys.wait in the table belongs to exactly one waiting task: no
\* slot is left behind by a wait that a message ended.
WaitTimerHasWaiter ==
    \A s \in Slots : timers[s].id \in TaskIds =>
        \E t \in Tasks : /\ WaitsOn(t, timers[s].id)
                        /\ \A u \in Tasks \ {t} : ~ WaitsOn(u, timers[s].id)

\* A task is among the subscribers of a topic exactly while it waits for it,
\* whichever way the wait ended before.
SubscribedIffWaiting ==
    \A t \in Tasks, m \in Topics :
        t \in subscribers[m] <=> Waiting(t) /\ m \in topics[t]

\* dispatch works on a copy of the subscriber list while callbacks and tasks
\* run: it never resumes a coroutine that does not wait for this message.
SnapshotWaits ==
    \A t \in Tasks \cap snapshot.left : Waiting(t) /\ snapshot.topic \in topics[t]

\* The books that sys.wait, its resume and dispatch keep of the waits - two
\* pools, the subscribers, the copy dispatch walks - agree with each other and
\* with the timers, whichever of tick, message, error and failed start won.
WaitsBooked ==
    /\ SysTypeOK
    /\ WaitOwnsTimer
    /\ WaitTimerHasWaiter
    /\ SubscribedIffWaiting
    /\ SnapshotWaits

\* A leftover argument is never handed to a later timer: every entry of para
\* belongs to a registered callback or to the one that is running.
ParaOwned ==
    \A k \in MsgIds : para[k] # NoArg => timerPool[k] \in Callbacks \/ k = cbTimer

\* timerIsActive(id) answers with the entry of timerPool.  Its comment says
\* that this means the timer is on.
ActiveIsStarted ==
    \A k \in MsgIds : timerPool[k] # Nil => Live(timers, k)

\* Identical callback timers are stopped before a new one starts, so a
\* callback and its argument have one entry at most, and timerStop, which
\* stops the first match only, finds it.
UniqueCallbackTimer ==
    \A f \in Callbacks, a \in Args \cup {NoArg} :
        \A j, k \in TimersOf(f, a) : j = k

\* The books of callback timers - timerPool, para and the table of rtos timers -
\* agree, while callbacks start and stop timers, their own included.
TimersBooked ==
    /\ SysTypeOK
    /\ ParaOwned
    /\ ActiveIsStarted
    /\ UniqueCallbackTimer

\* A task only wakes for its own timer or for a message it waits for.
WakesForCause ==
    [][\A t \in Tasks : Waiting(t) /\ status'[t] = "run" =>
          \/ t \in snapshot.left /\ snapshot.topic \in topics[t]
          \/ /\ bus # <<>> /\ Head(bus).id = timerid[t]
             /\ \E s \in Slots : Head(bus).ptr = s /\ Expired(s)]_vars

\* After timerStop(f, a) no timer of the table will call f with a.
StopStops ==
    [][\A f \in Fns, a \in Args \cup {NoArg} : TimerStopFn(f, a) =>
          \A k \in MsgIds : Live(timers, k)' =>
              ~ (timerPool[k] = f /\ para[k] = a)]_vars

\* sys.lua keeps the promise of TaskScheduler: stale ticks, reused ids, copied
\* subscriber lists and callbacks that run in between are invisible to tasks.
Promise == INSTANCE TaskScheduler WITH
    Task  <- Tasks,
    Topic <- Topics,
    state <- status,
    for   <- topics,
    timed <- [t \in Tasks |-> timerid[t] # NoId],
    mail  <- messageQueue,
    due   <- snapshot.left \cap Tasks

KeepsPromise == Promise!SchedSpec

\* safeRun drains messageQueue before it looks at the bus, so callbacks that
\* publish again and again keep it there.
DrainsAgain == []<>(Scheduler /\ Drained)

\* A timed wait comes to an end if dispatch does, unless the tick met a full
\* bus.
TimedWaitEnds ==
    DrainsAgain => \A t \in Tasks :
        (Waiting(t) /\ timerid[t] # NoId)
            ~> (~ Waiting(t) \/ \E s \in dropped : timers[s].id = timerid[t])

\* A message that was published while a task waits for it ends the wait.
MessageWakes ==
    \A t \in Tasks, m \in Topics :
        (Waiting(t) /\ m \in topics[t] /\ \E i \in DOMAIN messageQueue : messageQueue[i] = m)
            ~> ~ Waiting(t)

\* A task that failed brings the system down: the timer of assert, once
\* started, leads to a restart.
FailureRestarts ==
    DrainsAgain => (\E k \in MsgIds : timerPool[k] = AssertFn /\ Live(timers, k))
        ~> (stack = <<Main>> \/ \E s \in dropped : timerPool[timers[s].id] = AssertFn)
=============================================================================

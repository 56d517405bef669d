------------------------------ MODULE SysPlus ------------------------------
(***************************************************************************)
(* sysplus.lua: tasks with a name, a message queue and a wait for one kind *)
(* of message, built on the promise of the task framework (TaskScheduler,  *)
(* which Sys implements).                                                  *)
(*                                                                         *)
(* A name and a task are two things: taskInitEx makes a new entry for its  *)
(* name whether it has one or not, and a task that waits under a name goes *)
(* on waiting when its entry is deleted or made again, so that two tasks   *)
(* may wait under one name.  The name is the topic that sendMsg publishes. *)
(* A callback cb runs inside waitMsg; what it sends is as good as sent by  *)
(* anybody right afterwards, so waitMsg up to its yield is one step.       *)
(* Messages are numbered in the order they are sent; fate and latest are   *)
(* history.                                                                *)
(*                                                                         *)
(* Operators named Bug... are plausible defects of the definition after    *)
(* them; no other definition uses them.                                    *)
(***************************************************************************)
EXTENDS TaskScheduler, Integers

CONSTANTS
    Name,       \* names of tasks
    Kinds,      \* first parameter of a message: what a target is compared to
    AnyKind,        \* target nil
    MaxSent,    \* bound: messages sent
    TimerFails  \* may sys.timerStart fail

ASSUME TopicAssumption == Topic = Name
ASSUME KindAssumption  == AnyKind \notin Kinds
ASSUME BoundAssumption == MaxSent \in Nat /\ TimerFails \in BOOLEAN

VARIABLES
    taskList,   \* name -> {} or {the task its entry was made for}
    msgQueue,   \* name -> its queue of messages
    To,         \* name -> the time of its wait is over
    waitTimer,  \* names whose waitTo timer is running
    target,     \* task -> what its waitMsg waits for
    fate,       \* number -> what became of that message
    latest      \* name -> {} or {the task that began the latest wait under it}

plusVars == <<taskList, msgQueue, To, waitTimer, target, fate, latest>>
vars     == <<schedVars, plusVars>>

Numbers == 1 .. MaxSent
Fates   == {"unsent", "queued", "returned", "passed", "cleaned", "lost"}

Waiting(t, n) == state[t] = "wait" /\ for[t] = {n}      \* in waitMsg, under n
Running       == \E t \in Task : state[t] = "run"
HasEntry(n)   == taskList[n] # {}
Elements(q)   == {q[i] : i \in DOMAIN q}

Init ==
    /\ SchedInit
    /\ taskList = [n \in Name |-> {}]
    /\ msgQueue = [n \in Name |-> <<>>]
    /\ To = [n \in Name |-> FALSE]
    /\ waitTimer = {}
    /\ target = [t \in Task |-> AnyKind]
    /\ fate = [i \in Numbers |-> "unsent"]
    /\ latest = [n \in Name |-> {}]

\* a Lua error in a callback, or the end of a failed task, restarts the system
Reset ==
    /\ Restart
    /\ waitTimer' = {}
    /\ taskList' = [n \in Name |-> {}]
    /\ msgQueue' = [n \in Name |-> <<>>]
    /\ To' = [n \in Name |-> FALSE]
    /\ target' = [t \in Task |-> AnyKind]
    /\ fate' = [i \in Numbers |-> "unsent"]
    /\ latest' = [n \in Name |-> {}]

----------------------------------------------------------------------------
\* the messages of n are gone, with its queue or with its entry
Cleans(n) ==
    /\ msgQueue' = [msgQueue EXCEPT ![n] = <<>>]
    /\ fate' = [i \in Numbers |->
                  IF \E m \in Elements(msgQueue[n]) : m.no = i
                  THEN "cleaned" ELSE fate[i]]

\* a new entry and a new task t; who waits under n, and its timer, stay
TaskInitEx(t, n) ==
    /\ Create(t)
    /\ taskList' = [taskList EXCEPT ![n] = {t}]
    /\ Cleans(n)
    /\ To' = [To EXCEPT ![n] = FALSE]
    /\ UNCHANGED <<waitTimer, target, latest>>

\* taskDel only removes the entry; a coroutine that waits goes on waiting
TaskDel(n) ==
    /\ HasEntry(n)
    /\ taskList' = [taskList EXCEPT ![n] = {}]
    /\ Cleans(n)
    /\ To' = [To EXCEPT ![n] = FALSE]
    /\ UNCHANGED <<schedVars, waitTimer, target, latest>>

SendMsg(n, k) ==
    /\ HasEntry(n)
    /\ \E i \in Numbers :
        /\ fate[i] = "unsent" /\ \A j \in Numbers : j < i => fate[j] # "unsent"
        /\ msgQueue' = [msgQueue EXCEPT ![n] = Append(@, [no |-> i, kind |-> k])]
        /\ fate' = [fate EXCEPT ![i] = "queued"]
    /\ Send(n)
    /\ UNCHANGED <<taskList, To, waitTimer, target, latest>>

CleanMsg(n) ==
    /\ HasEntry(n)
    /\ Cleans(n)
    /\ UNCHANGED <<schedVars, taskList, To, waitTimer, target, latest>>

----------------------------------------------------------------------------
BugTakes(n, where) ==   \* reads the head without removing it
    /\ fate' = [fate EXCEPT ![Head(msgQueue[n]).no] = where]
    /\ UNCHANGED msgQueue
\* table.remove(msgQueue, 1), and where the message goes
Takes(n, where) ==
    /\ msgQueue' = [msgQueue EXCEPT ![n] = Tail(@)]
    /\ fate' = [fate EXCEPT ![Head(msgQueue[n]).no] = where]

Empty(n)       == msgQueue[n] = <<>>
IsTarget(n, g) == g = AnyKind \/ Head(msgQueue[n]).kind = g

\* waitMsg finds its target at the head of the queue and does not wait
WaitMsgAtOnce(t, n, g) ==
    /\ state[t] = "run" /\ HasEntry(n)
    /\ ~ Empty(n) /\ IsTarget(n, g)
    /\ Takes(n, "returned")
    /\ UNCHANGED <<schedVars, taskList, To, waitTimer, target, latest>>

BugWaitMsg(t, n, g, ms) ==      \* a message already in the queue is not seen
    /\ state[t] = "run" /\ HasEntry(n)
    /\ Wait(t, {n}, FALSE)
    /\ \/ ms /\ waitTimer' = waitTimer \cup {n}
       \/ (ms => TimerFails) /\ waitTimer' = waitTimer \ {n}
    /\ To' = [To EXCEPT ![n] = FALSE]
    /\ target' = [target EXCEPT ![t] = g]
    /\ latest' = [latest EXCEPT ![n] = {t}]
    /\ UNCHANGED <<taskList, msgQueue, fate>>
\* waitMsg passes at most one other message to cb, if there is one, then
\* waits.  A running waitTo timer of the name, whoever started it, is stopped;
\* a new one is started if ms is given.
WaitMsg(t, n, g, ms) ==
    /\ state[t] = "run" /\ HasEntry(n)
    /\ IF Empty(n) THEN UNCHANGED <<msgQueue, fate>>
                   ELSE ~ IsTarget(n, g) /\ Takes(n, "passed")
    /\ Wait(t, {n}, FALSE)
    /\ \/ ms /\ waitTimer' = waitTimer \cup {n}
       \/ (ms => TimerFails) /\ waitTimer' = waitTimer \ {n}
    /\ To' = [To EXCEPT ![n] = FALSE]
    /\ target' = [target EXCEPT ![t] = g]
    /\ latest' = [latest EXCEPT ![n] = {t}]
    /\ UNCHANGED taskList

\* the task may wait for other things, during which messages pile up
Sleep(t) == Wait(t, {}, TRUE) /\ UNCHANGED plusVars
Awake(t) == ~ Running /\ Timeout(t) /\ UNCHANGED plusVars

----------------------------------------------------------------------------
\* dispatch reaches task t, which waits under n
Reaches(t, n) ==
    /\ ~ Running /\ t \in due /\ Waiting(t, n)
    /\ due' = due \ {t}
    /\ UNCHANGED <<mail, latest>>

BugFinish(t, n) ==              \* forgets to stop the timer
    /\ Resume(t)
    /\ To' = [To EXCEPT ![n] = FALSE]
    /\ UNCHANGED <<taskList, target, waitTimer>>
\* the end of waitMsg: the timer of the name stops, whoever started it, To is
\* cleared, the task unsubscribes
Finish(t, n) ==
    /\ Resume(t)
    /\ To' = [To EXCEPT ![n] = FALSE]
    /\ waitTimer' = waitTimer \ {n}
    /\ UNCHANGED <<taskList, target>>

\* the loop of waitMsg, by what it finds: its target, which it returns unless
\* the time is over; another message; nothing, at the end of the time; nothing
WokenByTarget(t, n) ==
    /\ Reaches(t, n) /\ HasEntry(n)
    /\ ~ Empty(n) /\ IsTarget(n, target[t])
    /\ Takes(n, IF To[n] THEN "lost" ELSE "returned")
    /\ Finish(t, n)

WokenByOther(t, n) ==
    /\ Reaches(t, n) /\ HasEntry(n)
    /\ ~ Empty(n) /\ ~ IsTarget(n, target[t])
    /\ Takes(n, "passed")
    /\ UNCHANGED <<state, for, timed, taskList, To, waitTimer, target>>

WokenByTimeout(t, n) ==
    /\ Reaches(t, n) /\ HasEntry(n)
    /\ Empty(n) /\ To[n]
    /\ Finish(t, n)
    /\ UNCHANGED <<msgQueue, fate>>

WokenForNothing(t, n) ==
    /\ Reaches(t, n) /\ HasEntry(n)
    /\ Empty(n) /\ ~ To[n]
    /\ UNCHANGED <<state, for, timed, plusVars>>

\* taskList[taskName] is nil: the task dies of an index error while it is
\* still subscribed, and the assert timer of sys.lua will end the system
WokenDeleted(t, n) ==
    /\ Reaches(t, n) /\ ~ HasEntry(n)
    /\ state' = [state EXCEPT ![t] = "dead"]
    /\ UNCHANGED <<for, timed, plusVars>>

Woken(t, n) ==
    \/ WokenByTarget(t, n) \/ WokenByOther(t, n) \/ WokenByTimeout(t, n)
    \/ WokenForNothing(t, n) \/ WokenDeleted(t, n)

Failed == \E t \in Task : state[t] = "dead" /\ for[t] # {}

BugWaitTo(n) ==                 \* sets To but does not publish
    /\ ~ Running /\ mail = <<>> /\ due = {}
    /\ n \in waitTimer /\ HasEntry(n)
    /\ To' = [To EXCEPT ![n] = TRUE]
    /\ waitTimer' = waitTimer \ {n}
    /\ UNCHANGED <<schedVars, taskList, msgQueue, target, fate, latest>>
\* The tick of the waitTo timer, received when all messages are delivered; the
\* callback fails if the entry is gone.
WaitTo(n) ==
    /\ ~ Running /\ mail = <<>> /\ due = {}
    /\ n \in waitTimer /\ HasEntry(n)
    /\ To' = [To EXCEPT ![n] = TRUE]
    /\ waitTimer' = waitTimer \ {n}
    /\ Mail(n)
    /\ UNCHANGED <<state, for, timed, due, taskList, msgQueue, target, fate, latest>>

WaitToFails(n) ==
    /\ ~ Running /\ mail = <<>> /\ due = {}
    /\ n \in waitTimer /\ ~ HasEntry(n)
    /\ Reset

Scheduler ==
    \/ ~ Running /\ Deliver /\ UNCHANGED plusVars
    \/ \E t \in Task, n \in Name : Woken(t, n)

Next ==
    \/ \E t \in Task :
        \/ End(t) /\ UNCHANGED plusVars
        \/ Sleep(t) \/ Awake(t)
    \/ \E n \in Name :
        \/ TaskDel(n) \/ CleanMsg(n) \/ WaitTo(n) \/ WaitToFails(n)
        \/ \E k \in Kinds : SendMsg(n, k)
    \/ \E t \in Task, n \in Name :
        \/ TaskInitEx(t, n)
        \/ \E g \in Kinds \cup {AnyKind} :
            WaitMsgAtOnce(t, n, g) \/ \E ms \in BOOLEAN : WaitMsg(t, n, g, ms)
    \/ Scheduler
    \/ Failed /\ Reset

Spec == Init /\ [][Next]_vars

\* Nobody runs for ever, messages are delivered, timers expire.  The bus is
\* a queue, so a tick is received if the loop comes to the bus again and again.
FairSpec ==
    /\ Spec
    /\ WF_vars(Scheduler)
    /\ \A t \in Task : WF_vars(End(t) /\ UNCHANGED plusVars)
    /\ \A n \in Name : SF_vars(WaitTo(n) \/ WaitToFails(n))

----------------------------------------------------------------------------
\* Type invariant.
PlusTypeOK ==
    /\ state \in [Task -> {"none", "run", "wait", "dead"}]
    /\ mail \in Seq(Name) /\ due \subseteq Task
    /\ taskList \in [Name -> SUBSET Task] /\ waitTimer \subseteq Name
    /\ msgQueue \in [Name -> Seq([no : Numbers, kind : Kinds])]
    /\ To \in [Name -> BOOLEAN]
    /\ target \in [Task -> Kinds \cup {AnyKind}]
    /\ fate \in [Numbers -> Fates]
    /\ latest \in [Name -> SUBSET Task]

\* No message is duplicated, overtaken or forgotten in a queue: the messages
\* whose fate is open are those in the queues, each once and in the order
\* they were sent.
QueuesAreExact ==
    /\ PlusTypeOK
    /\ \A i \in Numbers :
        fate[i] = "queued" <=> \E n \in Name : \E m \in Elements(msgQueue[n]) : m.no = i
    /\ \A n \in Name : \A i, j \in DOMAIN msgQueue[n] :
        i < j => msgQueue[n][i].no < msgQueue[n][j].no
    /\ \A n, o \in Name : \A m \in Elements(msgQueue[n]), p \in Elements(msgQueue[o]) :
        m.no = p.no => n = o

WillWake(t, n) == t \in due \/ \E i \in DOMAIN mail : mail[i] = n

\* A task that waits for any message never sleeps on one, even where another
\* task waits under the same name: while the queue is not empty, a delivery to
\* it is on the way.
AnyMessageWakes ==
    \A t \in Task, n \in Name :
        Waiting(t, n) /\ target[t] = AnyKind /\ ~ Empty(n) => WillWake(t, n)

\* A timeout never reaches a wait begun after the one it was started for, not
\* even when the name was deleted and created again or given to two tasks: To
\* is set and the timer runs only while the task that began the latest wait
\* under the name is still in that wait, or has died in it.
TimeoutIsOfThisWait ==
    \A n \in Name : To[n] \/ n \in waitTimer => \E t \in latest[n] : for[t] = {n}

DrainsAgain == []<>(mail = <<>> /\ due = {})

\* The name is still that of t, and no other task waits under it.
Alone(t, n) == taskList[n] = {t} /\ \A u \in Task \ {t} : ~ Waiting(u, n)

\* A wait for any message with a timer comes to an end, with a message or
\* without, unless the name is deleted or created again, or another task waits
\* under it, meanwhile: the end of that one's wait stops the timer they share.
WaitAnyEnds ==
    DrainsAgain => \A t \in Task, n \in Name :
        (Waiting(t, n) /\ target[t] = AnyKind /\ n \in waitTimer)
            ~> ~ (Waiting(t, n) /\ Alone(t, n))

\* The comment of waitMsg: ms is the timeout, after which it returns.  So any
\* wait with a timer comes to an end, in a task that has its name for itself.
WaitMsgEnds ==
    DrainsAgain => \A t \in Task, n \in Name :
        (Waiting(t, n) /\ n \in waitTimer) ~> ~ (Waiting(t, n) /\ Alone(t, n))
=============================================================================

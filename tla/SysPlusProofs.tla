--------------------------- MODULE SysPlusProofs ---------------------------
(***************************************************************************)
(* Proofs about SysPlus, for any tasks, names, kinds of messages and       *)
(* number of messages.                                                     *)
(*                                                                         *)
(* PlusInv is inductive.  It adds to the three invariants of the runs what *)
(* ties them to each other: messages are numbered in the order they are    *)
(* sent, a name without an entry has no messages, and a task subscribes    *)
(* only in waitMsg.                                                        *)
(***************************************************************************)
EXTENDS SysPlus, TLAPS

SchedTypeOK ==
    /\ for \in [Task -> SUBSET Name]
    /\ timed \in [Task -> BOOLEAN]

Queued(i) == \E n \in Name : \E j \in DOMAIN msgQueue[n] : msgQueue[n][j].no = i

QueuedAreOpen == \A i \in Numbers : fate[i] = "queued" <=> Queued(i)

InOrder == \A n \in Name : \A i, j \in DOMAIN msgQueue[n] :
    i < j => msgQueue[n][i].no < msgQueue[n][j].no

Disjoint == \A n, o \in Name :
    \A i \in DOMAIN msgQueue[n], j \in DOMAIN msgQueue[o] :
        msgQueue[n][i].no = msgQueue[o][j].no => n = o

\* Numbers are given out from below.
SentInTurn == \A i, j \in Numbers : i < j /\ fate[i] = "unsent" => fate[j] = "unsent"

Outsiders == \A n \in Name : ~ HasEntry(n) => msgQueue[n] = <<>>

\* A task is subscribed only while it waits in waitMsg, or died in it.
Subscribed == \A t \in Task :
    state[t] \in {"none", "run"} \/ timed[t] => for[t] = {}

Books == QueuedAreOpen /\ InOrder /\ Disjoint /\ SentInTurn

PlusInv == /\ PlusTypeOK /\ SchedTypeOK /\ Books
           /\ Outsiders /\ Subscribed
           /\ AnyMessageWakes /\ TimeoutIsOfThisWait

----------------------------------------------------------------------------
\* The books of the queues, one lemma per operation on a queue.

Message == [no : Numbers, kind : Kinds]

\* The queue loses its head, and the message gets another fate.
LEMMA TakesBooks ==
    ASSUME PlusTypeOK, Books, NEW n \in Name, ~ Empty(n),
           NEW where \in Fates \ {"queued", "unsent"}, Takes(n, where)
    PROVE  /\ Books'
           /\ msgQueue' \in [Name -> Seq(Message)] /\ fate' \in [Numbers -> Fates]
           /\ \A o \in Name \ {n} : msgQueue'[o] = msgQueue[o]
           /\ msgQueue'[n] = Tail(msgQueue[n])
<1> DEFINE q == msgQueue[n]
           h == Head(q).no
<1>1. /\ q \in Seq(Message) /\ q # <<>> /\ Head(q) \in Message /\ h \in Numbers
      /\ 1 \in DOMAIN q /\ h = q[1].no
  <2>1. q \in Seq(Message) /\ q # <<>>
    BY DEF PlusTypeOK, Empty, Message
  <2>2. Head(q) \in Message /\ 1 \in DOMAIN q /\ Head(q) = q[1]
    BY <2>1
  <2> QED BY <2>1, <2>2 DEF Message
<1>2. /\ Tail(q) \in Seq(Message)
      /\ \A i \in DOMAIN Tail(q) : /\ i + 1 \in DOMAIN q /\ Tail(q)[i] = q[i + 1]
                                   /\ i \in Int
      /\ \A i \in DOMAIN q : i # 1 => /\ i - 1 \in DOMAIN Tail(q)
                                      /\ Tail(q)[i - 1] = q[i] /\ i > 1
  BY <1>1
<1>3. /\ msgQueue' = [msgQueue EXCEPT ![n] = Tail(q)]
      /\ fate' = [fate EXCEPT ![h] = where]
      /\ msgQueue \in [Name -> Seq(Message)] /\ fate \in [Numbers -> Fates]
  BY DEF Takes, PlusTypeOK, Message
<1> HIDE DEF h
<1>4. /\ msgQueue' \in [Name -> Seq(Message)] /\ fate' \in [Numbers -> Fates]
      /\ \A o \in Name \ {n} : msgQueue'[o] = msgQueue[o]
      /\ msgQueue'[n] = Tail(q)
      /\ \A i \in Numbers : fate'[i] = IF i = h THEN where ELSE fate[i]
  BY <1>1, <1>2, <1>3
<1>5. fate[h] = "queued"
  BY <1>1 DEF Books, QueuedAreOpen, Queued
<1>6. \A o \in Name : \A j \in DOMAIN msgQueue[o] : msgQueue[o][j].no = h => o = n /\ j = 1
  <2> SUFFICES ASSUME NEW o \in Name, NEW j \in DOMAIN msgQueue[o],
                      msgQueue[o][j].no = h
               PROVE  o = n /\ j = 1
    OBVIOUS
  <2>1. o = n
    BY <1>1 DEF Books, Disjoint
  <2>2. j = 1
    <3> SUFFICES ASSUME j # 1 PROVE FALSE
      OBVIOUS
    <3>1. 1 < j /\ j \in DOMAIN q
      BY <1>2, <2>1
    <3>2. q[1].no < q[j].no
      BY <1>1, <3>1 DEF Books, InOrder
    <3> QED BY <1>1, <2>1, <3>2 DEF Numbers
  <2> QED BY <2>1, <2>2
<1> HIDE DEF q
<1>7. QueuedAreOpen'
  <2>1. \A i \in Numbers : Queued(i)' => Queued(i) /\ i # h
    <3> SUFFICES ASSUME NEW o \in Name, NEW j \in DOMAIN msgQueue'[o],
                        msgQueue'[o][j].no \in Numbers
                 PROVE  /\ Queued(msgQueue'[o][j].no)
                        /\ msgQueue'[o][j].no # h
      BY DEF Queued
    <3>1. CASE o = n
      <4>1. /\ j + 1 \in DOMAIN msgQueue[n] /\ j + 1 # 1
            /\ msgQueue'[o][j] = msgQueue[n][j + 1]
        <5>1. msgQueue'[o] = Tail(q) /\ j \in DOMAIN Tail(q)
          BY <1>4, <3>1
        <5>2. j \in 1 .. Len(Tail(q)) /\ Len(Tail(q)) \in Nat
          BY <1>2, <5>1
        <5> QED BY <1>2, <5>1, <5>2 DEF q
      <4> QED BY <1>6, <4>1 DEF Queued
    <3>2. CASE o # n
      BY <1>4, <1>6, <3>2 DEF Queued
    <3> QED BY <3>1, <3>2
  <2>2. \A i \in Numbers : Queued(i) /\ i # h => Queued(i)'
    <3> SUFFICES ASSUME NEW i \in Numbers, i # h, NEW o \in Name,
                        NEW j \in DOMAIN msgQueue[o], msgQueue[o][j].no = i
                 PROVE  Queued(i)'
      BY DEF Queued
    <3>1. CASE o = n
      <4>1. j # 1
        BY <1>1, <3>1 DEF q
      <4>2. j - 1 \in DOMAIN msgQueue'[n] /\ msgQueue'[n][j - 1] = msgQueue[n][j]
        BY <1>2, <1>4, <3>1, <4>1 DEF q
      <4> QED BY <3>1, <4>2 DEF Queued
    <3>2. CASE o # n
      BY <1>4, <3>2 DEF Queued
    <3> QED BY <3>1, <3>2
  <2> QED BY <1>4, <2>1, <2>2 DEF QueuedAreOpen, Books
<1>8. InOrder'
  <2> SUFFICES ASSUME NEW i \in DOMAIN msgQueue'[n], NEW j \in DOMAIN msgQueue'[n], i < j
               PROVE  msgQueue'[n][i].no < msgQueue'[n][j].no
    BY <1>4 DEF InOrder, Books
  <2>1. i \in DOMAIN Tail(q) /\ j \in DOMAIN Tail(q)
    BY <1>4
  <2>2. i + 1 < j + 1
    BY <1>2, <2>1
  <2> QED BY <1>2, <1>4, <2>1, <2>2 DEF InOrder, Books, q
<1>9. Disjoint'
  <2>1. \A o \in Name : \A i \in DOMAIN msgQueue'[o] :
            \E j \in DOMAIN msgQueue[o] : msgQueue'[o][i] = msgQueue[o][j]
    <3>1. \A i \in DOMAIN msgQueue'[n] :
            \E j \in DOMAIN msgQueue[n] : msgQueue'[n][i] = msgQueue[n][j]
      BY <1>2, <1>4 DEF q
    <3> QED BY <1>4, <3>1, ZenonT(60)
  <2> QED BY <2>1 DEF Disjoint, Books
<1>10. SentInTurn'
  <2>1. \A i \in Numbers : fate'[i] = "unsent" <=> fate[i] = "unsent"
    BY <1>4, <1>5
  <2> QED BY <2>1 DEF SentInTurn, Books
<1> QED BY <1>4, <1>7, <1>8, <1>9, <1>10 DEF Books, q

\* A queue is emptied, and its messages are "cleaned".
LEMMA CleanBooks ==
    ASSUME PlusTypeOK, Books, NEW n \in Name, Cleans(n)
    PROVE  /\ Books'
           /\ msgQueue' \in [Name -> Seq(Message)] /\ fate' \in [Numbers -> Fates]
           /\ \A o \in Name \ {n} : msgQueue'[o] = msgQueue[o]
           /\ msgQueue'[n] = <<>>
<1>1. msgQueue \in [Name -> Seq(Message)] /\ fate \in [Numbers -> Fates]
  BY DEF PlusTypeOK, Message
<1>2. /\ msgQueue' \in [Name -> Seq(Message)]
      /\ \A o \in Name \ {n} : msgQueue'[o] = msgQueue[o]
      /\ msgQueue'[n] = <<>>
  BY <1>1 DEF Cleans
<1>3. /\ fate' \in [Numbers -> Fates]
      /\ \A i \in Numbers :
            fate'[i] = IF \E j \in DOMAIN msgQueue[n] : msgQueue[n][j].no = i
                       THEN "cleaned" ELSE fate[i]
  BY <1>1 DEF Cleans, Elements, Fates
<1>4. QueuedAreOpen'
  <2>1. \A i \in Numbers : Queued(i)' <=>
            \E o \in Name \ {n} : \E j \in DOMAIN msgQueue[o] : msgQueue[o][j].no = i
    BY <1>2 DEF Queued
  <2>2. \A i \in Numbers, o \in Name \ {n} :
            (\E j \in DOMAIN msgQueue[o] : msgQueue[o][j].no = i)
                => ~ \E j \in DOMAIN msgQueue[n] : msgQueue[n][j].no = i
    BY DEF Books, Disjoint
  <2> QED BY <1>3, <2>1, <2>2 DEF QueuedAreOpen, Books, Queued
<1>5. InOrder' /\ Disjoint'
  <2>1. InOrder'
    BY <1>2 DEF InOrder, Books
  <2>2. Disjoint'
    <3>1. \A o \in Name : \A i \in DOMAIN msgQueue'[o] :
             i \in DOMAIN msgQueue[o] /\ msgQueue'[o][i] = msgQueue[o][i]
      BY <1>2
    <3> QED BY <3>1 DEF Disjoint, Books
  <2> QED BY <2>1, <2>2
<1>6. SentInTurn'
  <2>1. \A i \in Numbers : fate'[i] = "unsent" <=> fate[i] = "unsent"
    BY <1>3 DEF Books, QueuedAreOpen, Queued
  <2> QED BY <2>1 DEF SentInTurn, Books
<1> QED BY <1>2, <1>3, <1>4, <1>5, <1>6 DEF Books

\* The next number goes to the end of a queue.
LEMMA SendBooks ==
    ASSUME PlusTypeOK, Books, NEW n \in Name, NEW k \in Kinds, NEW i \in Numbers,
           fate[i] = "unsent", \A j \in Numbers : j < i => fate[j] # "unsent",
           msgQueue' = [msgQueue EXCEPT ![n] = Append(@, [no |-> i, kind |-> k])],
           fate' = [fate EXCEPT ![i] = "queued"]
    PROVE  /\ Books'
           /\ msgQueue' \in [Name -> Seq(Message)] /\ fate' \in [Numbers -> Fates]
           /\ \A o \in Name \ {n} : msgQueue'[o] = msgQueue[o]
<1> DEFINE q == msgQueue[n]
           m == [no |-> i, kind |-> k]
<1>1. msgQueue \in [Name -> Seq(Message)] /\ fate \in [Numbers -> Fates] /\ m \in Message
  BY DEF PlusTypeOK, Message
<1>2. /\ Append(q, m) \in Seq(Message)
      /\ \A j \in DOMAIN Append(q, m) :
            \/ j \in DOMAIN q /\ Append(q, m)[j] = q[j]
            \/ j = Len(q) + 1 /\ Append(q, m)[j] = m
      /\ \A j \in DOMAIN q : /\ j \in DOMAIN Append(q, m) /\ Append(q, m)[j] = q[j]
                             /\ j < Len(q) + 1
      /\ Len(q) + 1 \in DOMAIN Append(q, m) /\ Append(q, m)[Len(q) + 1] = m
      /\ Len(q) \in Nat
  BY <1>1
<1>3. m.no = i
  OBVIOUS
<1> HIDE DEF m
<1>4. /\ msgQueue' \in [Name -> Seq(Message)] /\ fate' \in [Numbers -> Fates]
      /\ \A o \in Name \ {n} : msgQueue'[o] = msgQueue[o]
      /\ msgQueue'[n] = Append(q, m)
      /\ \A j \in Numbers : fate'[j] = IF j = i THEN "queued" ELSE fate[j]
  BY <1>1, <1>2 DEF m, Fates
<1>5. \A o \in Name : \A j \in DOMAIN msgQueue[o] :
         msgQueue[o][j].no \in Numbers /\ msgQueue[o][j].no < i
  <2> SUFFICES ASSUME NEW o \in Name, NEW j \in DOMAIN msgQueue[o]
               PROVE  msgQueue[o][j].no \in Numbers /\ msgQueue[o][j].no < i
    OBVIOUS
  <2>1. msgQueue[o][j] \in Message /\ msgQueue[o][j].no \in Numbers
    <3>1. msgQueue[o] \in Seq(Message)
      BY <1>1
    <3>2. msgQueue[o][j] \in Message
      BY <3>1
    <3> QED BY <3>2 DEF Message
  <2>2. fate[msgQueue[o][j].no] = "queued"
    BY <2>1 DEF Books, QueuedAreOpen, Queued
  <2> QED BY <2>1, <2>2 DEF Books, SentInTurn, Numbers
<1>6. \A o \in Name : \A j \in DOMAIN msgQueue'[o] :
         \/ j \in DOMAIN msgQueue[o] /\ msgQueue'[o][j] = msgQueue[o][j]
         \/ o = n /\ j = Len(q) + 1 /\ msgQueue'[o][j] = m
  BY <1>2, <1>4
<1>7. QueuedAreOpen'
  <2>1. \A j \in Numbers : Queued(j) => Queued(j)'
    BY <1>2, <1>4 DEF Queued
  <2>2. Queued(i)'
    BY <1>2, <1>3, <1>4 DEF Queued
  <2>3. \A j \in Numbers : Queued(j)' => j = i \/ Queued(j)
    BY <1>3, <1>6 DEF Queued
  <2> QED BY <1>4, <2>1, <2>2, <2>3 DEF QueuedAreOpen, Books
<1>8. InOrder'
  <2> SUFFICES ASSUME NEW o \in Name, NEW j \in DOMAIN msgQueue'[o],
                      NEW l \in DOMAIN msgQueue'[o], j < l
               PROVE  msgQueue'[o][j].no < msgQueue'[o][l].no
    BY DEF InOrder
  <2>1. CASE l \in DOMAIN msgQueue[o] /\ msgQueue'[o][l] = msgQueue[o][l]
    <3>1. j \in DOMAIN msgQueue[o] /\ msgQueue'[o][j] = msgQueue[o][j]
      BY <1>2, <1>6, <2>1
    <3> QED BY <2>1, <3>1 DEF Books, InOrder
  <2>2. CASE o = n /\ l = Len(q) + 1 /\ msgQueue'[o][l] = m
    <3>1. j \in DOMAIN msgQueue[o] /\ msgQueue'[o][j] = msgQueue[o][j]
      BY <1>2, <1>6, <2>2
    <3> QED BY <1>3, <1>5, <2>2, <3>1
  <2> QED BY <1>6, <2>1, <2>2
<1>9. Disjoint'
  <2> SUFFICES ASSUME NEW o \in Name, NEW p \in Name, NEW j \in DOMAIN msgQueue'[o],
                      NEW l \in DOMAIN msgQueue'[p],
                      msgQueue'[o][j].no = msgQueue'[p][l].no
               PROVE  o = p
    BY DEF Disjoint
  <2>1. i \in Int
    BY DEF Numbers
  <2>2. \A r \in Name : \A x \in DOMAIN msgQueue'[r] :
            \/ x \in DOMAIN msgQueue[r] /\ msgQueue'[r][x] = msgQueue[r][x]
            \/ r = n /\ msgQueue'[r][x].no = i
    BY <1>3, <1>6
  <2>3. \A r \in Name : \A x \in DOMAIN msgQueue[r] : msgQueue[r][x].no # i
    BY <1>5, <2>1
  <2> QED BY <2>2, <2>3 DEF Books, Disjoint
<1>10. SentInTurn'
  <2>1. \A j, l \in Numbers : j < l /\ fate'[j] = "unsent" => fate'[l] = "unsent"
    BY <1>4 DEF Books, SentInTurn, Numbers
  <2> QED BY <2>1 DEF SentInTurn
<1> QED BY <1>4, <1>7, <1>8, <1>9, <1>10 DEF Books

----------------------------------------------------------------------------
\* The steps of the invariant, one lemma per group of actions.

LEMMA PlusInvInit == Init => PlusInv
<1> SUFFICES ASSUME Init PROVE PlusInv
  OBVIOUS
<1>1. PlusTypeOK /\ SchedTypeOK
  BY KindAssumption DEF Init, SchedInit, PlusTypeOK, SchedTypeOK, Fates
<1>2. /\ \A n \in Name : msgQueue[n] = <<>> /\ ~ To[n] /\ n \notin waitTimer
      /\ \A t \in Task : state[t] = "none" /\ for[t] = {}
  BY DEF Init, SchedInit
<1>3. Books
  BY <1>2 DEF Init, Books, QueuedAreOpen, Queued, InOrder, Disjoint, SentInTurn
<1>4. Outsiders /\ Subscribed
  BY <1>2 DEF Outsiders, Subscribed
<1>5. AnyMessageWakes /\ TimeoutIsOfThisWait
  BY <1>2 DEF AnyMessageWakes, TimeoutIsOfThisWait, Empty
<1> QED BY <1>1, <1>3, <1>4, <1>5 DEF PlusInv

LEMMA ResetInv == Reset => PlusInv'
<1>1. Reset => Init'
  BY DEF Reset, Restart, Init, SchedInit
<1>2. Init' => PlusInv'
  BY PlusInvInit, PTL
<1> QED BY <1>1, <1>2

\* A sent message is on its way to every task that waits under its name.
LEMMA Mailed ==
    ASSUME PlusTypeOK, NEW n \in Name, mail' = Append(mail, n), due' = due
    PROVE  /\ mail' \in Seq(Name)
           /\ \A t \in Task : WillWake(t, n)'
           /\ \A t \in Task, o \in Name : WillWake(t, o) => WillWake(t, o)'
<1>1. mail \in Seq(Name)
  BY DEF PlusTypeOK
<1>2. /\ mail' \in Seq(Name)
      /\ Len(mail) + 1 \in DOMAIN mail' /\ mail'[Len(mail) + 1] = n
      /\ \A i \in DOMAIN mail : i \in DOMAIN mail' /\ mail'[i] = mail[i]
  BY <1>1
<1> QED BY <1>2 DEF WillWake

LEMMA BooksStay == ASSUME Books, UNCHANGED <<msgQueue, fate>> PROVE Books'
  BY DEF Books, QueuedAreOpen, Queued, InOrder, Disjoint, SentInTurn

\* A task waits under one name at a time.
LEMMA OneName ==
    ASSUME NEW t \in Task, NEW n \in Name, NEW o \in Name, Waiting(t, n), Waiting(t, o)
    PROVE  n = o
<1>1. {n} = {o}
  BY DEF Waiting
<1> QED BY <1>1, Zenon

\* The timers and To's that are left belong to waits that nothing ended.
LEMMA TimelyStay ==
    ASSUME TimeoutIsOfThisWait, UNCHANGED latest,
           \A o \in Name : To'[o] \/ o \in waitTimer' => To[o] \/ o \in waitTimer,
           \A o \in Name, t \in Task : (To'[o] \/ o \in waitTimer') /\ for[t] = {o}
                                           => for'[t] = {o},
           latest \in [Name -> SUBSET Task]
    PROVE  TimeoutIsOfThisWait'
  BY DEF TimeoutIsOfThisWait

\* sendMsg, cleanMsg, taskDel, taskInitEx and a waitMsg that does not wait
LEMMA CleanInv ==
    ASSUME PlusInv, NEW n \in Name,
           CleanMsg(n) \/ TaskDel(n) \/ \E t \in Task : TaskInitEx(t, n)
    PROVE  PlusInv'
<1> USE DEF PlusInv
<1>1. /\ Books'
      /\ msgQueue' \in [Name -> Seq(Message)] /\ fate' \in [Numbers -> Fates]
      /\ \A o \in Name \ {n} : msgQueue'[o] = msgQueue[o]
      /\ msgQueue'[n] = <<>>
  BY CleanBooks DEF CleanMsg, TaskDel, TaskInitEx
<1>2. /\ UNCHANGED <<for, timed, mail, due, waitTimer, target, latest>>
      /\ taskList' \in [Name -> SUBSET Task]
      /\ \A o \in Name \ {n} : taskList'[o] = taskList[o]
      /\ To' \in [Name -> BOOLEAN] /\ \A o \in Name : To'[o] => To[o]
      /\ state' \in [Task -> {"none", "run", "wait", "dead"}]
      /\ \A t \in Task : \/ state'[t] = state[t]
                         \/ state[t] = "none" /\ state'[t] = "run"
  <2>1. CASE CleanMsg(n) \/ TaskDel(n)
    BY <2>1 DEF CleanMsg, TaskDel, PlusTypeOK, schedVars
  <2>2. CASE \E t \in Task : TaskInitEx(t, n)
    BY <2>2 DEF TaskInitEx, Create, PlusTypeOK
  <2> QED BY <2>1, <2>2
<1>3. PlusTypeOK' /\ SchedTypeOK'
  BY <1>1, <1>2 DEF PlusTypeOK, SchedTypeOK, Message
<1>4. Outsiders' /\ Subscribed'
  BY <1>1, <1>2 DEF Outsiders, HasEntry, Subscribed
<1>5. \A t \in Task, o \in Name : /\ Waiting(t, o)' => Waiting(t, o)
                                  /\ WillWake(t, o)' <=> WillWake(t, o)
  BY <1>2 DEF Waiting, WillWake
<1>6. AnyMessageWakes'
  BY <1>1, <1>2, <1>5 DEF AnyMessageWakes, Empty
<1>7. TimeoutIsOfThisWait'
  BY <1>2, TimelyStay DEF PlusTypeOK
<1> QED BY <1>1, <1>3, <1>4, <1>6, <1>7

LEMMA SendInv ==
    ASSUME PlusInv, NEW n \in Name, NEW k \in Kinds, SendMsg(n, k)
    PROVE  PlusInv'
<1> USE DEF PlusInv
<1>1. PICK i \in Numbers :
          /\ fate[i] = "unsent" /\ \A j \in Numbers : j < i => fate[j] # "unsent"
          /\ msgQueue' = [msgQueue EXCEPT ![n] = Append(@, [no |-> i, kind |-> k])]
          /\ fate' = [fate EXCEPT ![i] = "queued"]
  BY DEF SendMsg
<1>2. /\ Books'
      /\ msgQueue' \in [Name -> Seq(Message)] /\ fate' \in [Numbers -> Fates]
      /\ \A o \in Name \ {n} : msgQueue'[o] = msgQueue[o]
  BY <1>1, SendBooks
<1>3. /\ HasEntry(n) /\ UNCHANGED <<taskList, To, waitTimer, target, latest>>
      /\ UNCHANGED <<state, for, timed, due>> /\ mail' = Append(mail, n)
  BY DEF SendMsg, Send, Mail
<1>4. /\ mail' \in Seq(Name)
      /\ \A t \in Task : WillWake(t, n)'
      /\ \A t \in Task, o \in Name : WillWake(t, o) => WillWake(t, o)'
  BY <1>3, Mailed
<1>5. PlusTypeOK' /\ SchedTypeOK'
  BY <1>2, <1>3, <1>4 DEF PlusTypeOK, SchedTypeOK, Message
<1>6. Outsiders' /\ Subscribed'
  BY <1>2, <1>3 DEF Outsiders, HasEntry, Subscribed
<1>7. \A t \in Task, o \in Name : Waiting(t, o)' <=> Waiting(t, o)
  BY <1>3 DEF Waiting
<1>8. AnyMessageWakes'
  BY <1>2, <1>3, <1>4, <1>7 DEF AnyMessageWakes, Empty
<1>9. TimeoutIsOfThisWait'
  BY <1>3, TimelyStay DEF PlusTypeOK
<1> QED BY <1>2, <1>5, <1>6, <1>8, <1>9

LEMMA AtOnceInv ==
    ASSUME PlusInv, NEW t \in Task, NEW n \in Name, NEW g \in Kinds \cup {AnyKind},
           WaitMsgAtOnce(t, n, g)
    PROVE  PlusInv'
<1> USE DEF PlusInv
<1>1. /\ HasEntry(n) /\ ~ Empty(n) /\ Takes(n, "returned")
      /\ UNCHANGED <<schedVars, taskList, To, waitTimer, target, latest>>
  BY DEF WaitMsgAtOnce
<1>2. /\ Books'
      /\ msgQueue' \in [Name -> Seq(Message)] /\ fate' \in [Numbers -> Fates]
      /\ \A o \in Name \ {n} : msgQueue'[o] = msgQueue[o]
  BY <1>1, TakesBooks DEF Fates
<1>3. PlusTypeOK' /\ SchedTypeOK'
  BY <1>1, <1>2 DEF PlusTypeOK, SchedTypeOK, Message, schedVars
<1>4. Outsiders' /\ Subscribed'
  BY <1>1, <1>2 DEF Outsiders, HasEntry, Subscribed, schedVars
<1>5. \A u \in Task, o \in Name : /\ Waiting(u, o)' <=> Waiting(u, o)
                                  /\ WillWake(u, o)' <=> WillWake(u, o)
  BY <1>1 DEF Waiting, WillWake, schedVars
<1>6. AnyMessageWakes'
  BY <1>1, <1>2, <1>5 DEF AnyMessageWakes, Empty
<1>7. TimeoutIsOfThisWait'
  BY <1>1, TimelyStay DEF PlusTypeOK, schedVars
<1> QED BY <1>2, <1>3, <1>4, <1>6, <1>7

\* The steps of a task outside waitMsg.
LEMMA TaskInv ==
    ASSUME PlusInv, NEW t \in Task,
           (End(t) /\ UNCHANGED plusVars) \/ Sleep(t) \/ Awake(t)
    PROVE  PlusInv'
<1> USE DEF PlusInv
<1>1. /\ UNCHANGED plusVars /\ UNCHANGED <<mail, due>>
      /\ for[t] = {} /\ for'[t] = {}
      /\ \A u \in Task \ {t} : /\ state'[u] = state[u] /\ for'[u] = for[u]
                               /\ timed'[u] = timed[u]
      /\ state' \in [Task -> {"none", "run", "wait", "dead"}]
      /\ SchedTypeOK'
  <2>1. CASE End(t) /\ UNCHANGED plusVars
    BY <2>1 DEF End, Subscribed, PlusTypeOK, SchedTypeOK
  <2>2. CASE Sleep(t)
    BY <2>2 DEF Sleep, Wait, Waits, Subscribed, PlusTypeOK, SchedTypeOK
  <2>3. CASE Awake(t)
    BY <2>3 DEF Awake, Timeout, Resume, Subscribed, PlusTypeOK, SchedTypeOK
  <2> QED BY <2>1, <2>2, <2>3
<1>2. PlusTypeOK' /\ Books'
  BY <1>1, BooksStay DEF PlusTypeOK, plusVars
<1>3. Outsiders' /\ Subscribed'
  BY <1>1 DEF Outsiders, HasEntry, Subscribed, plusVars
<1>4. \A u \in Task, o \in Name : /\ Waiting(u, o)' => Waiting(u, o)
                                  /\ WillWake(u, o)' <=> WillWake(u, o)
  BY <1>1 DEF Waiting, WillWake
<1>5. AnyMessageWakes'
  BY <1>1, <1>4 DEF AnyMessageWakes, Empty, plusVars
<1>6. \A u \in Task : for'[u] = for[u]
  BY <1>1
<1>7. TimeoutIsOfThisWait'
  BY <1>1, <1>6, TimelyStay DEF PlusTypeOK, plusVars
<1> QED BY <1>1, <1>2, <1>3, <1>5, <1>7

LEMMA WaitMsgInv ==
    ASSUME PlusInv, NEW t \in Task, NEW n \in Name, NEW g \in Kinds \cup {AnyKind},
           NEW ms \in BOOLEAN, WaitMsg(t, n, g, ms)
    PROVE  PlusInv'
<1> USE DEF PlusInv
<1>1. /\ HasEntry(n) /\ state[t] = "run"
      /\ UNCHANGED <<mail, due, taskList>>
      /\ state' = [state EXCEPT ![t] = "wait"]
      /\ for' = [for EXCEPT ![t] = {n}]
      /\ timed' = [timed EXCEPT ![t] = FALSE]
      /\ To' = [To EXCEPT ![n] = FALSE]
      /\ target' = [target EXCEPT ![t] = g]
      /\ latest' = [latest EXCEPT ![n] = {t}]
      /\ waitTimer' \in {waitTimer \cup {n}, waitTimer \ {n}}
  BY DEF WaitMsg, Wait, Waits
<1>2. /\ Books'
      /\ msgQueue' \in [Name -> Seq(Message)] /\ fate' \in [Numbers -> Fates]
      /\ \A o \in Name \ {n} : msgQueue'[o] = msgQueue[o]
      /\ g = AnyKind => msgQueue'[n] = <<>>
      /\ Empty(n) => Empty(n)'
  <2>1. CASE Empty(n)
    BY <2>1, BooksStay DEF WaitMsg, Empty, PlusTypeOK, Message
  <2>2. CASE ~ Empty(n)
    BY <2>2, TakesBooks DEF WaitMsg, IsTarget, Fates
  <2> QED BY <2>1, <2>2
<1>3. /\ PlusTypeOK' /\ SchedTypeOK'
      /\ state'[t] = "wait" /\ for'[t] = {n} /\ ~ timed'[t] /\ target'[t] = g
      /\ latest'[n] = {t}
      /\ \A u \in Task \ {t} : /\ state'[u] = state[u] /\ for'[u] = for[u]
                               /\ timed'[u] = timed[u] /\ target'[u] = target[u]
      /\ \A o \in Name \ {n} : /\ To'[o] = To[o] /\ latest'[o] = latest[o]
                               /\ o \in waitTimer' <=> o \in waitTimer
  BY <1>1, <1>2 DEF PlusTypeOK, SchedTypeOK, Message
<1>4. Outsiders' /\ Subscribed'
  <2>1. Outsiders'
    BY <1>1, <1>2 DEF Outsiders, HasEntry
  <2>2. Subscribed'
    BY <1>3 DEF Subscribed
  <2> QED BY <2>1, <2>2
<1>5. /\ Waiting(t, n)'
      /\ \A u \in Task, o \in Name : WillWake(u, o)' <=> WillWake(u, o)
      /\ \A u \in Task \ {t}, o \in Name : Waiting(u, o)' <=> Waiting(u, o)
  BY <1>1, <1>3 DEF Waiting, WillWake
<1>6. AnyMessageWakes'
  <2> SUFFICES ASSUME NEW u \in Task, NEW o \in Name,
                      Waiting(u, o)', target'[u] = AnyKind, ~ Empty(o)'
               PROVE  WillWake(u, o)'
    BY DEF AnyMessageWakes
  <2>1. CASE u = t
    <3>1. o = n
      BY <1>1, <1>5, <2>1, OneName, Zenon DEF Waiting
    <3> QED BY <1>2, <1>3, <2>1, <3>1 DEF Empty
  <2>2. CASE u # t
    BY <1>2, <1>3, <1>5, <2>2 DEF AnyMessageWakes, Empty
  <2> QED BY <2>1, <2>2
<1>7. TimeoutIsOfThisWait'
  <2> SUFFICES ASSUME NEW o \in Name, To'[o] \/ o \in waitTimer'
               PROVE  \E u \in latest'[o] : for'[u] = {o}
    BY DEF TimeoutIsOfThisWait
  <2>1. CASE o = n
    BY <1>3, <2>1
  <2>2. CASE o # n
    <3>1. PICK u \in latest[o] : for[u] = {o}
      BY <1>3, <2>2 DEF TimeoutIsOfThisWait
    <3>2. u \in Task /\ u # t
      BY <1>1, <3>1 DEF PlusTypeOK, Subscribed
    <3> QED BY <1>3, <2>2, <3>1, <3>2
  <2> QED BY <2>1, <2>2
<1> QED BY <1>2, <1>3, <1>4, <1>6, <1>7

\* dispatch reaches a task: its wait ends, goes on, or fails.
LEMMA WokenInv ==
    ASSUME PlusInv, NEW t \in Task, NEW n \in Name, Woken(t, n)
    PROVE  PlusInv'
<1> USE DEF PlusInv
<1>1. /\ due' = due \ {t} /\ UNCHANGED <<mail, taskList, target, latest>>
      /\ Waiting(t, n)
      /\ \A u \in Task \ {t}, o \in Name : WillWake(u, o)' <=> WillWake(u, o)
  BY DEF Woken, WokenByTarget, WokenByOther, WokenByTimeout, WokenForNothing,
         WokenDeleted, Reaches, Finish, plusVars, WillWake
<1>2. /\ Books'
      /\ msgQueue' \in [Name -> Seq(Message)] /\ fate' \in [Numbers -> Fates]
      /\ \A o \in Name \ {n} : msgQueue'[o] = msgQueue[o]
      /\ Empty(n) => Empty(n)'
  <2>1. CASE WokenByTarget(t, n)
    <3>1. PICK where \in {"lost", "returned"} : Takes(n, where)
      BY <2>1 DEF WokenByTarget
    <3>2. ~ Empty(n)
      BY <2>1 DEF WokenByTarget
    <3> QED BY <3>1, <3>2, TakesBooks DEF Fates
  <2>2. CASE WokenByOther(t, n)
    BY <2>2, TakesBooks DEF WokenByOther, Fates
  <2>3. CASE UNCHANGED <<msgQueue, fate>>
    BY <2>3, BooksStay DEF PlusTypeOK, Message, Empty
  <2> QED BY <2>1, <2>2, <2>3
      DEF Woken, WokenByTimeout, WokenForNothing, WokenDeleted, plusVars
<1>3. Outsiders'
  BY <1>1, <1>2 DEF Outsiders, HasEntry, Empty
<1>4. CASE WokenByTarget(t, n) \/ WokenByTimeout(t, n)
  <2>1. /\ Resume(t) /\ To' = [To EXCEPT ![n] = FALSE] /\ waitTimer' = waitTimer \ {n}
    BY <1>4 DEF WokenByTarget, WokenByTimeout, Finish
  <2>2. /\ PlusTypeOK' /\ SchedTypeOK'
        /\ state'[t] = "run" /\ for'[t] = {} /\ ~ timed'[t]
        /\ ~ To'[n] /\ n \notin waitTimer'
        /\ \A u \in Task \ {t} : /\ state'[u] = state[u] /\ for'[u] = for[u]
                                 /\ timed'[u] = timed[u]
        /\ \A o \in Name \ {n} : /\ To'[o] = To[o]
                                 /\ o \in waitTimer' <=> o \in waitTimer
    BY <1>1, <1>2, <2>1 DEF Resume, PlusTypeOK, SchedTypeOK, Message
  <2>3. Subscribed'
    BY <2>2 DEF Subscribed
  <2>4. /\ \A o \in Name : ~ Waiting(t, o)'
        /\ \A u \in Task \ {t}, o \in Name : Waiting(u, o)' <=> Waiting(u, o)
    BY <2>2 DEF Waiting
  <2>5. AnyMessageWakes'
    BY <1>1, <1>2, <2>4 DEF AnyMessageWakes, Empty
  <2>6. \A o \in Name : for[t] = {o} => o = n
    BY <1>1, OneName DEF Waiting
  <2>7. TimeoutIsOfThisWait'
    <3>1. \A o \in Name, u \in Task : (To'[o] \/ o \in waitTimer') /\ for[u] = {o}
                                           => for'[u] = {o}
      BY <2>2, <2>6
    <3> QED BY <1>1, <2>2, <3>1, TimelyStay DEF PlusTypeOK
  <2> QED BY <1>2, <1>3, <2>2, <2>3, <2>5, <2>7
<1>5. CASE WokenByOther(t, n) \/ WokenForNothing(t, n)
  <2>1. UNCHANGED <<state, for, timed, To, waitTimer>>
    BY <1>5 DEF WokenByOther, WokenForNothing, plusVars
  <2>2. target[t] # AnyKind \/ Empty(n)'
    BY <1>5 DEF WokenByOther, WokenForNothing, IsTarget, Empty, plusVars
  <2>3. PlusTypeOK' /\ SchedTypeOK'
    BY <1>1, <1>2, <2>1 DEF PlusTypeOK, SchedTypeOK, Message
  <2>4. \A u \in Task, o \in Name : Waiting(u, o)' <=> Waiting(u, o)
    BY <2>1 DEF Waiting
  <2>5. Subscribed'
    BY <2>1 DEF Subscribed
  <2>6. AnyMessageWakes'
    <3> SUFFICES ASSUME NEW u \in Task, NEW o \in Name,
                        Waiting(u, o)', target'[u] = AnyKind, ~ Empty(o)'
                 PROVE  WillWake(u, o)'
      BY DEF AnyMessageWakes
    <3>1. CASE u = t
      BY <1>1, <2>2, <2>4, <3>1, OneName
    <3>2. CASE u # t
      BY <1>1, <1>2, <2>4, <3>2 DEF AnyMessageWakes, Empty
    <3> QED BY <3>1, <3>2
  <2>7. TimeoutIsOfThisWait'
    BY <1>1, <2>1, TimelyStay DEF PlusTypeOK
  <2> QED BY <1>2, <1>3, <2>3, <2>5, <2>6, <2>7
<1>6. CASE WokenDeleted(t, n)
  <2>1. /\ state' = [state EXCEPT ![t] = "dead"]
        /\ UNCHANGED <<for, timed, To, waitTimer>>
    BY <1>6 DEF WokenDeleted, plusVars
  <2>2. /\ PlusTypeOK' /\ SchedTypeOK' /\ state'[t] = "dead"
        /\ \A u \in Task \ {t} : state'[u] = state[u]
    BY <1>1, <1>2, <2>1 DEF PlusTypeOK, SchedTypeOK, Message
  <2>3. /\ \A o \in Name : ~ Waiting(t, o)'
        /\ \A u \in Task \ {t}, o \in Name : Waiting(u, o)' <=> Waiting(u, o)
    BY <2>1, <2>2 DEF Waiting
  <2>4. Subscribed'
    BY <2>1, <2>2 DEF Subscribed
  <2>5. AnyMessageWakes'
    BY <1>1, <1>2, <2>3 DEF AnyMessageWakes, Empty
  <2>6. TimeoutIsOfThisWait'
    BY <1>1, <2>1, TimelyStay DEF PlusTypeOK
  <2> QED BY <1>2, <1>3, <2>2, <2>4, <2>5, <2>6
<1> QED BY <1>4, <1>5, <1>6 DEF Woken

\* The next message takes its turn.
LEMMA DeliverInv ==
    ASSUME PlusInv, Deliver, UNCHANGED plusVars
    PROVE  PlusInv'
<1> USE DEF PlusInv
<1>1. /\ mail # <<>> /\ due = {} /\ mail' = Tail(mail)
      /\ due' = {t \in Task : state[t] = "wait" /\ Head(mail) \in for[t]}
      /\ UNCHANGED <<state, for, timed, plusVars>>
  BY DEF Deliver
<1>2. /\ mail \in Seq(Name) /\ mail' \in Seq(Name)
      /\ \A i \in DOMAIN mail : i # 1 => /\ i - 1 \in DOMAIN mail'
                                         /\ mail'[i - 1] = mail[i]
      /\ Head(mail) = mail[1]
  BY <1>1 DEF PlusTypeOK
<1>3. PlusTypeOK' /\ SchedTypeOK' /\ Books'
  BY <1>1, <1>2, BooksStay DEF PlusTypeOK, SchedTypeOK, plusVars
<1>4. \A t \in Task, n \in Name : Waiting(t, n) /\ WillWake(t, n) => WillWake(t, n)'
  <2> SUFFICES ASSUME NEW t \in Task, NEW n \in Name, Waiting(t, n),
                      NEW i \in DOMAIN mail, mail[i] = n
               PROVE  WillWake(t, n)'
    BY <1>1 DEF WillWake
  <2>1. CASE i = 1
    BY <1>1, <1>2, <2>1 DEF Waiting, WillWake
  <2>2. CASE i # 1
    BY <1>2, <2>2 DEF WillWake
  <2> QED BY <2>1, <2>2
<1>5. \A t \in Task, n \in Name : Waiting(t, n)' <=> Waiting(t, n)
  BY <1>1 DEF Waiting
<1>6. AnyMessageWakes'
  BY <1>1, <1>4, <1>5 DEF AnyMessageWakes, Empty, plusVars
<1>7. Outsiders' /\ Subscribed'
  BY <1>1 DEF Outsiders, HasEntry, Subscribed, plusVars
<1>8. TimeoutIsOfThisWait'
  BY <1>1, TimelyStay DEF PlusTypeOK, plusVars
<1> QED BY <1>3, <1>6, <1>7, <1>8

\* The time of a wait is over.
LEMMA WaitToInv ==
    ASSUME PlusInv, NEW n \in Name, WaitTo(n)
    PROVE  PlusInv'
<1> USE DEF PlusInv
<1>1. /\ n \in waitTimer
      /\ To' = [To EXCEPT ![n] = TRUE] /\ waitTimer' = waitTimer \ {n}
      /\ mail' = Append(mail, n)
      /\ UNCHANGED <<state, for, timed, due, taskList, msgQueue, target, fate, latest>>
  BY DEF WaitTo, Mail
<1>2. /\ mail' \in Seq(Name)
      /\ \A t \in Task, o \in Name : WillWake(t, o) => WillWake(t, o)'
  BY <1>1, Mailed
<1>3. PlusTypeOK' /\ SchedTypeOK' /\ Books'
  BY <1>1, <1>2, BooksStay DEF PlusTypeOK, SchedTypeOK
<1>4. \A t \in Task, o \in Name : Waiting(t, o)' <=> Waiting(t, o)
  BY <1>1 DEF Waiting
<1>5. \A o \in Name \ {n} : To'[o] = To[o]
  BY <1>1 DEF PlusTypeOK
<1>6. AnyMessageWakes'
  BY <1>1, <1>2, <1>4 DEF AnyMessageWakes, Empty
<1>7. Outsiders' /\ Subscribed'
  BY <1>1 DEF Outsiders, HasEntry, Subscribed
<1>8. TimeoutIsOfThisWait'
  BY <1>1, <1>5, TimelyStay DEF PlusTypeOK
<1> QED BY <1>3, <1>6, <1>7, <1>8

LEMMA PlusInvNext == PlusInv /\ [Next]_vars => PlusInv'
<1> SUFFICES ASSUME PlusInv, [Next]_vars PROVE PlusInv'
  OBVIOUS
<1>1. CASE UNCHANGED vars
  <2>1. UNCHANGED <<state, for, timed, mail, due, taskList, msgQueue, To, waitTimer, target,
                    fate, latest>>
    BY <1>1 DEF vars, schedVars, plusVars
  <2>2. PlusTypeOK' /\ SchedTypeOK'
    BY <2>1 DEF PlusInv, PlusTypeOK, SchedTypeOK
  <2>3. Books'
    BY <2>1, BooksStay DEF PlusInv
  <2>4. Outsiders' /\ Subscribed'
    BY <2>1 DEF PlusInv, Outsiders, HasEntry, Subscribed
  <2>5. AnyMessageWakes' /\ TimeoutIsOfThisWait'
    BY <2>1 DEF PlusInv, AnyMessageWakes, TimeoutIsOfThisWait, Waiting, WillWake, Empty
  <2> QED BY <2>2, <2>3, <2>4, <2>5 DEF PlusInv
<1>2. ASSUME NEW t \in Task,
             (End(t) /\ UNCHANGED plusVars) \/ Sleep(t) \/ Awake(t)
      PROVE  PlusInv'
  BY <1>2, TaskInv
<1>3. ASSUME NEW n \in Name,
             \/ TaskDel(n) \/ CleanMsg(n) \/ WaitTo(n) \/ WaitToFails(n)
             \/ \E k \in Kinds : SendMsg(n, k)
      PROVE  PlusInv'
  BY <1>3, CleanInv, WaitToInv, ResetInv, SendInv DEF WaitToFails
<1>4. ASSUME NEW t \in Task, NEW n \in Name,
             \/ TaskInitEx(t, n)
             \/ \E g \in Kinds \cup {AnyKind} :
                 WaitMsgAtOnce(t, n, g) \/ \E ms \in BOOLEAN : WaitMsg(t, n, g, ms)
      PROVE  PlusInv'
  BY <1>4, CleanInv, AtOnceInv, WaitMsgInv
<1>5. CASE Scheduler
  BY <1>5, DeliverInv, WokenInv DEF Scheduler
<1>6. CASE Failed /\ Reset
  BY <1>6, ResetInv
<1> QED BY <1>1, <1>2, <1>3, <1>4, <1>5, <1>6 DEF Next

LEMMA PlusInvariance == Spec => []PlusInv
  BY PlusInvInit, PlusInvNext, PTL DEF Spec

\* No message is duplicated, overtaken or forgotten in a queue.
THEOREM QueuesStayExact == Spec => []QueuesAreExact
<1>1. PlusInv => QueuesAreExact
  BY DEF PlusInv, Books, QueuedAreOpen, Queued, InOrder, Disjoint, QueuesAreExact, Elements
<1> QED BY <1>1, PlusInvariance, PTL

\* A task in a waitMsg for any message does not sleep on one: a delivery to it
\* is on the way, even where other tasks wait under the same name.
THEOREM NobodySleepsOnMessages == Spec => []AnyMessageWakes
<1>1. PlusInv => AnyMessageWakes
  BY DEF PlusInv
<1> QED BY <1>1, PlusInvariance, PTL

\* The timeout of one waitMsg, expired or not, never reaches a later one under
\* the same name, whoever deletes the name, creates it again or shares it.
THEOREM TimeoutsStayWithTheirWait == Spec => []TimeoutIsOfThisWait
<1>1. PlusInv => TimeoutIsOfThisWait
  BY DEF PlusInv
<1> QED BY <1>1, PlusInvariance, PTL
=============================================================================

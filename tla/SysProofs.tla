----------------------------- MODULE SysProofs -----------------------------
(***************************************************************************)
(* Proofs about RtosTimer and about Sys, which extends it, for any number  *)
(* of slots, any bus, and any tasks, callbacks, topics and ids.            *)
(*                                                                         *)
(* RtosInv is inductive for RtosTimer.  That a tick finds its own slot     *)
(* rests on three facts: ids in the table are distinct, a tick that points *)
(* to a slot has the slot's id, and a dangling tick has an id that is not  *)
(* in the table.                                                           *)
(*                                                                         *)
(* SysInv is inductive for Sys.  It adds to the books that the runs check  *)
(* what keeps them: the timers of sys.wait are one-shots, and the tasks on *)
(* the stack are just those that run.  With it every step of Sys is a step *)
(* of TaskScheduler or leaves its variables alone.                         *)
(***************************************************************************)
EXTENDS Sys, FiniteSetTheorems, TLAPS

----------------------------------------------------------------------------
\* Operators of the table and the bus.

\* luat_timer_get finds slots of the table, and only ones with the id.
LEMMA FirstProperties ==
    ASSUME NEW ts, NEW id
    PROVE  /\ First(ts, id) \subseteq Slots
           /\ \A s \in First(ts, id) : ts[s].id = id
           /\ \A r, s \in First(ts, id) : r = s
<1>1. \A r, s \in First(ts, id) : r = s
  BY SlotAssumption DEF First, Slots
<1> QED BY <1>1 DEF First

\* Forgetting pointers keeps the bus what it is.
LEMMA UnlinkedProperties ==
    ASSUME NEW b \in Seq(Messages), NEW S
    PROVE  /\ Unlinked(b, S) \in Seq(Messages)
           /\ Len(Unlinked(b, S)) = Len(b)
           /\ DOMAIN Unlinked(b, S) = DOMAIN b
           /\ \A i \in DOMAIN b :
                /\ Unlinked(b, S)[i].kind = b[i].kind
                /\ Unlinked(b, S)[i].id = b[i].id
                /\ Unlinked(b, S)[i].ptr = IF b[i].ptr \in S THEN Dangling
                                                             ELSE b[i].ptr
<1>1. \A i \in DOMAIN b : b[i] \in Messages
  OBVIOUS
<1>2. ASSUME NEW m \in Messages
      PROVE  /\ [m EXCEPT !.ptr = Dangling] \in Messages
             /\ [m EXCEPT !.ptr = Dangling].kind = m.kind
             /\ [m EXCEPT !.ptr = Dangling].id = m.id
             /\ [m EXCEPT !.ptr = Dangling].ptr = Dangling
  BY DEF Messages, OtherMsg
<1>3. \A i \in DOMAIN b :
        Unlinked(b, S)[i] = IF b[i].ptr \in S THEN [b[i] EXCEPT !.ptr = Dangling]
                                              ELSE b[i]
  BY DEF Unlinked
<1>4. Unlinked(b, S) \in [1 .. Len(b) -> Messages]
  BY <1>1, <1>2, <1>3 DEF Unlinked
<1>5. Len(Unlinked(b, S)) = Len(b) /\ Unlinked(b, S) \in Seq(Messages)
  BY <1>4
<1>6. DOMAIN Unlinked(b, S) = DOMAIN b
  BY DEF Unlinked
<1> QED BY <1>1, <1>2, <1>3, <1>5, <1>6

LEMMA TailProperties ==
    ASSUME NEW b \in Seq(Messages), b # <<>>
    PROVE  /\ Tail(b) \in Seq(Messages)
           /\ Len(Tail(b)) = Len(b) - 1
           /\ \A i \in DOMAIN Tail(b) : i + 1 \in DOMAIN b /\ Tail(b)[i] = b[i + 1]
           /\ Head(b) = b[1] /\ 1 \in DOMAIN b /\ Head(b) \in Messages
  OBVIOUS

LEMMA AppendProperties ==
    ASSUME NEW b \in Seq(Messages), NEW m \in Messages
    PROVE  /\ Append(b, m) \in Seq(Messages)
           /\ Len(Append(b, m)) = Len(b) + 1
           /\ \A i \in DOMAIN Append(b, m) :
                \/ i \in DOMAIN b /\ Append(b, m)[i] = b[i]
                \/ i = Len(b) + 1 /\ Append(b, m)[i] = m
           /\ \A i \in DOMAIN b : i \in DOMAIN Append(b, m) /\ Append(b, m)[i] = b[i]
           /\ Append(b, m)[Len(b) + 1] = m /\ Len(b) + 1 \in DOMAIN Append(b, m)
  OBVIOUS
----------------------------------------------------------------------------
\* The inductive invariant.

UniqueIds == \A r, s \in Slots :
    timers[r].id = timers[s].id /\ timers[r].id # NoId => r = s

DanglingIsDead == \A i \in DOMAIN bus :
    bus[i].kind = "tick" /\ bus[i].ptr = Dangling => ~ Live(timers, bus[i].id)

\* a one-shot expires once, counts nothing down and has no tick before that
OneShots == \A s \in Slots : timers[s] # NoTimer =>
    /\ ~ timers[s].armed => ~ timers[s].reload
    /\ ~ timers[s].reload => timers[s].repeat = 0
    /\ timers[s].armed /\ ~ timers[s].reload => ~ TickPending(s)

RtosInv == /\ RtosTypeOK /\ UniqueIds /\ TickPointsToOwner /\ DanglingIsDead
           /\ OneShots /\ ExpiredHasTick /\ DroppedIsStuck

\* Types alone do not need the ids to be distinct.
LEMMA TypeStep == RtosTypeOK /\ [RtosNext]_rtosVars => RtosTypeOK'
<1> SUFFICES ASSUME RtosTypeOK, [RtosNext]_rtosVars PROVE RtosTypeOK'
  OBVIOUS
<1> USE SlotAssumption, BusAssumption, IdAssumption, RepeatAssumption
<1>0. ASSUME NEW s \in Slots, timers[s].id # NoId PROVE timers[s] \in Timer
  BY <1>0 DEF RtosTypeOK, NoTimer
<1>1. ASSUME NEW id \in TimerIds, NEW n \in Repeats, Start(id, n)
      PROVE  RtosTypeOK'
  <2>1. [id |-> id, repeat |-> n, reload |-> n # 0, armed |-> TRUE] \in Timer
    BY DEF Timer
  <2> QED BY <1>1, <2>1 DEF RtosTypeOK, Start, Started
<1>2. ASSUME NEW S \in SUBSET Slots, StopSlots(S) PROVE RtosTypeOK'
  <2>1. bus' \in Seq(Messages) /\ Len(bus') = Len(bus)
    BY <1>2, UnlinkedProperties DEF StopSlots, RtosTypeOK
  <2> QED BY <1>2, <2>1 DEF RtosTypeOK, StopSlots, Freed
<1>3. ASSUME NEW s \in Slots, Expire(s) PROVE RtosTypeOK'
  <2>1. timers[s] \in Timer
    BY <1>3 DEF Expire, RtosTypeOK, NoTimer
  <2>2. timers' \in [Slots -> Timer \cup {NoTimer}]
    <3>1. [timers[s] EXCEPT !.armed = timers[s].reload] \in Timer
      BY <2>1 DEF Timer
    <3>2. timers' = [timers EXCEPT ![s] = [timers[s] EXCEPT !.armed = timers[s].reload]]
      BY <1>3 DEF Expire
    <3> QED BY <3>1, <3>2 DEF RtosTypeOK
  <2>3. CASE BusFull(bus)
    BY <1>3, <2>2, <2>3 DEF Expire, RtosTypeOK
  <2>4. CASE ~ BusFull(bus)
    <3>1. PICK r \in ExpiredSlot(s) : bus' = Append(bus, Tick(timers, r))
      BY <1>3, <2>4 DEF Expire
    <3>2. r \in Slots /\ timers[r].id = timers[s].id
      BY <3>1, FirstProperties DEF ExpiredSlot
    <3>3. Tick(timers, r) \in Messages
      BY <2>1, <3>2 DEF Tick, Messages, Timer
    <3> QED BY <1>3, <2>2, <2>4, <3>1, <3>3, AppendProperties
            DEF Expire, RtosTypeOK, BusFull
  <2> QED BY <2>3, <2>4
<1>4. CASE Post
  <2>1. OtherMsg \in Messages
    BY DEF Messages
  <2> QED BY <1>4, <2>1, AppendProperties DEF Post, RtosTypeOK, BusFull
<1>5. ASSUME bus # <<>>, bus' = Tail(bus), UNCHANGED <<timers, dropped>>
      PROVE  RtosTypeOK'
  BY <1>5, TailProperties DEF RtosTypeOK
<1>6. ASSUME NEW s \in Slots, ReceiveTick(s) PROVE RtosTypeOK'
  <2>1. bus # <<>> /\ Tail(bus) \in Seq(Messages) /\ Len(Tail(bus)) <= BusCap
    BY <1>6, TailProperties DEF ReceiveTick, RtosTypeOK
  <2>2. bus' \in Seq(Messages) /\ Len(bus') <= BusCap
    BY <1>6, <2>1, UnlinkedProperties DEF ReceiveTick
  <2>3. timers' \in [Slots -> Timer \cup {NoTimer}]
    <3>1. CASE timers[s].repeat = 0
      BY <1>6, <3>1 DEF ReceiveTick, Handled, Freed, RtosTypeOK
    <3>2. CASE timers[s].repeat > 0
      <4>1. timers[s] \in Timer
        BY <3>2 DEF RtosTypeOK, NoTimer
      <4>2. [timers[s] EXCEPT !.repeat = timers[s].repeat - 1] \in Timer
        BY <4>1 DEF Timer
      <4>3. timers' = [timers EXCEPT ![s] =
                            [timers[s] EXCEPT !.repeat = timers[s].repeat - 1]]
        BY <1>6, <3>2 DEF ReceiveTick, Handled
      <4> QED BY <4>2, <4>3 DEF RtosTypeOK
    <3>3. CASE timers[s].repeat # 0 /\ ~ (timers[s].repeat > 0)
      BY <1>6, <3>3 DEF ReceiveTick, Handled, RtosTypeOK
    <3> QED BY <3>1, <3>2, <3>3
  <2> QED BY <1>6, <2>2, <2>3 DEF ReceiveTick, RtosTypeOK
<1>7. CASE UNCHANGED rtosVars
  BY <1>7 DEF rtosVars, RtosTypeOK
<1>8. ASSUME NEW id \in TimerIds, Stop(id) PROVE RtosTypeOK'
  BY <1>8, <1>2, FirstProperties DEF Stop
<1> QED
  BY <1>1, <1>3, <1>4, <1>5, <1>6, <1>7, <1>8
  DEF RtosNext, RtosReceive, ReceiveOther, ReceiveStale

\* The table holds timers, the bus at most BusCap messages, whatever happens.
THEOREM TypeCorrect == RtosSpec => []RtosTypeOK
<1>1. RtosInit => RtosTypeOK
  BY BusAssumption DEF RtosInit, RtosTypeOK
<1> QED BY <1>1, TypeStep, PTL DEF RtosSpec

----------------------------------------------------------------------------
\* The steps of the invariant, one lemma per action.  Common facts first: a
\* slot that is not free holds a Timer, and a free one holds NoTimer.
LEMMA Occupied ==
    ASSUME RtosTypeOK
    PROVE  \A s \in Slots : /\ timers[s].id = NoId <=> timers[s] = NoTimer
                            /\ timers[s] # NoTimer => timers[s] \in Timer
                            /\ timers[s].id # NoId <=> timers[s].id \in TimerIds
  BY IdAssumption DEF RtosTypeOK, NoTimer, Timer, NoId

\* No tick of the bus points to a free slot, and every tick has a real id.
LEMMA TicksOfOccupied ==
    ASSUME RtosTypeOK, TickPointsToOwner
    PROVE  /\ \A i \in DOMAIN bus : bus[i].ptr \in Slots => bus[i].kind = "tick"
           /\ \A i \in DOMAIN bus : bus[i].kind = "tick" =>
                   bus[i].id \in TimerIds /\ bus[i].id # NoId
           /\ \A i \in DOMAIN bus : bus[i].ptr \in Slots =>
                   timers[bus[i].ptr] # NoTimer
           /\ \A i \in DOMAIN bus : bus[i].ptr \in Slots \cup {Dangling}
<1>1. \A i \in DOMAIN bus : bus[i] \in Messages
  BY DEF RtosTypeOK
<1>2. \A i \in DOMAIN bus : bus[i].ptr \in Slots => bus[i].kind = "tick"
  BY <1>1, SlotAssumption DEF Messages, OtherMsg, Dangling, Slots
<1>3. \A i \in DOMAIN bus : bus[i].kind = "tick" =>
          bus[i].id \in TimerIds /\ bus[i].id # NoId
  BY <1>1, IdAssumption DEF Messages, OtherMsg, NoId
<1>4. \A i \in DOMAIN bus : bus[i].ptr \in Slots \cup {Dangling}
  BY <1>1 DEF Messages, OtherMsg
<1> QED BY <1>2, <1>3, <1>4 DEF TickPointsToOwner, NoTimer

LEMMA InvStart ==
    ASSUME RtosInv, ~ SharedIds, NEW id \in TimerIds, NEW n \in Repeats,
           Start(id, n), RtosTypeOK'
    PROVE  RtosInv'
<1> USE DEF RtosInv
<1>1. PICK s \in Slots : /\ NextTimerSlot(timers) = {s}
                         /\ timers[s] = NoTimer
  BY FirstProperties, Occupied DEF Start, StartOk, NextTimerSlot
<1>2. timers' = [timers EXCEPT ![s] =
                   [id |-> id, repeat |-> n, reload |-> n # 0, armed |-> TRUE]]
  BY <1>1 DEF Start, Started, RtosTypeOK
<1>3. bus' = bus /\ dropped' = dropped
  BY DEF Start
<1>4. ~ Live(timers, id) /\ ~ OnBus(bus, id)
  BY DEF Start, Fresh
<1>5. UniqueIds'
  BY <1>2, <1>4 DEF UniqueIds, Live, RtosTypeOK
<1>6. \A i \in DOMAIN bus : bus[i].ptr # s
  BY <1>1, TicksOfOccupied
<1>7. TickPointsToOwner'
  BY <1>2, <1>3, <1>6 DEF TickPointsToOwner, RtosTypeOK
<1>8. DanglingIsDead'
  BY <1>2, <1>3, <1>4 DEF DanglingIsDead, Live, OnBus, RtosTypeOK
<1>9. OneShots'
  BY <1>2, <1>3, <1>6, ZenonT(60) DEF OneShots, TickPending, RtosTypeOK, NoTimer
<1>10. ExpiredHasTick'
  BY <1>2, <1>3 DEF ExpiredHasTick, Expired, TickPending, RtosTypeOK
<1>11. DroppedIsStuck'
  BY <1>1, <1>2, <1>3 DEF DroppedIsStuck, Expired, TickPending, RtosTypeOK
<1> QED BY <1>5, <1>7, <1>8, <1>9, <1>10, <1>11

\* Freeing slots: the pointers to them dangle, and their ids leave the table.
LEMMA InvFree ==
    ASSUME RtosInv, NEW S \in SUBSET Slots, StopSlots(S), RtosTypeOK'
    PROVE  RtosInv'
<1> USE DEF RtosInv
<1>1. \A s \in Slots : timers'[s] = IF s \in S THEN NoTimer ELSE timers[s]
  BY DEF StopSlots, Freed
<1>2. /\ DOMAIN bus' = DOMAIN bus
      /\ \A i \in DOMAIN bus : /\ bus'[i].kind = bus[i].kind
                               /\ bus'[i].id = bus[i].id
                               /\ bus'[i].ptr = IF bus[i].ptr \in S THEN Dangling
                                                                   ELSE bus[i].ptr
  BY UnlinkedProperties DEF StopSlots, RtosTypeOK
<1>3. Dangling \notin Slots
  BY SlotAssumption DEF Dangling, Slots
<1>4. UniqueIds'
  BY <1>1 DEF UniqueIds, NoTimer
<1>5. TickPointsToOwner'
  BY <1>1, <1>2, <1>3 DEF TickPointsToOwner
<1>6. DanglingIsDead'
  <2> SUFFICES ASSUME NEW i \in DOMAIN bus, bus[i].kind = "tick",
                      bus'[i].ptr = Dangling, NEW s \in Slots,
                      timers'[s].id = bus[i].id
               PROVE  FALSE
    BY <1>2 DEF DanglingIsDead, Live
  <2>1. bus[i].id # NoId
    BY TicksOfOccupied
  <2>2. s \notin S /\ timers[s].id = bus[i].id
    BY <1>1, <2>1 DEF NoTimer
  <2>3. CASE bus[i].ptr = Dangling
    BY <2>2, <2>3 DEF DanglingIsDead, Live
  <2>4. CASE bus[i].ptr \in S
    BY <2>1, <2>2, <2>4 DEF TickPointsToOwner, UniqueIds
  <2> QED BY <1>2, <2>3, <2>4
<1>7. \A s \in Slots \ S : TickPending(s) <=> TickPending(s)'
  BY <1>2, <1>3 DEF TickPending
<1>8. OneShots'
  BY <1>1, <1>7 DEF OneShots
<1>9. ExpiredHasTick'
  BY <1>1, <1>7 DEF ExpiredHasTick, Expired, StopSlots
<1>10. DroppedIsStuck'
  BY <1>1, <1>7 DEF DroppedIsStuck, Expired, StopSlots, RtosTypeOK
<1> QED BY <1>4, <1>5, <1>6, <1>8, <1>9, <1>10

LEMMA InvExpire ==
    ASSUME RtosInv, NEW s \in Slots, Expire(s), RtosTypeOK'
    PROVE  RtosInv'
<1> USE DEF RtosInv
<1>1. timers[s] # NoTimer /\ timers[s].armed /\ timers[s].id # NoId
  BY Occupied DEF Expire, NoTimer
<1>2. /\ timers' = [timers EXCEPT ![s].armed = timers[s].reload]
      /\ \A r \in Slots : /\ timers'[r].id = timers[r].id
                           /\ timers'[r].reload = timers[r].reload
                           /\ timers'[r].repeat = timers[r].repeat
                           /\ r # s => timers'[r] = timers[r]
      /\ timers'[s].armed = timers[s].reload
      /\ timers'[s] # NoTimer
  <2>1. timers[s] \in Timer
    BY <1>1, Occupied
  <2> QED BY <1>1, <2>1 DEF Expire, RtosTypeOK, Timer, NoTimer
<1>3. UniqueIds'
  BY <1>2 DEF UniqueIds
<1>4. ExpiredSlot(s) = {s}
  <2>1. s \in ExpiredSlot(s)
    BY <1>1, SlotAssumption DEF ExpiredSlot, First, UniqueIds, Slots
  <2> QED BY <2>1, FirstProperties DEF ExpiredSlot
<1>5. CASE BusFull(bus)
  <2>1. bus' = bus /\ dropped' = dropped \cup {r \in {s} : ~ timers[r].reload}
    BY <1>5 DEF Expire
  <2>2. TickPointsToOwner' /\ DanglingIsDead'
    BY <1>2, <2>1 DEF TickPointsToOwner, DanglingIsDead, Live
  <2>3. OneShots'
    BY <1>1, <1>2, <2>1 DEF OneShots, TickPending
  <2>4. ExpiredHasTick'
    BY <1>1, <1>2, <2>1 DEF ExpiredHasTick, Expired, TickPending
  <2>5. DroppedIsStuck'
    BY <1>1, <1>2, <2>1 DEF DroppedIsStuck, Expired, TickPending, OneShots, RtosTypeOK
  <2> QED BY <1>3, <2>2, <2>3, <2>4, <2>5
<1>6. CASE ~ BusFull(bus)
  <2>1. bus' = Append(bus, Tick(timers, s)) /\ dropped' = dropped
    BY <1>4, <1>6 DEF Expire
  <2>2. Tick(timers, s) \in Messages
    BY <1>1, Occupied DEF Tick, Messages
  <2>3. /\ \A i \in DOMAIN bus' : \/ i \in DOMAIN bus /\ bus'[i] = bus[i]
                                 \/ bus'[i] = Tick(timers, s)
        /\ \A i \in DOMAIN bus : i \in DOMAIN bus' /\ bus'[i] = bus[i]
        /\ Len(bus) + 1 \in DOMAIN bus' /\ bus'[Len(bus) + 1] = Tick(timers, s)
    BY <2>1, <2>2, AppendProperties DEF RtosTypeOK
  <2>4. /\ Tick(timers, s).ptr = s /\ Tick(timers, s).kind = "tick"
        /\ Tick(timers, s).id = timers[s].id /\ s # Dangling
    BY SlotAssumption DEF Tick, Dangling, Slots
  <2>5. TickPointsToOwner'
    BY <1>2, <2>3, <2>4 DEF TickPointsToOwner
  <2>6. DanglingIsDead'
    BY <1>2, <2>3, <2>4 DEF DanglingIsDead, Live
  <2>7. \A r \in Slots : TickPending(r)' <=> r = s \/ TickPending(r)
    BY <2>3, <2>4 DEF TickPending
  <2>8. OneShots'
    BY <1>1, <1>2, <2>7 DEF OneShots
  <2>9. ExpiredHasTick'
    BY <1>2, <2>1, <2>7 DEF ExpiredHasTick, Expired
  <2>10. DroppedIsStuck'
    BY <1>1, <1>2, <2>1, <2>7 DEF DroppedIsStuck, Expired, RtosTypeOK
  <2> QED BY <1>3, <2>5, <2>6, <2>8, <2>9, <2>10
<1> QED BY <1>5, <1>6

LEMMA InvPost ==
    ASSUME RtosInv, Post, RtosTypeOK'
    PROVE  RtosInv'
<1> USE DEF RtosInv
<1>1. /\ bus' = Append(bus, OtherMsg) /\ OtherMsg \in Messages
      /\ timers' = timers /\ dropped' = dropped
  BY DEF Post, Messages
<1>2. /\ \A i \in DOMAIN bus' : \/ i \in DOMAIN bus /\ bus'[i] = bus[i]
                               \/ bus'[i] = OtherMsg
      /\ \A i \in DOMAIN bus : i \in DOMAIN bus' /\ bus'[i] = bus[i]
  BY <1>1, AppendProperties DEF RtosTypeOK
<1>3. OtherMsg.kind # "tick" /\ OtherMsg.ptr \notin Slots
  BY SlotAssumption DEF OtherMsg, Dangling, Slots
<1>4. TickPointsToOwner' /\ DanglingIsDead' /\ UniqueIds'
  BY <1>1, <1>2, <1>3 DEF TickPointsToOwner, DanglingIsDead, UniqueIds, Live
<1>5. \A s : TickPending(s)' <=> TickPending(s)
  BY <1>2, <1>3 DEF TickPending
<1> QED BY <1>1, <1>4, <1>5 DEF OneShots, ExpiredHasTick, DroppedIsStuck, Expired

\* What is left of the bus after a message was taken and slots were freed.
LEMMA Popped ==
    ASSUME RtosTypeOK, bus # <<>>, NEW S, bus' = Unlinked(Tail(bus), S)
    PROVE  /\ \A i \in DOMAIN bus' :
                /\ i + 1 \in DOMAIN bus
                /\ bus'[i].kind = bus[i + 1].kind
                /\ bus'[i].id = bus[i + 1].id
                /\ bus'[i].ptr = IF bus[i + 1].ptr \in S THEN Dangling
                                                         ELSE bus[i + 1].ptr
           /\ \A j \in DOMAIN bus : bus[j] # Head(bus) =>
                j - 1 \in DOMAIN bus'
           /\ Head(bus) = bus[1] /\ 1 \in DOMAIN bus
<1>1. bus \in Seq(Messages)
  BY DEF RtosTypeOK
<1>2. /\ Tail(bus) \in Seq(Messages)
      /\ \A i \in DOMAIN Tail(bus) : i + 1 \in DOMAIN bus /\ Tail(bus)[i] = bus[i + 1]
      /\ Head(bus) = bus[1] /\ 1 \in DOMAIN bus
  BY <1>1, TailProperties
<1>3. \A j \in DOMAIN bus : j # 1 => j - 1 \in DOMAIN Tail(bus)
  BY <1>1
<1>4. /\ DOMAIN bus' = DOMAIN Tail(bus)
      /\ \A i \in DOMAIN Tail(bus) :
            /\ bus'[i].kind = Tail(bus)[i].kind
            /\ bus'[i].id = Tail(bus)[i].id
            /\ bus'[i].ptr = IF Tail(bus)[i].ptr \in S THEN Dangling
                                                       ELSE Tail(bus)[i].ptr
  <2> DEFINE t == Tail(bus)
  <2>1. t \in Seq(Messages) /\ bus' = Unlinked(t, S)
    BY <1>2
  <2> HIDE DEF t
  <2>2. /\ DOMAIN bus' = DOMAIN t
        /\ \A i \in DOMAIN t :
            /\ bus'[i].kind = t[i].kind
            /\ bus'[i].id = t[i].id
            /\ bus'[i].ptr = IF t[i].ptr \in S THEN Dangling ELSE t[i].ptr
    BY <2>1, UnlinkedProperties
  <2> QED BY <2>2 DEF t
<1>5. \A j \in DOMAIN bus : bus[j] # Head(bus) => j - 1 \in DOMAIN bus'
  BY <1>2, <1>3, <1>4
<1> QED BY <1>2, <1>4, <1>5

\* A tick that still has its timer finds the slot it points to.
LEMMA TickFindsItsTimer ==
    ASSUME RtosInv, NEW s \in Slots, ReceiveTick(s), Head(bus).ptr \in Slots
    PROVE  s = Head(bus).ptr /\ TickPending(s)
<1> USE DEF RtosInv
<1>1. /\ Head(bus) = bus[1] /\ 1 \in DOMAIN bus
      /\ Head(bus).kind = "tick"
  BY TailProperties DEF ReceiveTick, RtosTypeOK
<1>2. timers[Head(bus).ptr].id = Head(bus).id /\ Head(bus).id # NoId
  BY <1>1, TicksOfOccupied DEF TickPointsToOwner
<1>3. PICK id \in LookupIds(timers, Head(bus)) : s \in First(timers, id)
  BY DEF ReceiveTick, HandlerSlots
<1>4. id = Head(bus).id
  BY <1>2, <1>3 DEF LookupIds
<1>5. s = Head(bus).ptr
  BY <1>2, <1>3, <1>4, FirstProperties DEF UniqueIds
<1> QED BY <1>1, <1>5 DEF TickPending

LEMMA InvReceiveTick ==
    ASSUME RtosInv, NEW s \in Slots, ReceiveTick(s), RtosTypeOK'
    PROVE  RtosInv'
<1> USE DEF RtosInv
<1> DEFINE F == FreedByHandler(timers, s)
           m == Head(bus)
<1>1. /\ bus # <<>> /\ m.kind = "tick" /\ s \in HandlerSlots(timers, m)
      /\ timers' = Handled(timers, s) /\ bus' = Unlinked(Tail(bus), F)
      /\ dropped' = dropped \ F
  BY DEF ReceiveTick
<1>2. /\ \A i \in DOMAIN bus' :
            /\ i + 1 \in DOMAIN bus
            /\ bus'[i].kind = bus[i + 1].kind
            /\ bus'[i].id = bus[i + 1].id
            /\ bus'[i].ptr = IF bus[i + 1].ptr \in F THEN Dangling ELSE bus[i + 1].ptr
      /\ \A j \in DOMAIN bus : bus[j] # m => j - 1 \in DOMAIN bus'
      /\ m = bus[1] /\ 1 \in DOMAIN bus
  BY <1>1, Popped
<1>3. Dangling \notin Slots
  BY SlotAssumption DEF Dangling, Slots
<1>5. m.ptr \in Slots => s = m.ptr
  BY TickFindsItsTimer
<1>6. /\ F \subseteq {s}
      /\ \A r \in Slots : r \in F => timers'[r] = NoTimer
      /\ \A r \in Slots : r \notin F /\ r # s => timers'[r] = timers[r]
      /\ \A r \in Slots : r \notin F =>
            /\ timers'[r].id = timers[r].id
            /\ timers'[r].armed = timers[r].armed
            /\ timers'[r].reload = timers[r].reload
            /\ timers[r].repeat = 0 => timers'[r] = timers[r]
            /\ timers[r] = NoTimer => timers'[r] = NoTimer
  <2>1. CASE timers[s].repeat = 0
    BY <1>1, <2>1 DEF FreedByHandler, Handled, Freed
  <2>2. CASE timers[s].repeat > 0
    <3>1. timers[s] # NoTimer /\ timers[s] \in Timer
      BY <2>2, Occupied DEF NoTimer
    <3> QED BY <1>1, <2>2, <3>1 DEF FreedByHandler, Handled, RtosTypeOK, Timer
  <2>3. CASE timers[s].repeat # 0 /\ ~ (timers[s].repeat > 0)
    BY <1>1, <2>3 DEF FreedByHandler, Handled
  <2> QED BY <2>1, <2>2, <2>3
<1>7. UniqueIds'
  BY <1>6 DEF UniqueIds, NoTimer
<1>8. TickPointsToOwner'
  BY <1>2, <1>3, <1>6 DEF TickPointsToOwner
<1>9. DanglingIsDead'
  <2> SUFFICES ASSUME NEW i \in DOMAIN bus', bus'[i].kind = "tick",
                      bus'[i].ptr = Dangling, NEW r \in Slots,
                      timers'[r].id = bus'[i].id
               PROVE  FALSE
    BY DEF DanglingIsDead, Live
  <2>1. /\ i + 1 \in DOMAIN bus /\ bus[i + 1].kind = "tick"
        /\ bus[i + 1].id = bus'[i].id
    BY <1>2
  <2>2. bus[i + 1].id # NoId
    BY <2>1, TicksOfOccupied
  <2>3. r \notin F /\ timers[r].id = bus[i + 1].id
    BY <1>6, <2>1, <2>2 DEF NoTimer
  <2>4. CASE bus[i + 1].ptr = Dangling
    BY <2>1, <2>3, <2>4 DEF DanglingIsDead, Live
  <2>5. CASE bus[i + 1].ptr \in F
    BY <1>6, <2>1, <2>2, <2>3, <2>5 DEF TickPointsToOwner, UniqueIds
  <2> QED BY <1>2, <2>4, <2>5
<1>10. \A r \in Slots : TickPending(r)' => TickPending(r)
  BY <1>2, <1>3 DEF TickPending
<1>11. \A r \in Slots \ F : TickPending(r) => TickPending(r)' \/ m.ptr = r
  <2> SUFFICES ASSUME NEW r \in Slots \ F, NEW j \in DOMAIN bus,
                      bus[j].kind = "tick", bus[j].ptr = r, m.ptr # r
               PROVE  TickPending(r)'
    BY DEF TickPending
  <2>1. j - 1 \in DOMAIN bus'
    BY <1>2
  <2>2. bus'[j - 1].kind = bus[j].kind /\ bus'[j - 1].ptr = r
    BY <1>2, <2>1 DEF RtosTypeOK
  <2> QED BY <2>1, <2>2 DEF TickPending
<1>12. OneShots'
  BY <1>6, <1>10 DEF OneShots
<1>13. ExpiredHasTick'
  <2> SUFFICES ASSUME NEW r \in Slots, Expired(r)'
               PROVE  TickPending(r)' \/ r \in dropped'
    BY DEF ExpiredHasTick
  <2>1. r \notin F /\ Expired(r) /\ timers[r].repeat = 0
    BY <1>6 DEF Expired, OneShots, NoTimer
  <2>2. m.ptr # r
    BY <1>5, <2>1 DEF FreedByHandler
  <2> QED BY <1>1, <1>11, <2>1, <2>2 DEF ExpiredHasTick
<1>14. DroppedIsStuck'
  <2> SUFFICES ASSUME NEW r \in dropped, r \notin F
               PROVE  Expired(r)' /\ ~ TickPending(r)'
    BY <1>1 DEF DroppedIsStuck
  <2>1. r \in Slots /\ Expired(r) /\ ~ TickPending(r)
    BY DEF DroppedIsStuck, RtosTypeOK
  <2>2. timers'[r] = timers[r]
    BY <1>6, <2>1 DEF Expired, OneShots
  <2> QED BY <1>10, <2>1, <2>2 DEF Expired
<1> QED BY <1>7, <1>8, <1>9, <1>12, <1>13, <1>14

\* A message that finds no timer was not the one an expired slot waits for.
LEMMA InvReceiveNone ==
    ASSUME RtosInv, ReceiveOther \/ ReceiveStale, RtosTypeOK'
    PROVE  RtosInv'
<1> USE DEF RtosInv
<1>1. bus # <<>> /\ bus' = Tail(bus) /\ timers' = timers /\ dropped' = dropped
  BY DEF ReceiveOther, ReceiveStale
<1>2. /\ \A i \in DOMAIN bus' : i + 1 \in DOMAIN bus /\ bus'[i] = bus[i + 1]
      /\ \A j \in DOMAIN bus : j # 1 => j - 1 \in DOMAIN bus'
      /\ Head(bus) = bus[1] /\ 1 \in DOMAIN bus
  BY <1>1, TailProperties DEF RtosTypeOK
<1>3. Head(bus).ptr \notin Slots
  <2>1. CASE ReceiveOther
    BY <1>2, <2>1, TicksOfOccupied DEF ReceiveOther
  <2>2. CASE ReceiveStale
    <3> SUFFICES ASSUME Head(bus).ptr \in Slots PROVE FALSE
      OBVIOUS
    <3>1. PICK id \in LookupIds(timers, Head(bus)) : ~ Live(timers, id)
      BY <2>2 DEF ReceiveStale
    <3>2. timers[Head(bus).ptr].id = Head(bus).id
      BY <1>2 DEF TickPointsToOwner
    <3> QED BY <3>1, <3>2 DEF LookupIds, Live
  <2> QED BY <2>1, <2>2
<1>4. TickPointsToOwner' /\ DanglingIsDead' /\ UniqueIds'
  BY <1>1, <1>2 DEF TickPointsToOwner, DanglingIsDead, UniqueIds, Live
<1>5. \A r \in Slots : TickPending(r)' <=> TickPending(r)
  <2>1. \A r \in Slots : TickPending(r)' => TickPending(r)
    BY <1>2 DEF TickPending
  <2>2. ASSUME NEW r \in Slots, TickPending(r) PROVE TickPending(r)'
    <3>1. PICK j \in DOMAIN bus : bus[j].kind = "tick" /\ bus[j].ptr = r
      BY <2>2 DEF TickPending
    <3>2. j - 1 \in DOMAIN bus' /\ bus'[j - 1] = bus[j]
      BY <1>2, <1>3, <3>1 DEF RtosTypeOK
    <3> QED BY <3>1, <3>2 DEF TickPending
  <2> QED BY <2>1, <2>2
<1> QED BY <1>1, <1>4, <1>5
        DEF OneShots, ExpiredHasTick, DroppedIsStuck, Expired, RtosTypeOK

----------------------------------------------------------------------------
LEMMA InvInit == RtosInit => RtosInv
  BY BusAssumption, IdAssumption
  DEF RtosInit, RtosInv, RtosTypeOK, UniqueIds, TickPointsToOwner, DanglingIsDead,
      OneShots, ExpiredHasTick, DroppedIsStuck, Expired, TickPending, NoTimer

LEMMA InvNext ==
    ASSUME ~ SharedIds
    PROVE  RtosInv /\ [RtosNext]_rtosVars => RtosInv'
<1> SUFFICES ASSUME RtosInv, [RtosNext]_rtosVars PROVE RtosInv'
  OBVIOUS
<1>1. RtosTypeOK'
  BY TypeStep DEF RtosInv
<1>2. ASSUME NEW id \in TimerIds, Stop(id) PROVE RtosInv'
  BY <1>1, <1>2, FirstProperties, InvFree DEF Stop
<1>3. CASE UNCHANGED rtosVars
  BY <1>3 DEF rtosVars, RtosInv, RtosTypeOK, UniqueIds, TickPointsToOwner,
      DanglingIsDead, Live, OneShots, ExpiredHasTick, DroppedIsStuck, Expired,
      TickPending
<1> QED
  BY <1>1, <1>2, <1>3, InvStart, InvExpire, InvPost, InvReceiveTick, InvReceiveNone
  DEF RtosNext, RtosReceive

LEMMA Invariance == ASSUME ~ SharedIds PROVE RtosSpec => []RtosInv
  BY InvInit, InvNext, PTL DEF RtosSpec

\* An expired one-shot has its tick on the bus, or lost it to a full bus.
THEOREM ExpiredTimersAreReported ==
    ASSUME ~ SharedIds PROVE RtosSpec => []ExpiredHasTick
<1>1. RtosInv => ExpiredHasTick
  BY DEF RtosInv
<1> QED BY <1>1, Invariance, PTL

\* A pointer on the bus that does not dangle leads to the message's own timer.
THEOREM PointersAreOwned ==
    ASSUME ~ SharedIds PROVE RtosSpec => []TickPointsToOwner
<1>1. RtosInv => TickPointsToOwner
  BY DEF RtosInv
<1> QED BY <1>1, Invariance, PTL

\* A slot whose tick was lost is occupied for good.
THEOREM LostTicksStick ==
    ASSUME ~ SharedIds PROVE RtosSpec => []DroppedIsStuck
<1>1. RtosInv => DroppedIsStuck
  BY DEF RtosInv
<1> QED BY <1>1, Invariance, PTL

\* A tick whose timer was freed finds no slot, as long as the memory of a freed
\* timer with id 0 still holds that id.
LEMMA DanglingFindsNone ==
    ASSUME RtosInv, FreedReads \subseteq {0}, NEW s \in Slots, ReceiveTick(s)
    PROVE  Head(bus).ptr # Dangling
<1> SUFFICES ASSUME Head(bus).ptr = Dangling PROVE FALSE
  OBVIOUS
<1> USE DEF RtosInv
<1>1. /\ Head(bus) = bus[1] /\ 1 \in DOMAIN bus /\ Head(bus) \in Messages
      /\ Head(bus).kind = "tick"
  BY TailProperties DEF ReceiveTick, RtosTypeOK
<1>2. ~ Live(timers, Head(bus).id) /\ Head(bus).id \in Nat
  BY <1>1, TicksOfOccupied, IdAssumption DEF DanglingIsDead
<1>3. LookupIds(timers, Head(bus)) \subseteq {Head(bus).id}
  <2>1. Head(bus).ptr \notin Slots
    BY SlotAssumption DEF Dangling, Slots
  <2>2. CASE Head(bus).id > 0
    BY <2>2 DEF LookupIds
  <2>3. CASE Head(bus).id = 0
    BY <2>1, <2>3 DEF LookupIds
  <2> QED BY <1>2, <2>2, <2>3
<1>4. PICK id \in LookupIds(timers, Head(bus)) : s \in First(timers, id)
  BY DEF ReceiveTick, HandlerSlots
<1> QED BY <1>2, <1>3, <1>4, FirstProperties DEF Live

\* The tick of a stopped timer is without effect.
THEOREM StaleTicksAreHarmless ==
    ASSUME ~ SharedIds, FreedReads \subseteq {0}
    PROVE  RtosSpec => StaleTickHarmless
<1>1. RtosInv /\ [RtosNext]_rtosVars =>
        [RtosReceive /\ Head(bus).ptr = Dangling => timers' = timers]_rtosVars
  BY DanglingFindsNone DEF RtosReceive, ReceiveOther, ReceiveStale
<1> QED BY <1>1, Invariance, PTL DEF RtosSpec, StaleTickHarmless

\* The handler frees no one-shot that has not expired.
THEOREM FreedTimersHaveExpired ==
    ASSUME ~ SharedIds, FreedReads \subseteq {0}
    PROVE  RtosSpec => OnlyExpiredFreed
<1> DEFINE Step == \A s \in Slots :
        RtosReceive /\ timers[s] # NoTimer /\ timers'[s] = NoTimer
            => Expired(s) \/ timers[s].reload
<1>1. RtosInv /\ [RtosNext]_rtosVars => [Step]_rtosVars
  <2> SUFFICES ASSUME RtosInv, NEW s \in Slots, RtosReceive,
                      timers[s] # NoTimer, timers'[s] = NoTimer
               PROVE  Expired(s) \/ timers[s].reload
    OBVIOUS
  <2>1. PICK r \in Slots : ReceiveTick(r)
    BY DEF RtosReceive, ReceiveOther, ReceiveStale
  <2>2. r = s
    BY <2>1 DEF ReceiveTick, Handled, Freed, RtosInv, RtosTypeOK
  <2>3. Head(bus).ptr \in Slots
    <3>1. Head(bus) = bus[1] /\ 1 \in DOMAIN bus
      BY <2>1, TailProperties DEF ReceiveTick, RtosInv, RtosTypeOK
    <3> QED BY <2>1, <3>1, DanglingFindsNone, TicksOfOccupied DEF RtosInv
  <2>4. TickPending(s)
    BY <2>1, <2>2, <2>3, TickFindsItsTimer
  <2> QED BY <2>4 DEF RtosInv, OneShots, Expired
<1> QED BY <1>1, Invariance, PTL DEF RtosSpec, OnlyExpiredFreed

----------------------------------------------------------------------------
\* What Sys does to the table of timers, beyond the steps of RtosTimer.

\* Freeing slots leaves a table and a bus.
LEMMA TypeFree ==
    ASSUME RtosTypeOK, NEW S \in SUBSET Slots, StopSlots(S)
    PROVE  RtosTypeOK'
<1>1. bus' \in Seq(Messages) /\ Len(bus') = Len(bus)
  BY UnlinkedProperties DEF StopSlots, RtosTypeOK
<1> QED BY <1>1 DEF RtosTypeOK, StopSlots, Freed

\* Slots are freed and a timer started at once (timerAdvStart stops the
\* identical timer first; sys.wait frees none).
LEMMA InvRestart ==
    ASSUME RtosInv, NEW S \in SUBSET Slots, NEW id \in TimerIds, NEW n \in Int,
           StartOk(Freed(timers, S)), Fresh(Freed(timers, S), bus, id),
           timers' = Started(Freed(timers, S), NextTimerSlot(Freed(timers, S)), id, n),
           bus' = Unlinked(bus, S), dropped' = dropped \ S
    PROVE  /\ RtosInv'
           /\ \E s \in Slots :
                /\ s \in S \/ timers[s] = NoTimer
                /\ timers' = [r \in Slots |->
                      IF r = s
                      THEN [id |-> id, repeat |-> n, reload |-> n # 0, armed |-> TRUE]
                      ELSE IF r \in S THEN NoTimer ELSE timers[r]]
<1> USE DEF RtosInv
<1> DEFINE ts  == Freed(timers, S)
           new == [id |-> id, repeat |-> n, reload |-> n # 0, armed |-> TRUE]
<1>1. PICK s \in Slots : NextTimerSlot(ts) = {s} /\ ts[s].id = NoId
  BY FirstProperties DEF StartOk, NextTimerSlot
<1>2. s \in S \/ timers[s] = NoTimer
  BY <1>1, Occupied DEF Freed
<1>3. timers' = [r \in Slots |->
                    IF r = s THEN new ELSE IF r \in S THEN NoTimer ELSE timers[r]]
  BY <1>1 DEF Started, Freed
<1>4. /\ DOMAIN bus' = DOMAIN bus
      /\ \A i \in DOMAIN bus : /\ bus'[i].kind = bus[i].kind
                               /\ bus'[i].id = bus[i].id
                               /\ bus'[i].ptr = IF bus[i].ptr \in S THEN Dangling
                                                                   ELSE bus[i].ptr
      /\ bus' \in Seq(Messages) /\ Len(bus') = Len(bus)
  BY UnlinkedProperties DEF RtosTypeOK
<1>5. Dangling \notin Slots
  BY SlotAssumption DEF Dangling, Slots
<1>6. RtosTypeOK'
  <2>1. new \in Timer
    BY DEF Timer
  <2> QED BY <1>3, <1>4, <2>1 DEF RtosTypeOK, Started, Freed
<1>7. ~ Live(ts, id) /\ ~ OnBus(bus, id)
  BY DEF Fresh
<1>8. \A r \in Slots : r # s /\ r \notin S => timers[r].id # id
  BY <1>7 DEF Live, Freed
<1>9. id # NoId
  BY IdAssumption DEF NoId
<1>10. UniqueIds'
  BY <1>3, <1>8, <1>9 DEF UniqueIds, NoTimer
<1>11. \A i \in DOMAIN bus : bus'[i].ptr # s
  BY <1>2, <1>4, <1>5, TicksOfOccupied
<1>12. TickPointsToOwner'
  BY <1>3, <1>4, <1>5, <1>11 DEF TickPointsToOwner
<1>13. DanglingIsDead'
  <2> SUFFICES ASSUME NEW i \in DOMAIN bus, bus[i].kind = "tick",
                      bus'[i].ptr = Dangling, NEW r \in Slots,
                      timers'[r].id = bus[i].id
               PROVE  FALSE
    BY <1>4 DEF DanglingIsDead, Live
  <2>1. bus[i].id # NoId
    BY TicksOfOccupied
  <2>2. r # s
    BY <1>3, <1>7 DEF OnBus
  <2>3. r \notin S /\ timers[r].id = bus[i].id
    BY <1>3, <2>1, <2>2 DEF NoTimer
  <2>4. CASE bus[i].ptr = Dangling
    BY <2>3, <2>4 DEF DanglingIsDead, Live
  <2>5. CASE bus[i].ptr \in S
    BY <2>1, <2>3, <2>5 DEF TickPointsToOwner, UniqueIds
  <2> QED BY <1>4, <2>4, <2>5
<1>14. /\ \A r \in Slots : r # s /\ r \notin S => (TickPending(r) <=> TickPending(r)')
       /\ ~ TickPending(s)'
  BY <1>4, <1>5, <1>11 DEF TickPending
<1>15. OneShots'
  <2>1. new.armed /\ (~ new.reload => new.repeat = 0)
    OBVIOUS
  <2>2. timers'[s].armed /\ (~ timers'[s].reload => timers'[s].repeat = 0)
    BY <1>3, <2>1
  <2>3. \A r \in Slots : r # s => timers'[r] = IF r \in S THEN NoTimer ELSE timers[r]
    BY <1>3
  <2> QED BY <1>14, <2>2, <2>3 DEF OneShots
<1>16. ExpiredHasTick'
  BY <1>3, <1>14 DEF ExpiredHasTick, Expired
<1>17. DroppedIsStuck'
  <2>1. \A r \in dropped' : r \in Slots /\ r \in dropped /\ r \notin S
    BY DEF RtosTypeOK
  <2>2. \A r \in dropped' : r # s
    BY <1>2, <2>1 DEF DroppedIsStuck, Expired
  <2> QED BY <1>3, <1>14, <2>1, <2>2 DEF DroppedIsStuck, Expired
<1> QED BY <1>2, <1>3, <1>6, <1>10, <1>12, <1>13, <1>15, <1>16, <1>17
----------------------------------------------------------------------------
\* Operators of Sys.

LEMMA IdFacts ==
    /\ TaskIds \subseteq Nat /\ MsgIds \subseteq Nat /\ NoId \notin TimerIds
    /\ TaskIds \cap MsgIds = {} /\ TimerIds = TaskIds \cup MsgIds
    /\ \A id \in TimerIds : id < TASK_TIMER_ID_MAX <=> id \in TaskIds
    /\ \A id \in TimerIds : id > TASK_TIMER_ID_MAX <=> id \in MsgIds
  BY LimitAssumption, IdsAssumption DEF TaskIds, MsgIds, NoId

LEMMA WithoutValue ==
    ASSUME NEW f, NEW ids, NEW none
    PROVE  /\ DOMAIN Without(f, ids, none) = DOMAIN f
           /\ \A x \in DOMAIN f : Without(f, ids, none)[x] =
                                      IF x \in ids THEN none ELSE f[x]
  BY DEF Without

\* timerStop finds ids of callback timers, and their slots have such ids.
LEMMA Matches ==
    ASSUME NEW f, NEW a, NEW K \in FirstMatch(f, a)
    PROVE  K \in SUBSET MsgIds /\ K \subseteq TimersOf(f, a)
  BY DEF FirstMatch, TimersOf

LEMMA SlotsOf ==
    ASSUME NEW K
    PROVE  /\ SlotsOfIds(K) \in SUBSET Slots
           /\ \A s \in SlotsOfIds(K) : timers[s].id \in K
  BY FirstProperties DEF SlotsOfIds

\* A set of slots has a first one, so a search of the table finds what is there.
LEMMA Least ==
    ASSUME NEW n \in Nat, NEW T \in SUBSET (1 .. n), T # {}
    PROVE  \E x \in T : \A y \in T : x <= y
<1> DEFINE U == {1 .. x : x \in T}
<1>1. U \subseteq FiniteSubsetsOf(1 .. n) /\ U # {}
  <2>1. ASSUME NEW x \in T PROVE IsFiniteSet(1 .. x) /\ 1 .. x \subseteq 1 .. n
    BY FS_Interval
  <2> QED BY <2>1 DEF FiniteSubsetsOf
<1> HIDE DEF U
<1>2. PICK u \in U : \A v \in U : <<v, u>> \notin StrictSubsetOrdering(1 .. n)
  BY <1>1, FS_StrictSubsetOrderingWellFounded, WFMin
<1>3. PICK x \in T : u = 1 .. x
  BY DEF U
<1>4. ASSUME NEW y \in T, y < x PROVE FALSE
  <2>1. 1 .. y \in U /\ 1 .. y \subseteq 1 .. n /\ 1 .. x \subseteq 1 .. n
    BY DEF U
  <2>2. 1 .. y \subseteq 1 .. x /\ x \in 1 .. x /\ x \notin 1 .. y
    BY <1>4
  <2> QED BY <1>2, <1>3, <2>1, <2>2 DEF StrictSubsetOrdering
<1> QED BY <1>4

LEMMA FirstFinds ==
    ASSUME NEW ts, NEW id, NEW s \in Slots, ts[s].id = id
    PROVE  First(ts, id) # {}
<1> DEFINE T == {r \in Slots : ts[r].id = id}
<1>1. PICK r \in T : \A q \in T : r <= q
  <2>1. T \in SUBSET (1 .. SlotCount) /\ T # {} /\ SlotCount \in Nat
    BY SlotAssumption DEF Slots
  <2> HIDE DEF T
  <2> QED BY <2>1, Least
<1>2. r \in First(ts, id)
  BY <1>1, SlotAssumption DEF First, Slots
<1> QED BY <1>2

\* No id is live twice, so all slots of the ids are found.
LEMMA AllSlotsOf ==
    ASSUME RtosInv, NEW K \in SUBSET TimerIds
    PROVE  \A s \in Slots : s \in SlotsOfIds(K) <=> timers[s].id \in K
<1>1. ASSUME NEW s \in Slots, timers[s].id \in K PROVE s \in First(timers, timers[s].id)
  <2>1. timers[s].id # NoId
    BY <1>1, IdFacts
  <2>2. \A r \in Slots : timers[r].id = timers[s].id => r = s
    BY <2>1 DEF RtosInv, UniqueIds
  <2>3. \A r \in Slots : r < s => timers[r].id # timers[s].id
    BY <2>2, SlotAssumption DEF Slots
  <2> QED BY <2>3 DEF First
<1> QED BY <1>1, SlotsOf DEF SlotsOfIds

\* What timerAdvStart does: it frees the slots of the ids K of the identical
\* timer and gives the free id k to the callback.
LEMMA AdvStartEffect ==
    ASSUME SysTypeOK, RtosInv, ~ SharedIds, NEW f \in Callbacks, NEW n \in Int,
           NEW a \in Args \cup {NoArg}, NEW ok \in BOOLEAN, AdvStart(f, n, a, ok)
    PROVE  /\ RtosInv' /\ UNCHANGED <<taskTimerId, taskTimerPool>>
           /\ \E K \in FirstMatch(f, a), k \in MsgIds :
                /\ msgId' = k /\ k # cbTimer
                /\ k \in K \/ timerPool[k] = Nil
                /\ timerPool' = [Without(timerPool, K, Nil) EXCEPT ![k] = f]
                /\ para' = [Without(para, K, NoArg) EXCEPT
                                ![k] = IF ok /\ a # NoArg THEN a ELSE @]
                /\ \A s \in Slots :
                     /\ timers[s].id \in K => timers'[s].id \in {NoId, k}
                     /\ timers[s].id \notin K => \/ timers'[s] = timers[s]
                                                \/ /\ ok /\ timers[s] = NoTimer
                                                   /\ timers'[s].id = k
                /\ ok => Live(timers, k)'
                /\ ~ ok => MayFail \/ \A s \in Slots : timers[s].id \notin K \cup {NoId}
<1> USE DEF RtosInv
<1>1. PICK K \in FirstMatch(f, a) : \E id \in NextMsgId(Without(timerPool, K, Nil)) :
        LET S  == SlotsOfIds(K)
            ts == Freed(timers, S)
        IN  /\ Fresh(ts, bus, id) /\ id # cbTimer
            /\ IF ok THEN StartOk(ts) ELSE StartFails(ts)
            /\ msgId' = id
            /\ timerPool' = [Without(timerPool, K, Nil) EXCEPT ![id] = f]
            /\ para' = [Without(para, K, NoArg) EXCEPT ![id] = IF ok /\ a # NoArg THEN a ELSE @]
            /\ timers' = IF ok THEN Started(ts, NextTimerSlot(ts), id, n) ELSE ts
            /\ bus' = Unlinked(bus, S)
            /\ dropped' = dropped \ S
            /\ UNCHANGED <<taskTimerId, taskTimerPool>>
  BY DEF AdvStart
<1> DEFINE S  == SlotsOfIds(K)
           ts == Freed(timers, S)
<1>2. PICK k \in NextMsgId(Without(timerPool, K, Nil)) :
        /\ Fresh(ts, bus, k) /\ k # cbTimer
        /\ IF ok THEN StartOk(ts) ELSE StartFails(ts)
        /\ msgId' = k
        /\ timerPool' = [Without(timerPool, K, Nil) EXCEPT ![k] = f]
        /\ para' = [Without(para, K, NoArg) EXCEPT ![k] = IF ok /\ a # NoArg THEN a ELSE @]
        /\ timers' = IF ok THEN Started(ts, NextTimerSlot(ts), k, n) ELSE ts
        /\ bus' = Unlinked(bus, S)
        /\ dropped' = dropped \ S
        /\ UNCHANGED <<taskTimerId, taskTimerPool>>
  BY <1>1
<1>3. /\ k \in MsgIds /\ k \in TimerIds
      /\ k \in K \/ timerPool[k] = Nil
  BY <1>2, WithoutValue, IdFacts DEF NextMsgId, SysTypeOK
<1>4. /\ S \in SUBSET Slots
      /\ \A s \in Slots : s \in S <=> timers[s].id \in K
      /\ NoId \notin K
  BY AllSlotsOf, SlotsOf, Matches, IdFacts
<1> HIDE DEF S
<1>5. CASE ok
  <2>1. /\ RtosInv'
        /\ \E s \in Slots :
                /\ s \in S \/ timers[s] = NoTimer
                /\ timers' = [r \in Slots |->
                      IF r = s
                      THEN [id |-> k, repeat |-> n, reload |-> n # 0, armed |-> TRUE]
                      ELSE IF r \in S THEN NoTimer ELSE timers[r]]
    BY <1>2, <1>3, <1>4, <1>5, InvRestart
  <2>2. PICK s \in Slots :
                /\ s \in S \/ timers[s] = NoTimer
                /\ timers' = [r \in Slots |->
                      IF r = s
                      THEN [id |-> k, repeat |-> n, reload |-> n # 0, armed |-> TRUE]
                      ELSE IF r \in S THEN NoTimer ELSE timers[r]]
    BY <2>1
  <2>3. timers'[s].id = k
    BY <2>2
  <2>4. \A r \in Slots \ {s} : timers'[r] = IF r \in S THEN NoTimer ELSE timers[r]
    BY <2>2
  <2>5. \A r \in Slots :
             /\ timers[r].id \in K => timers'[r].id \in {NoId, k}
             /\ timers[r].id \notin K => \/ timers'[r] = timers[r]
                                        \/ /\ ok /\ timers[r] = NoTimer
                                           /\ timers'[r].id = k
    BY <1>4, <1>5, <2>2, <2>3, <2>4 DEF NoTimer
  <2>6. Live(timers, k)'
    BY <2>3 DEF Live
  <2> QED BY <1>2, <1>3, <1>5, <2>1, <2>5, <2>6
<1>6. CASE ~ ok
  <2>1. StopSlots(S)
    BY <1>2, <1>6 DEF StopSlots
  <2>2. RtosInv'
    BY <1>4, <2>1, TypeFree, InvFree
  <2>3. \A r \in Slots : timers'[r] = IF r \in S THEN NoTimer ELSE timers[r]
    BY <1>2, <1>6 DEF Freed
  <2>4. MayFail \/ \A s \in Slots : timers[s].id \notin K \cup {NoId}
    <3>1. CASE NextTimerSlot(ts) = {}
      <4>1. ASSUME NEW s \in Slots, timers[s].id \in K \cup {NoId} PROVE FALSE
        <5>1. ts[s].id = NoId
          BY <1>4, <4>1 DEF Freed, NoTimer
        <5> QED BY <3>1, <5>1, FirstFinds DEF NextTimerSlot
      <4> QED BY <4>1
    <3> QED BY <1>2, <1>6, <3>1 DEF StartFails
  <2>5. \A r \in Slots :
             /\ timers[r].id \in K => timers'[r].id \in {NoId, k}
             /\ timers[r].id \notin K => timers'[r] = timers[r]
    BY <1>4, <2>3 DEF NoTimer
  <2> QED BY <1>2, <1>3, <1>6, <2>2, <2>4, <2>5
<1> QED BY <1>5, <1>6
----------------------------------------------------------------------------
\* The inductive invariant of the waits.

\* sys.wait starts one-shots, so a tick of one ends it.
WaitsAreOneShot == \A s \in Slots :
    timers[s].id \in TaskIds => timers[s].repeat = 0 /\ ~ timers[s].reload

\* A task on the stack runs, and is there once.
StackRuns == \A i \in DOMAIN stack : stack[i] \in Tasks =>
    /\ status[stack[i]] = "run"
    /\ \A j \in DOMAIN stack : stack[j] = stack[i] => j = i

SysInv == /\ SysTypeOK /\ RtosInv
          /\ WaitOwnsTimer /\ WaitTimerHasWaiter
          /\ SubscribedIffWaiting /\ SnapshotWaits
          /\ WaitsAreOneShot /\ StackRuns

LEMMA ActorRuns ==
    ASSUME SysTypeOK, StackRuns, Running
    PROVE  /\ Actor \in Tasks \cup Fns \cup {Main}
           /\ Actor \in Tasks => /\ status[Actor] = "run"
                                 /\ \A i \in DOMAIN Tail(stack) : Tail(stack)[i] # Actor
           /\ \A i \in DOMAIN Tail(stack) : i + 1 \in DOMAIN stack /\ Tail(stack)[i] = stack[i + 1]
           /\ Tail(stack) \in Seq(Tasks \cup Fns \cup {Main})
<1>1. /\ stack \in Seq(Tasks \cup Fns \cup {Main}) /\ stack # <<>>
      /\ Actor = stack[1] /\ 1 \in DOMAIN stack
  BY DEF Running, Actor, SysTypeOK
<1>2. /\ \A i \in DOMAIN Tail(stack) : /\ i + 1 \in DOMAIN stack /\ i + 1 # 1
                                       /\ Tail(stack)[i] = stack[i + 1]
      /\ Tail(stack) \in Seq(Tasks \cup Fns \cup {Main})
  BY <1>1
<1> QED BY <1>1, <1>2 DEF StackRuns

\* The steps that leave the waits and their timers as they are.
TaskTimersKept == \A s \in Slots :
    timers[s].id \in TaskIds \/ timers'[s].id \in TaskIds =>
        /\ timers'[s].id = timers[s].id
        /\ timers'[s].repeat = timers[s].repeat
        /\ timers'[s].reload = timers[s].reload

WaitsKept ==
    /\ TaskTimersKept
    /\ \A t \in Tasks :
         /\ Waiting(t)' <=> Waiting(t)
         /\ Waiting(t) => /\ topics'[t] = topics[t] /\ timerid'[t] = timerid[t]
                          /\ taskTimerPool'[t] = taskTimerPool[t]
         /\ \A m \in Topics : t \in subscribers'[m] <=> t \in subscribers[m]
    /\ \A id \in TaskIds : Live(timers, id) => timerPool'[id] = timerPool[id]

LEMMA KeptBooks ==
    ASSUME SysInv, WaitsKept
    PROVE  /\ WaitOwnsTimer' /\ WaitTimerHasWaiter' /\ SubscribedIffWaiting'
           /\ WaitsAreOneShot'
           /\ (snapshot'.topic = snapshot.topic /\ snapshot'.left \subseteq snapshot.left
                  => SnapshotWaits')
<1> USE DEF SysInv
<1>1. \A t \in Tasks : Waiting(t) /\ timerid[t] # NoId => timerid[t] \in TaskIds
  BY DEF SysTypeOK
<1>2. \A id \in TaskIds : Live(timers, id) => Live(timers, id)'
  BY DEF Live, WaitsKept, TaskTimersKept
<1>3. WaitOwnsTimer'
  BY <1>1, <1>2 DEF WaitOwnsTimer, WaitsKept
<1>4. WaitTimerHasWaiter'
  BY DEF WaitTimerHasWaiter, WaitsOn, WaitsKept, TaskTimersKept
<1>5. SubscribedIffWaiting'
  BY DEF SubscribedIffWaiting, WaitsKept
<1>6. WaitsAreOneShot'
  BY DEF WaitsAreOneShot, WaitsKept, TaskTimersKept
<1>7. ASSUME snapshot'.topic = snapshot.topic, snapshot'.left \subseteq snapshot.left
      PROVE  SnapshotWaits'
  BY <1>7 DEF SnapshotWaits, WaitsKept
<1> QED BY <1>3, <1>4, <1>5, <1>6, <1>7

\* Most steps leave rtosVars alone, or concern callback timers only.
LEMMA SameTimersKept ==
    ASSUME UNCHANGED timers PROVE TaskTimersKept
  BY DEF TaskTimersKept

LEMMA ExpireKept ==
    ASSUME RtosTypeOK, NEW s \in Slots, Expire(s) PROVE TaskTimersKept
<1>1. timers' = [timers EXCEPT ![s].armed = timers[s].reload]
  BY DEF Expire
<1>2. timers[s] \in Timer
  BY Occupied DEF Expire, NoTimer
<1>3. \A r \in Slots : /\ timers'[r].id = timers[r].id
                       /\ timers'[r].repeat = timers[r].repeat
                       /\ timers'[r].reload = timers[r].reload
  BY <1>1, <1>2 DEF RtosTypeOK, Timer
<1> QED BY <1>3 DEF TaskTimersKept

LEMMA StopKept ==
    ASSUME RtosInv, NEW K \in SUBSET MsgIds, StopSlots(SlotsOfIds(K))
    PROVE  TaskTimersKept /\ RtosInv'
<1>1. \A s \in SlotsOfIds(K) : timers[s].id \notin TaskIds
  BY SlotsOf, IdFacts
<1>2. NoTimer.id \notin TaskIds
  BY IdFacts DEF NoTimer
<1>3. \A s \in Slots : timers'[s] = IF s \in SlotsOfIds(K) THEN NoTimer ELSE timers[s]
  BY DEF StopSlots, Freed
<1>4. TaskTimersKept
  BY <1>1, <1>2, <1>3 DEF TaskTimersKept
<1>5. RtosInv'
  BY SlotsOf, TypeFree, InvFree DEF RtosInv
<1> QED BY <1>4, <1>5

LEMMA AdvStartKept ==
    ASSUME SysTypeOK, RtosInv, ~ SharedIds, NEW f \in Callbacks, NEW n \in Int,
           NEW a \in Args \cup {NoArg}, NEW ok \in BOOLEAN, AdvStart(f, n, a, ok)
    PROVE  /\ TaskTimersKept /\ RtosInv' /\ UNCHANGED <<taskTimerId, taskTimerPool>>
           /\ \A id \in TaskIds : timerPool'[id] = timerPool[id]
           /\ timerPool' \in [TimerIds -> Tasks \cup Callbacks \cup {Nil}]
           /\ para' \in [TimerIds -> Args \cup {NoArg}]
           /\ msgId' \in MsgIds
<1>1. PICK K \in FirstMatch(f, a), k \in MsgIds :
                /\ msgId' = k /\ k # cbTimer
                /\ k \in K \/ timerPool[k] = Nil
                /\ timerPool' = [Without(timerPool, K, Nil) EXCEPT ![k] = f]
                /\ para' = [Without(para, K, NoArg) EXCEPT
                                ![k] = IF ok /\ a # NoArg THEN a ELSE @]
                /\ \A s \in Slots :
                     /\ timers[s].id \in K => timers'[s].id \in {NoId, k}
                     /\ timers[s].id \notin K => \/ timers'[s] = timers[s]
                                                \/ /\ ok /\ timers[s] = NoTimer
                                                   /\ timers'[s].id = k
  BY AdvStartEffect
<1>2. K \in SUBSET MsgIds
  BY Matches
<1>3. TaskTimersKept
  <2>1. NoId \notin TaskIds /\ k \notin TaskIds /\ K \cap TaskIds = {}
    BY <1>2, IdFacts
  <2>2. NoTimer.id = NoId
    BY DEF NoTimer
  <2>3. ASSUME NEW s \in Slots,
               timers[s].id \in TaskIds \/ timers'[s].id \in TaskIds
        PROVE  timers'[s] = timers[s]
    BY <1>1, <2>1, <2>2, <2>3
  <2> QED BY <2>3 DEF TaskTimersKept
<1>4. /\ Without(timerPool, K, Nil) \in [TimerIds -> Tasks \cup Callbacks \cup {Nil}]
      /\ \A id \in TaskIds : Without(timerPool, K, Nil)[id] = timerPool[id]
      /\ Without(para, K, NoArg) \in [TimerIds -> Args \cup {NoArg}]
  BY <1>2, IdFacts DEF Without, SysTypeOK
<1>5. \A id \in TaskIds : timerPool'[id] = timerPool[id]
  BY <1>1, <1>4, IdFacts
<1>6. /\ timerPool' \in [TimerIds -> Tasks \cup Callbacks \cup {Nil}]
      /\ para' \in [TimerIds -> Args \cup {NoArg}]
  BY <1>1, <1>4, IdFacts
<1>7. RtosInv' /\ UNCHANGED <<taskTimerId, taskTimerPool>>
  BY AdvStartEffect
<1> QED BY <1>1, <1>3, <1>5, <1>6, <1>7
----------------------------------------------------------------------------
\* The steps of the invariant, one lemma per group of actions.

LEMMA SysInitInv == Init => SysInv
<1> SUFFICES ASSUME Init PROVE SysInv
  OBVIOUS
<1>1. RtosInv
  BY InvInit DEF Init
<1>2. \A s \in Slots : timers[s].id \notin TaskIds
  BY IdFacts DEF Init, RtosInit, NoTimer
<1>3. SysTypeOK
  BY <1>1, LimitAssumption, IdsAssumption
  DEF Init, SysTypeOK, RtosInv, TaskIds, MsgIds, Idle
<1>4. \A t \in Tasks : status[t] = "none"
  BY DEF Init
<1>5. WaitOwnsTimer /\ WaitTimerHasWaiter /\ WaitsAreOneShot
  BY <1>2, <1>4 DEF WaitOwnsTimer, WaitTimerHasWaiter, WaitsAreOneShot, Waiting
<1>6. SubscribedIffWaiting /\ SnapshotWaits
  BY <1>4 DEF SubscribedIffWaiting, SnapshotWaits, Waiting, Init, Idle
<1>7. StackRuns
  BY NamesAssumption DEF StackRuns, Init
<1> QED BY <1>1, <1>3, <1>5, <1>6, <1>7 DEF SysInv

LEMMA RebootInv == Reboot => SysInv'
<1>1. Reboot => Init'
  BY DEF Reboot, Init, RtosInit
<1>2. Init' => SysInv'
  BY SysInitInv, PTL
<1> QED BY <1>1, <1>2

\* Nothing that the invariant of the timers is about has moved.
LEMMA SameRtos == RtosInv /\ UNCHANGED rtosVars => RtosInv'
  BY DEF rtosVars, RtosInv, RtosTypeOK, UniqueIds, TickPointsToOwner,
      DanglingIsDead, Live, OneShots, ExpiredHasTick, DroppedIsStuck, Expired,
      TickPending

LEMMA PublishInv ==
    ASSUME SysInv, NEW m \in Topics,
           Publish(m) \/ \E f \in Fns : Subscribe(m, f) \/ Unsubscribe(m, f)
    PROVE  SysInv'
<1>1. /\ UNCHANGED <<rtosVars, poolVars, snapshot, taskVars, stack, cbTimer>>
      /\ RtosInv'
  BY SameRtos DEF SysInv, Publish, Subscribe, Unsubscribe
<1>2. /\ subscribers' \in [Topics -> SUBSET (Tasks \cup Fns)]
      /\ \A t \in Tasks, p \in Topics : t \in subscribers'[p] <=> t \in subscribers[p]
  <2>1. subscribers \in [Topics -> SUBSET (Tasks \cup Fns)] /\ Tasks \cap Fns = {}
    BY NamesAssumption DEF SysInv, SysTypeOK
  <2>2. CASE Publish(m)
    BY <2>1, <2>2 DEF Publish
  <2>3. CASE \E f \in Fns : Subscribe(m, f)
    BY <2>1, <2>3 DEF Subscribe
  <2>4. CASE \E f \in Fns : Unsubscribe(m, f)
    BY <2>1, <2>4 DEF Unsubscribe, Unsubscribed
  <2> QED BY <2>2, <2>3, <2>4
<1>3. messageQueue' \in Seq(Topics)
  <2>1. messageQueue \in Seq(Topics)
    BY DEF SysInv, SysTypeOK
  <2>2. messageQueue' = Append(messageQueue, m) \/ messageQueue' = messageQueue
    BY DEF Publish, Subscribe, Unsubscribe
  <2> QED BY <2>1, <2>2
<1>4. SysTypeOK'
  BY <1>1, <1>2, <1>3 DEF SysInv, SysTypeOK, RtosInv, poolVars, taskVars
<1>5. WaitsKept
  BY <1>1, <1>2, SameTimersKept DEF WaitsKept, Waiting, rtosVars, poolVars, taskVars
<1>6. StackRuns'
  BY <1>1 DEF SysInv, StackRuns, taskVars
<1> QED BY <1>1, <1>4, <1>5, <1>6, KeptBooks DEF SysInv

LEMMA TaskInitInv ==
    ASSUME SysInv, NEW t \in Tasks, TaskInit(t)
    PROVE  SysInv'
<1>1. /\ UNCHANGED <<rtosVars, poolVars, queueVars, topics, timerid, cbTimer>>
      /\ RtosInv'
  BY SameRtos DEF SysInv, TaskInit
<1>2. /\ status[t] = "none"
      /\ status' = [status EXCEPT ![t] = "run"]
      /\ status \in [Tasks -> {"none", "run", "wait", "dead"}]
  BY DEF TaskInit, SysInv, SysTypeOK
<1>3. /\ stack' \in Seq(Tasks \cup Fns \cup {Main})
      /\ \A i \in DOMAIN stack' : \/ i = 1 /\ stack'[i] = t
                                  \/ /\ i # 1 /\ i - 1 \in DOMAIN stack
                                     /\ stack'[i] = stack[i - 1]
  BY DEF TaskInit, SysInv, SysTypeOK
<1>4. SysTypeOK'
  BY <1>1, <1>2, <1>3
  DEF SysInv, SysTypeOK, RtosInv, poolVars, queueVars
<1>5. WaitsKept
  BY <1>1, <1>2, SameTimersKept
  DEF WaitsKept, Waiting, rtosVars, poolVars, queueVars
<1>6. StackRuns'
  <2>1. \A i \in DOMAIN stack : stack[i] # t
    BY <1>2 DEF SysInv, StackRuns
  <2>2. \A i \in DOMAIN stack : stack[i] \in Tasks => status'[stack[i]] = "run"
    BY <1>2 DEF SysInv, StackRuns
  <2>3. ASSUME NEW i \in DOMAIN stack', stack'[i] \in Tasks
        PROVE  status'[stack'[i]] = "run"
    <3>1. status'[t] = "run"
      BY <1>2
    <3>2. stack'[i] = t \/ (i - 1 \in DOMAIN stack /\ stack'[i] = stack[i - 1])
      BY <1>3
    <3> QED BY <2>2, <2>3, <3>1, <3>2
  <2>4. ASSUME NEW i \in DOMAIN stack', NEW j \in DOMAIN stack',
               stack'[i] \in Tasks, stack'[j] = stack'[i]
        PROVE  j = i
    <3>1. CASE i = 1 \/ j = 1
      BY <1>3, <2>1, <2>4, <3>1
    <3>2. CASE i # 1 /\ j # 1
      <4>1. /\ i - 1 \in DOMAIN stack /\ stack'[i] = stack[i - 1]
            /\ j - 1 \in DOMAIN stack /\ stack'[j] = stack[j - 1]
        BY <1>3, <3>2
      <4>2. i - 1 = j - 1
        BY <2>4, <4>1 DEF SysInv, StackRuns
      <4>3. DOMAIN stack' \subseteq Int
        BY <1>3
      <4> QED BY <4>2, <4>3
    <3> QED BY <3>1, <3>2
  <2> QED BY <2>3, <2>4 DEF StackRuns
<1> QED BY <1>1, <1>4, <1>5, <1>6, KeptBooks DEF SysInv, queueVars

LEMMA NextIds == SysTypeOK => NextTaskTimerId \in TaskIds
  BY LimitAssumption DEF SysTypeOK, NextTaskTimerId, TaskIds

LEMMA WithoutTypes ==
    ASSUME SysTypeOK, NEW K
    PROVE  /\ Without(timerPool, K, Nil) \in [TimerIds -> Tasks \cup Callbacks \cup {Nil}]
           /\ Without(para, K, NoArg) \in [TimerIds -> Args \cup {NoArg}]
  BY DEF SysTypeOK, Without

\* The actor leaves the stack, and what becomes of it concerns no other task.
LEMMA PopRuns ==
    ASSUME SysTypeOK, StackRuns, Running, stack' = Tail(stack),
           \A u \in Tasks : u # Actor => status'[u] = status[u]
    PROVE  StackRuns' /\ stack' \in Seq(Tasks \cup Fns \cup {Main})
<1>1. /\ stack' \in Seq(Tasks \cup Fns \cup {Main})
      /\ \A i \in DOMAIN stack' : i + 1 \in DOMAIN stack /\ stack'[i] = stack[i + 1]
      /\ Actor \in Tasks => \A i \in DOMAIN stack' : stack'[i] # Actor
  BY ActorRuns
<1>2. ASSUME NEW i \in DOMAIN stack', stack'[i] \in Tasks
      PROVE  status'[stack'[i]] = "run"
  <2>1. stack'[i] # Actor /\ status[stack'[i]] = "run"
    BY <1>1, <1>2 DEF StackRuns
  <2> QED BY <1>2, <2>1
<1>3. ASSUME NEW i \in DOMAIN stack', NEW j \in DOMAIN stack',
             stack'[i] \in Tasks, stack'[j] = stack'[i]
      PROVE  j = i
  <2>1. i + 1 = j + 1
    BY <1>1, <1>3 DEF StackRuns
  <2>2. DOMAIN stack' \subseteq Int
    BY <1>1
  <2> QED BY <2>1, <2>2
<1> QED BY <1>1, <1>2, <1>3 DEF StackRuns

LEMMA WaitFailsInv ==
    ASSUME SysInv, ~ SharedIds, NEW t \in Tasks, WaitFails(t)
    PROVE  SysInv'
<1> DEFINE id == NextTaskTimerId
<1>1. /\ UNCHANGED <<rtosVars, queueVars, taskVars, stack, cbTimer, msgId, para>>
      /\ RtosInv'
  BY SameRtos DEF SysInv, WaitFails, TakeTaskTimer
<1>2. id \in TaskIds /\ id \in TimerIds
  BY NextIds, IdFacts DEF SysInv
<1>3. /\ taskTimerId' = id
      /\ taskTimerPool' = [taskTimerPool EXCEPT ![t] = id]
      /\ timerPool' = [timerPool EXCEPT ![id] = t]
      /\ ~ Live(timers, id) /\ status[t] = "run"
  BY ActorRuns DEF SysInv, WaitFails, TakeTaskTimer, Fresh
<1> HIDE DEF id
<1>4. /\ taskTimerPool' \in [Tasks -> TaskIds \cup {NoId}]
      /\ timerPool' \in [TimerIds -> Tasks \cup Callbacks \cup {Nil}]
      /\ \A u \in Tasks \ {t} : taskTimerPool'[u] = taskTimerPool[u]
      /\ \A k \in TaskIds \ {id} : timerPool'[k] = timerPool[k]
  BY <1>2, <1>3, IdFacts DEF SysInv, SysTypeOK
<1>5. SysTypeOK'
  BY <1>1, <1>2, <1>3, <1>4
  DEF SysInv, SysTypeOK, RtosInv, queueVars, taskVars
<1>6. WaitsKept
  BY <1>1, <1>3, <1>4, SameTimersKept
  DEF WaitsKept, Waiting, rtosVars, queueVars, taskVars
<1>7. StackRuns'
  BY <1>1 DEF SysInv, StackRuns, taskVars
<1> QED BY <1>1, <1>5, <1>6, <1>7, KeptBooks DEF SysInv, queueVars

LEMMA TimerStopInv ==
    ASSUME SysInv, NEW K \in SUBSET MsgIds, TimerStop(K)
    PROVE  SysInv'
<1>1. UNCHANGED <<taskTimerId, msgId, taskTimerPool, queueVars, taskVars, stack,
                  cbTimer>>
  BY DEF TimerStop
<1>2. /\ timerPool' = Without(timerPool, K, Nil)
      /\ para' = Without(para, K, NoArg)
      /\ StopSlots(SlotsOfIds(K))
  BY DEF TimerStop, ForgetTimers
<1>3. TaskTimersKept /\ RtosInv'
  BY <1>2, StopKept DEF SysInv
<1>4. SysTypeOK'
  BY <1>1, <1>2, <1>3, WithoutTypes
  DEF SysInv, SysTypeOK, RtosInv, queueVars, taskVars
<1>5. \A id \in TaskIds : timerPool'[id] = timerPool[id]
  BY <1>2, IdFacts DEF SysInv, SysTypeOK, Without
<1>6. WaitsKept
  BY <1>1, <1>3, <1>5 DEF WaitsKept, Waiting, queueVars, taskVars
<1>7. StackRuns'
  BY <1>1 DEF SysInv, StackRuns, taskVars
<1> QED BY <1>1, <1>3, <1>4, <1>6, <1>7, KeptBooks DEF SysInv, queueVars

LEMMA TimerStartInv ==
    ASSUME SysInv, ~ SharedIds, NEW f \in Fns, NEW n \in Repeats,
           NEW a \in Args \cup {NoArg}, TimerStart(f, n, a)
    PROVE  SysInv'
<1>1. UNCHANGED <<queueVars, taskVars, stack, cbTimer>>
  BY DEF TimerStart
<1>2. PICK ok \in BOOLEAN : AdvStart(f, n, a, ok)
  BY DEF TimerStart
<1>3. /\ TaskTimersKept /\ RtosInv' /\ UNCHANGED <<taskTimerId, taskTimerPool>>
      /\ \A id \in TaskIds : timerPool'[id] = timerPool[id]
      /\ timerPool' \in [TimerIds -> Tasks \cup Callbacks \cup {Nil}]
      /\ para' \in [TimerIds -> Args \cup {NoArg}]
      /\ msgId' \in MsgIds
  BY <1>2, RepeatAssumption, AdvStartKept DEF SysInv, Callbacks
<1>4. msgId' \in TASK_TIMER_ID_MAX .. MSG_TIMER_ID_MAX
  BY <1>3, LimitAssumption DEF MsgIds
<1>5. SysTypeOK'
  BY <1>1, <1>3, <1>4 DEF SysInv, SysTypeOK, RtosInv, queueVars, taskVars
<1>6. WaitsKept
  BY <1>1, <1>3 DEF WaitsKept, Waiting, queueVars, taskVars
<1>7. StackRuns'
  BY <1>1 DEF SysInv, StackRuns, taskVars
<1> QED BY <1>1, <1>3, <1>5, <1>6, <1>7, KeptBooks DEF SysInv, queueVars

LEMMA ReturnInv ==
    ASSUME SysInv, Return
    PROVE  SysInv'
<1>1. /\ UNCHANGED <<rtosVars, taskTimerId, msgId, timerPool, taskTimerPool,
                     queueVars, topics, timerid>>
      /\ RtosInv' /\ Running /\ stack' = Tail(stack)
  BY SameRtos DEF SysInv, Return
<1>2. /\ status' = [t \in Tasks |-> IF t = Actor THEN "dead" ELSE status[t]]
      /\ Actor \in Tasks => status[Actor] = "run"
      /\ status \in [Tasks -> {"none", "run", "wait", "dead"}]
  BY ActorRuns DEF SysInv, SysTypeOK, Return
<1>3. para' \in [TimerIds -> Args \cup {NoArg}] /\ cbTimer' \in MsgIds \cup {NoId}
  BY WithoutTypes DEF SysInv, SysTypeOK, Return
<1>4. StackRuns' /\ stack' \in Seq(Tasks \cup Fns \cup {Main})
  BY <1>1, <1>2, PopRuns DEF SysInv
<1>5. status' \in [Tasks -> {"none", "run", "wait", "dead"}]
  BY <1>2
<1>6. SysTypeOK'
  BY <1>1, <1>3, <1>4, <1>5 DEF SysInv, SysTypeOK, RtosInv, queueVars
<1>7. WaitsKept
  BY <1>1, <1>2, SameTimersKept DEF WaitsKept, Waiting, rtosVars, queueVars
<1> QED BY <1>1, <1>4, <1>6, <1>7, KeptBooks DEF SysInv, queueVars

LEMMA TaskFailsInv ==
    ASSUME SysInv, ~ SharedIds, NEW t \in Tasks, TaskFails(t)
    PROVE  SysInv'
<1>1. /\ UNCHANGED <<queueVars, topics, timerid, cbTimer>>
      /\ Running /\ Actor = t /\ stack' = Tail(stack)
      /\ status' = [status EXCEPT ![t] = "dead"]
  BY DEF TaskFails
<1>2. PICK a \in Args, ok \in BOOLEAN : AdvStart(AssertFn, 0, a, ok)
  BY DEF TaskFails
<1>3. /\ TaskTimersKept /\ RtosInv' /\ UNCHANGED <<taskTimerId, taskTimerPool>>
      /\ \A id \in TaskIds : timerPool'[id] = timerPool[id]
      /\ timerPool' \in [TimerIds -> Tasks \cup Callbacks \cup {Nil}]
      /\ para' \in [TimerIds -> Args \cup {NoArg}]
      /\ msgId' \in MsgIds
  BY <1>2, AdvStartKept DEF SysInv, Callbacks
<1>4. msgId' \in TASK_TIMER_ID_MAX .. MSG_TIMER_ID_MAX
  BY <1>3, LimitAssumption DEF MsgIds
<1>5. /\ status[t] = "run"
      /\ status' \in [Tasks -> {"none", "run", "wait", "dead"}]
      /\ \A u \in Tasks : status'[u] = IF u = t THEN "dead" ELSE status[u]
  BY <1>1, ActorRuns DEF SysInv, SysTypeOK
<1>6. StackRuns' /\ stack' \in Seq(Tasks \cup Fns \cup {Main})
  BY <1>1, <1>5, PopRuns DEF SysInv
<1>7. SysTypeOK'
  BY <1>1, <1>3, <1>4, <1>5, <1>6 DEF SysInv, SysTypeOK, RtosInv, queueVars
<1>8. WaitsKept
  BY <1>1, <1>3, <1>5 DEF WaitsKept, Waiting, queueVars
<1> QED BY <1>1, <1>3, <1>6, <1>7, <1>8, KeptBooks DEF SysInv, queueVars

LEMMA DispatchInv ==
    ASSUME SysInv, DispatchNext \/ \E f \in Fns : DispatchFn(f)
    PROVE  SysInv'
<1>1. /\ UNCHANGED <<rtosVars, poolVars, subscribers, taskVars, cbTimer>>
      /\ RtosInv' /\ Scheduler
  BY SameRtos DEF SysInv, DispatchNext, DispatchFn, Calls
<1>2. WaitsKept
  BY <1>1, SameTimersKept DEF WaitsKept, Waiting, rtosVars, poolVars, taskVars
<1>3. CASE DispatchNext
  <2>1. /\ messageQueue' = Tail(messageQueue) /\ messageQueue \in Seq(Topics)
        /\ messageQueue # <<>> /\ UNCHANGED stack
        /\ snapshot' = [topic |-> Head(messageQueue),
                        left |-> subscribers[Head(messageQueue)]]
        /\ subscribers \in [Topics -> SUBSET (Tasks \cup Fns)]
    BY <1>3 DEF DispatchNext, SysInv, SysTypeOK
  <2>2. messageQueue' \in Seq(Topics) /\ Head(messageQueue) \in Topics
    BY <2>1
  <2>3. /\ snapshot' \in [topic : Topics \cup {Nil}, left : SUBSET (Tasks \cup Fns)]
        /\ snapshot'.topic = Head(messageQueue)
        /\ snapshot'.left = subscribers[Head(messageQueue)]
    BY <2>1, <2>2
  <2>4. SysTypeOK'
    BY <1>1, <2>1, <2>2, <2>3 DEF SysInv, SysTypeOK, RtosInv, poolVars, taskVars
  <2>5. SnapshotWaits'
    BY <1>1, <2>2, <2>3 DEF SysInv, SubscribedIffWaiting, SnapshotWaits, Waiting, taskVars
  <2>6. StackRuns'
    BY <1>1, <2>1 DEF SysInv, StackRuns, taskVars
  <2> QED BY <1>1, <1>2, <2>4, <2>5, <2>6, KeptBooks DEF SysInv
<1>4. ASSUME NEW f \in Fns, DispatchFn(f) PROVE SysInv'
  <2>1. /\ snapshot' = [snapshot EXCEPT !.left = @ \ {f}]
        /\ stack' = <<f>> /\ UNCHANGED messageQueue
        /\ snapshot \in [topic : Topics \cup {Nil}, left : SUBSET (Tasks \cup Fns)]
    BY <1>4 DEF DispatchFn, Calls, SysInv, SysTypeOK
  <2>2. /\ snapshot' \in [topic : Topics \cup {Nil}, left : SUBSET (Tasks \cup Fns)]
        /\ snapshot'.topic = snapshot.topic
        /\ snapshot'.left \subseteq snapshot.left
    BY <2>1
  <2>3. SysTypeOK'
    BY <1>1, <2>1, <2>2 DEF SysInv, SysTypeOK, RtosInv, poolVars, taskVars
  <2>4. StackRuns'
    BY <2>1, NamesAssumption DEF StackRuns
  <2> QED BY <1>1, <1>2, <2>2, <2>3, <2>4, KeptBooks DEF SysInv
<1> QED BY <1>3, <1>4

\* The handler frees the slot of a one-shot and leaves the id of any other.
LEMMA TickIds ==
    ASSUME RtosInv, NEW s \in Slots, ReceiveTick(s)
    PROVE  /\ \A r \in Slots : r # s => timers'[r] = timers[r]
           /\ timers'[s].id = IF timers[s].repeat = 0 THEN NoId ELSE timers[s].id
<1>1. timers' = Handled(timers, s)
  BY DEF ReceiveTick
<1>2. \A r \in Slots : r # s => timers'[r] = timers[r]
  BY <1>1 DEF Handled, Freed, RtosInv, RtosTypeOK
<1>3. CASE timers[s].repeat = 0
  BY <1>1, <1>2, <1>3 DEF Handled, Freed, NoTimer
<1>4. CASE timers[s].repeat > 0
  <2>1. timers[s] # NoTimer /\ timers[s] \in Timer
    BY <1>4, Occupied DEF NoTimer, RtosInv
  <2> QED BY <1>1, <1>2, <1>4, <2>1 DEF Handled, RtosInv, RtosTypeOK, Timer
<1>5. CASE timers[s].repeat # 0 /\ ~ (timers[s].repeat > 0)
  BY <1>1, <1>2, <1>5 DEF Handled
<1> QED BY <1>3, <1>4, <1>5

\* A tick of a callback timer leaves the timers of sys.wait alone.
LEMMA TickKept ==
    ASSUME SysInv, NEW s \in Slots, ReceiveTick(s), timers[s].id \notin TaskIds
    PROVE  TaskTimersKept
  BY TickIds, IdFacts DEF TaskTimersKept, SysInv

\* While sys.wait waits, its timer has an entry in timerPool.
LEMMA WaitTimersPooled ==
    ASSUME SysInv, NEW s \in Slots, timers[s].id \in TaskIds
    PROVE  /\ timerPool[timers[s].id] \in Tasks
           /\ WaitsOn(timerPool[timers[s].id], timers[s].id)
           /\ taskTimerPool[timerPool[timers[s].id]] = timers[s].id
<1>1. PICK t \in Tasks : WaitsOn(t, timers[s].id)
  BY DEF SysInv, WaitTimerHasWaiter
<1> QED BY <1>1, IdFacts DEF SysInv, WaitsOn, WaitOwnsTimer

LEMMA ReceiveQuietInv ==
    ASSUME SysInv, ~ SharedIds,
           ReceiveNothing \/ (\E f \in Fns : ReceiveDriver(f)) \/ Daemon
    PROVE  SysInv'
<1>1. RtosInv'
  BY InvNext DEF SysInv, ReceiveNothing, ReceiveDriver, Daemon, RtosNext, RtosReceive
<1>2. TaskTimersKept
  <2>1. CASE \E s \in Slots : ReceiveTick(s) /\ timerPool[timers[s].id] = Nil
    BY <2>1, WaitTimersPooled, TickKept, NamesAssumption
  <2>2. CASE \E s \in Slots : Expire(s)
    BY <2>2, ExpireKept DEF SysInv, RtosInv
  <2>3. CASE UNCHANGED timers
    BY <2>3, SameTimersKept
  <2> QED BY <2>1, <2>2, <2>3
      DEF ReceiveNothing, ReceiveDriver, Daemon, ReceiveOther, ReceiveStale, Post
<1>3. /\ UNCHANGED <<poolVars, queueVars, taskVars, cbTimer>>
      /\ UNCHANGED stack \/ \E f \in Fns : stack' = <<f>>
  BY DEF ReceiveNothing, ReceiveDriver, Daemon, sysVars
<1>4. StackRuns' /\ stack' \in Seq(Tasks \cup Fns \cup {Main})
  <2>1. CASE UNCHANGED stack
    BY <1>3, <2>1 DEF SysInv, SysTypeOK, StackRuns, taskVars
  <2>2. ASSUME NEW f \in Fns, stack' = <<f>>
        PROVE  StackRuns' /\ stack' \in Seq(Tasks \cup Fns \cup {Main})
    BY <2>2, NamesAssumption DEF StackRuns
  <2> QED BY <1>3, <2>1, <2>2
<1>5. SysTypeOK'
  BY <1>1, <1>3, <1>4 DEF SysInv, SysTypeOK, RtosInv, poolVars, queueVars, taskVars
<1>6. WaitsKept
  BY <1>2, <1>3 DEF WaitsKept, Waiting, poolVars, queueVars, taskVars
<1> QED BY <1>1, <1>3, <1>4, <1>5, <1>6, KeptBooks DEF SysInv, queueVars

LEMMA ReceiveTimerInv ==
    ASSUME SysInv, ~ SharedIds, NEW s \in Slots, ReceiveTimer(s)
    PROVE  SysInv'
<1> DEFINE id == timers[s].id
<1>1. /\ id > TASK_TIMER_ID_MAX /\ timerPool[id] \in Fns
      /\ ReceiveTick(s) /\ stack' = <<timerPool[id]>>
      /\ UNCHANGED <<taskTimerId, msgId, taskTimerPool, para, queueVars, taskVars>>
  BY DEF ReceiveTimer
<1>2. id \in MsgIds
  <2>1. id # NoId
    BY <1>1, LimitAssumption DEF NoId
  <2>2. id \in TimerIds
    BY <2>1, Occupied DEF SysInv, RtosInv
  <2> QED BY <1>1, <2>2, IdFacts
<1> HIDE DEF id
<1>3. RtosInv'
  BY <1>1, InvNext DEF SysInv, RtosNext, RtosReceive
<1>4. TaskTimersKept
  BY <1>1, <1>2, TickKept, IdFacts DEF id
<1>5. timerPool' = timerPool \/ timerPool' = [timerPool EXCEPT ![id] = Nil]
  BY DEF ReceiveTimer, id
<1>6. /\ timerPool' \in [TimerIds -> Tasks \cup Callbacks \cup {Nil}]
      /\ \A k \in TaskIds : timerPool'[k] = timerPool[k]
  BY <1>2, <1>5, IdFacts DEF SysInv, SysTypeOK
<1>7. cbTimer' \in MsgIds \cup {NoId}
  <2>1. cbTimer' = id \/ cbTimer' = NoId
    BY DEF ReceiveTimer, id
  <2> QED BY <1>2, <2>1
<1>8. stack' \in Seq(Tasks \cup Fns \cup {Main}) /\ StackRuns'
  BY <1>1, NamesAssumption DEF StackRuns
<1>9. SysTypeOK'
  BY <1>1, <1>3, <1>6, <1>7, <1>8 DEF SysInv, SysTypeOK, RtosInv, queueVars, taskVars
<1>10. WaitsKept
  BY <1>1, <1>4, <1>6 DEF WaitsKept, Waiting, queueVars, taskVars
<1> QED BY <1>1, <1>3, <1>8, <1>9, <1>10, KeptBooks DEF SysInv, queueVars

\* A running task subscribes and is suspended, for a message or its timer.
LEMMA SuspendBooks ==
    ASSUME SysInv, Running, NEW t \in Tasks, Actor = t, NEW S \in SUBSET Topics,
           NEW id \in TaskIds \cup {NoId}, Suspend(t, S, id), UNCHANGED snapshot
    PROVE  /\ status[t] = "run"
           /\ Waiting(t)' /\ topics'[t] = S /\ timerid'[t] = id
           /\ \A u \in Tasks \ {t} :
                /\ Waiting(u)' <=> Waiting(u)
                /\ topics'[u] = topics[u] /\ timerid'[u] = timerid[u]
           /\ SubscribedIffWaiting' /\ SnapshotWaits' /\ StackRuns'
           /\ status' \in [Tasks -> {"none", "run", "wait", "dead"}]
           /\ topics' \in [Tasks -> SUBSET Topics]
           /\ timerid' \in [Tasks -> TaskIds \cup {NoId}]
           /\ subscribers' \in [Topics -> SUBSET (Tasks \cup Fns)]
           /\ stack' \in Seq(Tasks \cup Fns \cup {Main})
<1> USE DEF SysInv
<1>1. status[t] = "run"
  BY ActorRuns
<1>2. /\ status' = [status EXCEPT ![t] = "wait"]
      /\ topics' = [topics EXCEPT ![t] = S]
      /\ timerid' = [timerid EXCEPT ![t] = id]
      /\ stack' = Tail(stack)
      /\ subscribers' = [m \in Topics |->
            IF m \in S THEN subscribers[m] \cup {t} ELSE subscribers[m]]
  BY DEF Suspend
<1>3. /\ status' \in [Tasks -> {"none", "run", "wait", "dead"}]
      /\ topics' \in [Tasks -> SUBSET Topics]
      /\ timerid' \in [Tasks -> TaskIds \cup {NoId}]
      /\ subscribers' \in [Topics -> SUBSET (Tasks \cup Fns)]
  BY <1>2 DEF SysTypeOK
<1>4. /\ Waiting(t)' /\ topics'[t] = S /\ timerid'[t] = id
      /\ \A u \in Tasks \ {t} :
            /\ status'[u] = status[u]
            /\ topics'[u] = topics[u] /\ timerid'[u] = timerid[u]
  BY <1>2 DEF SysTypeOK, Waiting
<1>5. SubscribedIffWaiting'
  BY <1>1, <1>2, <1>4 DEF SubscribedIffWaiting, Waiting
<1>6. SnapshotWaits'
  BY <1>1, <1>4 DEF SnapshotWaits, Waiting
<1>7. StackRuns' /\ stack' \in Seq(Tasks \cup Fns \cup {Main})
  BY <1>2, <1>4, PopRuns
<1> QED BY <1>1, <1>3, <1>4, <1>5, <1>6, <1>7 DEF Waiting

LEMMA WaitTimedInv ==
    ASSUME SysInv, ~ SharedIds, NEW t \in Tasks, NEW S \in SUBSET Topics,
           WaitTimed(t, S)
    PROVE  SysInv'
<1> DEFINE id == NextTaskTimerId
<1>1. /\ Running /\ Actor = t
      /\ Start(id, 0) /\ TakeTaskTimer(t, id) /\ Suspend(t, S, id)
      /\ UNCHANGED <<messageQueue, snapshot, cbTimer>>
  BY DEF WaitTimed
<1>2. id \in TaskIds /\ id \in TimerIds /\ id # NoId
  BY NextIds, IdFacts DEF SysInv
<1> HIDE DEF id
<1>3. /\ RtosInv'
      /\ \E s \in Slots :
            /\ timers[s] = NoTimer
            /\ timers' = [r \in Slots |->
                  IF r = s
                  THEN [id |-> id, repeat |-> 0, reload |-> 0 # 0, armed |-> TRUE]
                  ELSE timers[r]]
  <2>1. Freed(timers, {}) = timers
    BY DEF Freed, SysInv, RtosInv, RtosTypeOK
  <2>2. Unlinked(bus, {}) = bus
    BY DEF Unlinked, SysInv, RtosInv, RtosTypeOK
  <2>3. /\ StartOk(timers) /\ Fresh(timers, bus, id) /\ UNCHANGED <<bus, dropped>>
        /\ timers' = Started(timers, NextTimerSlot(timers), id, 0)
    BY <1>1 DEF Start
  <2>4. dropped' = dropped \ {}
    BY <2>3
  <2> QED BY <1>2, <2>1, <2>2, <2>3, <2>4, InvRestart DEF SysInv
<1>4. PICK s \in Slots :
            /\ timers[s] = NoTimer
            /\ timers' = [r \in Slots |->
                  IF r = s
                  THEN [id |-> id, repeat |-> 0, reload |-> 0 # 0, armed |-> TRUE]
                  ELSE timers[r]]
  BY <1>3
<1>5. /\ timers'[s].id = id /\ timers'[s].repeat = 0 /\ ~ timers'[s].reload
      /\ \A r \in Slots \ {s} : timers'[r] = timers[r]
  BY <1>4
<1>6. \A r \in Slots : timers[r].id # id
  BY <1>1 DEF Start, Fresh, Live
<1>7. /\ taskTimerId' = id /\ UNCHANGED <<msgId, para>>
      /\ taskTimerPool' = [taskTimerPool EXCEPT ![t] = id]
      /\ timerPool' = [timerPool EXCEPT ![id] = t]
  BY <1>1 DEF TakeTaskTimer
<1>8. /\ taskTimerPool' \in [Tasks -> TaskIds \cup {NoId}]
      /\ timerPool' \in [TimerIds -> Tasks \cup Callbacks \cup {Nil}]
      /\ taskTimerPool'[t] = id /\ timerPool'[id] = t
      /\ \A u \in Tasks \ {t} : taskTimerPool'[u] = taskTimerPool[u]
      /\ \A k \in TaskIds \ {id} : timerPool'[k] = timerPool[k]
  BY <1>2, <1>7, IdFacts DEF SysInv, SysTypeOK
<1>9. /\ status[t] = "run"
      /\ Waiting(t)' /\ topics'[t] = S /\ timerid'[t] = id
      /\ \A u \in Tasks \ {t} :
                /\ Waiting(u)' <=> Waiting(u)
                /\ topics'[u] = topics[u] /\ timerid'[u] = timerid[u]
      /\ SubscribedIffWaiting' /\ SnapshotWaits' /\ StackRuns'
      /\ status' \in [Tasks -> {"none", "run", "wait", "dead"}]
      /\ topics' \in [Tasks -> SUBSET Topics]
      /\ timerid' \in [Tasks -> TaskIds \cup {NoId}]
      /\ subscribers' \in [Topics -> SUBSET (Tasks \cup Fns)]
      /\ stack' \in Seq(Tasks \cup Fns \cup {Main})
  BY <1>1, <1>2, SuspendBooks
<1>10. SysTypeOK'
  BY <1>1, <1>2, <1>3, <1>7, <1>8, <1>9 DEF SysInv, SysTypeOK, RtosInv
<1>11. \A u \in Tasks : Waiting(u) /\ timerid[u] # NoId =>
           timerid[u] \in TaskIds /\ timerid[u] # id
  BY <1>6 DEF SysInv, SysTypeOK, WaitOwnsTimer, Live
<1>12. WaitOwnsTimer'
  <2> SUFFICES ASSUME NEW u \in Tasks, u # t, Waiting(u), timerid[u] # NoId
               PROVE  /\ timerPool'[timerid[u]] = u
                      /\ taskTimerPool'[u] = timerid[u]
                      /\ Live(timers, timerid[u])'
    BY <1>5, <1>8, <1>9 DEF WaitOwnsTimer, Live
  <2>1. PICK r \in Slots : timers[r].id = timerid[u]
    BY DEF SysInv, WaitOwnsTimer, Live
  <2>2. r # s
    BY <1>4, <2>1 DEF NoTimer
  <2> QED BY <1>5, <1>8, <1>9, <1>11, <2>1, <2>2 DEF SysInv, WaitOwnsTimer, Live
<1>13. WaitTimerHasWaiter'
  <2>1. \A u \in Tasks, k \in TaskIds :
           WaitsOn(u, k)' <=> IF u = t THEN k = id ELSE WaitsOn(u, k)
    BY <1>9 DEF WaitsOn
  <2>2. \A u \in Tasks : ~ WaitsOn(u, id) /\ \A k \in TaskIds : ~ WaitsOn(t, k)
    BY <1>2, <1>9, <1>11 DEF WaitsOn, Waiting
  <2>3. ASSUME NEW r \in Slots, timers'[r].id \in TaskIds
        PROVE  \E u \in Tasks : /\ WaitsOn(u, timers[r].id)'
                          /\ \A v \in Tasks \ {u} : ~ WaitsOn(v, timers[r].id)'
    <3>1. CASE r = s
      BY <1>2, <1>5, <2>1, <2>2, <3>1
    <3>2. CASE r # s
      <4>1. timers'[r] = timers[r] /\ timers[r].id # id
        BY <1>5, <1>6, <3>2
      <4>2. PICK u \in Tasks : /\ WaitsOn(u, timers[r].id)
                               /\ \A v \in Tasks \ {u} : ~ WaitsOn(v, timers[r].id)
        BY <2>3, <4>1 DEF SysInv, WaitTimerHasWaiter
      <4>3. u # t
        BY <2>2, <2>3, <4>1, <4>2
      <4>4. /\ WaitsOn(u, timers[r].id)'
            /\ \A v \in Tasks \ {u} : ~ WaitsOn(v, timers[r].id)'
        BY <2>1, <2>3, <4>1, <4>2, <4>3
      <4> QED BY <4>4
    <3> QED BY <3>1, <3>2
  <2> QED BY <2>3 DEF WaitTimerHasWaiter
<1>14. WaitsAreOneShot'
  BY <1>5 DEF SysInv, WaitsAreOneShot
<1> QED BY <1>3, <1>9, <1>10, <1>12, <1>13, <1>14 DEF SysInv

LEMMA WaitForeverInv ==
    ASSUME SysInv, NEW t \in Tasks, NEW S \in SUBSET Topics, WaitForever(t, S)
    PROVE  SysInv'
<1>1. /\ Running /\ Actor = t /\ Suspend(t, S, NoId) /\ RtosInv'
      /\ UNCHANGED <<rtosVars, poolVars, messageQueue, snapshot, cbTimer>>
  BY SameRtos DEF SysInv, WaitForever
<1>2. /\ status[t] = "run"
      /\ Waiting(t)' /\ timerid'[t] = NoId
      /\ \A u \in Tasks \ {t} :
                /\ Waiting(u)' <=> Waiting(u)
                /\ timerid'[u] = timerid[u]
      /\ SubscribedIffWaiting' /\ SnapshotWaits' /\ StackRuns'
      /\ status' \in [Tasks -> {"none", "run", "wait", "dead"}]
      /\ topics' \in [Tasks -> SUBSET Topics]
      /\ timerid' \in [Tasks -> TaskIds \cup {NoId}]
      /\ subscribers' \in [Topics -> SUBSET (Tasks \cup Fns)]
      /\ stack' \in Seq(Tasks \cup Fns \cup {Main})
  BY <1>1, SuspendBooks, ZenonT(60)
<1>3. SysTypeOK'
  BY <1>1, <1>2 DEF SysInv, SysTypeOK, RtosInv, poolVars
<1>4. WaitOwnsTimer'
  BY <1>1, <1>2 DEF SysInv, WaitOwnsTimer, Live, rtosVars, poolVars
<1>5. WaitTimerHasWaiter'
  <2>1. \A u \in Tasks, k \in TaskIds : WaitsOn(u, k)' <=> WaitsOn(u, k)
    BY <1>2, IdFacts DEF WaitsOn, Waiting
  <2> QED BY <1>1, <2>1 DEF SysInv, WaitTimerHasWaiter, WaitsOn, rtosVars
<1>6. WaitsAreOneShot'
  BY <1>1 DEF SysInv, WaitsAreOneShot, rtosVars
<1> QED BY <1>1, <1>2, <1>3, <1>4, <1>5, <1>6 DEF SysInv

\* A waiting task resumes, unsubscribes, and its timer leaves the table.
LEMMA WakeBooks ==
    ASSUME SysInv, NEW t \in Tasks, NEW woken, Waiting(t), Wakes(t, woken),
           t \notin snapshot'.left,
           snapshot'.topic = snapshot.topic, snapshot'.left \subseteq snapshot.left,
           \A s \in Slots : timers'[s] = IF timers[s].id = timerid[t] /\ timerid[t] # NoId
                                         THEN NoTimer ELSE timers[s],
           \A u \in Tasks \ {t} : taskTimerPool'[u] = taskTimerPool[u],
           \A k \in TaskIds : k # timerid[t] => timerPool'[k] = timerPool[k]
    PROVE  /\ WaitOwnsTimer' /\ WaitTimerHasWaiter' /\ WaitsAreOneShot'
           /\ SubscribedIffWaiting' /\ SnapshotWaits' /\ StackRuns'
           /\ status' \in [Tasks -> {"none", "run", "wait", "dead"}]
           /\ topics' \in [Tasks -> SUBSET Topics]
           /\ timerid' \in [Tasks -> TaskIds \cup {NoId}]
           /\ subscribers' \in [Topics -> SUBSET (Tasks \cup Fns)]
           /\ stack' \in Seq(Tasks \cup Fns \cup {Main})
<1> USE DEF SysInv
<1>1. /\ status' = [status EXCEPT ![t] = "run"]
      /\ topics' = [topics EXCEPT ![t] = {}]
      /\ timerid' = [timerid EXCEPT ![t] = NoId]
      /\ stack' = <<t>>
      /\ subscribers' = Unsubscribed(subscribers, t, topics[t])
  BY DEF Wakes
<1>2. /\ status' \in [Tasks -> {"none", "run", "wait", "dead"}]
      /\ topics' \in [Tasks -> SUBSET Topics]
      /\ timerid' \in [Tasks -> TaskIds \cup {NoId}]
      /\ subscribers' \in [Topics -> SUBSET (Tasks \cup Fns)]
  BY <1>1 DEF SysTypeOK, Unsubscribed
<1>3. stack' \in Seq(Tasks \cup Fns \cup {Main}) /\ status'[t] = "run"
  BY <1>1 DEF SysTypeOK
<1>4. \A u \in Tasks \ {t} :
         /\ Waiting(u)' <=> Waiting(u)
         /\ topics'[u] = topics[u] /\ timerid'[u] = timerid[u]
  BY <1>1 DEF SysTypeOK, Waiting
<1>5. ~ Waiting(t)'
  BY <1>3 DEF Waiting
<1>6. SubscribedIffWaiting'
  <2>1. \A m \in Topics : subscribers'[m] =
            IF m \in topics[t] THEN subscribers[m] \ {t} ELSE subscribers[m]
    BY <1>1 DEF Unsubscribed
  <2>2. \A m \in Topics : t \notin subscribers'[m]
    BY <2>1 DEF SubscribedIffWaiting
  <2>3. \A m \in Topics, u \in Tasks \ {t} : u \in subscribers'[m] <=> u \in subscribers[m]
    BY <2>1
  <2> QED BY <1>4, <1>5, <2>2, <2>3 DEF SubscribedIffWaiting
<1>7. SnapshotWaits'
  BY <1>4 DEF SnapshotWaits
<1>8. StackRuns'
  BY <1>1, <1>3 DEF StackRuns
<1>9. WaitOwnsTimer'
  <2> SUFFICES ASSUME NEW u \in Tasks, u # t, Waiting(u), timerid[u] # NoId
               PROVE  /\ timerPool'[timerid[u]] = u
                      /\ taskTimerPool'[u] = timerid[u]
                      /\ Live(timers, timerid[u])'
    BY <1>4, <1>5 DEF WaitOwnsTimer, Live
  <2>1. /\ timerid[u] \in TaskIds /\ timerPool[timerid[u]] = u
        /\ taskTimerPool[u] = timerid[u]
    BY DEF SysTypeOK, WaitOwnsTimer
  <2>2. timerid[u] # timerid[t]
    BY <2>1 DEF WaitOwnsTimer
  <2>3. PICK r \in Slots : timers[r].id = timerid[u]
    BY DEF WaitOwnsTimer, Live
  <2>4. timers'[r].id = timerid[u] /\ Live(timers, timerid[u])'
    BY <1>4, <2>2, <2>3 DEF Live
  <2> QED BY <2>1, <2>2, <2>4
<1>10. WaitTimerHasWaiter'
  <2>1. \A u \in Tasks, k \in TaskIds :
           WaitsOn(u, k)' <=> u # t /\ WaitsOn(u, k)
    BY <1>4, <1>5 DEF WaitsOn
  <2>2. ASSUME NEW r \in Slots, timers'[r].id \in TaskIds
        PROVE  \E u \in Tasks : /\ WaitsOn(u, timers[r].id)'
                          /\ \A v \in Tasks \ {u} : ~ WaitsOn(v, timers[r].id)'
    <3>1. timers'[r] = timers[r] /\ timers[r].id # timerid[t]
      BY <2>2, IdFacts DEF NoTimer
    <3>2. PICK u \in Tasks : /\ WaitsOn(u, timers[r].id)
                             /\ \A v \in Tasks \ {u} : ~ WaitsOn(v, timers[r].id)
      BY <2>2, <3>1 DEF WaitTimerHasWaiter
    <3>3. u # t
      BY <3>1, <3>2 DEF WaitsOn
    <3>4. /\ WaitsOn(u, timers[r].id)'
          /\ \A v \in Tasks \ {u} : ~ WaitsOn(v, timers[r].id)'
      BY <2>1, <2>2, <3>1, <3>2, <3>3
    <3> QED BY <3>4
  <2> QED BY <2>2 DEF WaitTimerHasWaiter
<1>11. WaitsAreOneShot'
  BY IdFacts DEF WaitsAreOneShot, NoTimer
<1> QED BY <1>2, <1>3, <1>6, <1>7, <1>8, <1>9, <1>10, <1>11

LEMMA DispatchTaskInv ==
    ASSUME SysInv, NEW t \in Tasks, DispatchTask(t)
    PROVE  SysInv'
<1>1. /\ t \in snapshot.left /\ snapshot' = [snapshot EXCEPT !.left = @ \ {t}]
      /\ Wakes(t, TRUE)
      /\ UNCHANGED <<messageQueue, cbTimer, taskTimerId, msgId, para>>
  BY DEF DispatchTask, Calls
<1>2. /\ snapshot' \in [topic : Topics \cup {Nil}, left : SUBSET (Tasks \cup Fns)]
      /\ snapshot'.topic = snapshot.topic /\ snapshot'.left = snapshot.left \ {t}
  <2>1. snapshot \in [topic : Topics \cup {Nil}, left : SUBSET (Tasks \cup Fns)]
    BY DEF SysInv, SysTypeOK
  <2> QED BY <1>1, <2>1
<1>3. Waiting(t) /\ timerid[t] \in TaskIds \cup {NoId}
  BY <1>1 DEF SysInv, SysTypeOK, SnapshotWaits
<1>4. /\ RtosInv'
      /\ \A s \in Slots : timers'[s] = IF timers[s].id = timerid[t] /\ timerid[t] # NoId
                                       THEN NoTimer ELSE timers[s]
      /\ taskTimerPool' \in [Tasks -> TaskIds \cup {NoId}]
      /\ timerPool' \in [TimerIds -> Tasks \cup Callbacks \cup {Nil}]
      /\ \A u \in Tasks \ {t} : taskTimerPool'[u] = taskTimerPool[u]
      /\ \A k \in TaskIds : k # timerid[t] => timerPool'[k] = timerPool[k]
  <2>1. CASE timerid[t] = NoId
    <3>1. UNCHANGED <<rtosVars, timerPool, taskTimerPool>>
      BY <2>1 DEF DispatchTask
    <3> QED BY <2>1, <3>1, SameRtos DEF SysInv, SysTypeOK, rtosVars
  <2>2. CASE timerid[t] # NoId
    <3>1. /\ StopSlots(First(timers, timerid[t]))
          /\ taskTimerPool' = [taskTimerPool EXCEPT ![t] = NoId]
          /\ timerPool' = [timerPool EXCEPT ![timerid[t]] = Nil]
      BY <1>1, <2>2 DEF Wakes
    <3>2. First(timers, timerid[t]) \in SUBSET Slots
      BY FirstProperties
    <3>3. RtosInv'
      BY <3>1, <3>2, TypeFree, InvFree DEF SysInv, RtosInv
    <3>4. \A s \in Slots : s \in First(timers, timerid[t]) <=> timers[s].id = timerid[t]
      <4>1. SlotsOfIds({timerid[t]}) = First(timers, timerid[t])
        BY DEF SlotsOfIds
      <4>2. {timerid[t]} \in SUBSET TimerIds
        BY <1>3, <2>2, IdFacts
      <4> QED BY <4>1, <4>2, AllSlotsOf DEF SysInv
    <3>5. \A s \in Slots : timers'[s] = IF timers[s].id = timerid[t]
                                        THEN NoTimer ELSE timers[s]
      BY <3>1, <3>4 DEF StopSlots, Freed
    <3>6. /\ taskTimerPool' \in [Tasks -> TaskIds \cup {NoId}]
          /\ timerPool' \in [TimerIds -> Tasks \cup Callbacks \cup {Nil}]
          /\ \A u \in Tasks \ {t} : taskTimerPool'[u] = taskTimerPool[u]
          /\ \A k \in TaskIds : k # timerid[t] => timerPool'[k] = timerPool[k]
      BY <3>1, IdFacts DEF SysInv, SysTypeOK
    <3> QED BY <2>2, <3>3, <3>5, <3>6
  <2> QED BY <2>1, <2>2
<1>5. /\ WaitOwnsTimer' /\ WaitTimerHasWaiter' /\ WaitsAreOneShot'
      /\ SubscribedIffWaiting' /\ SnapshotWaits' /\ StackRuns'
      /\ status' \in [Tasks -> {"none", "run", "wait", "dead"}]
      /\ topics' \in [Tasks -> SUBSET Topics]
      /\ timerid' \in [Tasks -> TaskIds \cup {NoId}]
      /\ subscribers' \in [Topics -> SUBSET (Tasks \cup Fns)]
      /\ stack' \in Seq(Tasks \cup Fns \cup {Main})
  BY <1>1, <1>2, <1>3, <1>4, WakeBooks
<1>6. SysTypeOK'
  BY <1>1, <1>2, <1>4, <1>5 DEF SysInv, SysTypeOK, RtosInv
<1> QED BY <1>4, <1>5, <1>6 DEF SysInv

\* Every tick of sys.wait that reaches sys.lua is for a task that still waits
\* on it: the tick of an ended wait finds no timer in the table.
LEMMA ReceiveWaitWakes ==
    ASSUME SysInv, NEW s \in Slots, ReceiveWait(s)
    PROVE  LET id == timers[s].id
               t  == timerPool[id]
           IN  /\ id \in TaskIds /\ t \in Tasks /\ WaitsOn(t, id)
               /\ Wakes(t, FALSE)
               /\ timerPool' = [timerPool EXCEPT ![id] = Nil]
               /\ taskTimerPool' = [taskTimerPool EXCEPT ![t] = NoId]
<1> DEFINE id == timers[s].id
           t  == timerPool[id]
<1>1. /\ ReceiveTick(s)
      /\ id < TASK_TIMER_ID_MAX /\ t # Nil
      /\ timerPool' = [timerPool EXCEPT ![id] = Nil]
      /\ IF taskTimerPool[t] = id
         THEN /\ taskTimerPool' = [taskTimerPool EXCEPT ![t] = NoId]
              /\ Wakes(t, FALSE)
         ELSE UNCHANGED <<taskTimerPool, taskVars, stack, subscribers>>
  BY DEF ReceiveWait
<1>2. id # NoId
  <2>1. PICK k \in LookupIds(timers, Head(bus)) : s \in First(timers, k)
    BY <1>1 DEF ReceiveTick, HandlerSlots
  <2>2. id = k
    BY <2>1, FirstProperties
  <2>3. Head(bus) = bus[1] /\ 1 \in DOMAIN bus /\ Head(bus).kind = "tick"
    BY <1>1, TailProperties DEF ReceiveTick, SysInv, RtosInv, RtosTypeOK
  <2>4. Head(bus).id # NoId
    BY <2>3, TicksOfOccupied DEF SysInv, RtosInv
  <2>5. Head(bus).ptr \in Slots => timers[Head(bus).ptr].id # NoId
    BY <2>3, <2>4 DEF SysInv, RtosInv, TickPointsToOwner
  <2> QED BY <2>1, <2>2, <2>4, <2>5, IdAssumption DEF LookupIds, NoId
<1>3. id \in TaskIds
  BY <1>1, <1>2, Occupied, IdFacts DEF SysInv, RtosInv
<1>4. t \in Tasks /\ WaitsOn(t, id) /\ taskTimerPool[t] = id
  BY <1>3, WaitTimersPooled
<1> QED BY <1>1, <1>3, <1>4

LEMMA ReceiveWaitInv ==
    ASSUME SysInv, ~ SharedIds, NEW s \in Slots, ReceiveWait(s)
    PROVE  SysInv'
<1> DEFINE id == timers[s].id
           t  == timerPool[id]
<1>1. /\ id \in TaskIds /\ t \in Tasks /\ WaitsOn(t, id)
      /\ Wakes(t, FALSE)
      /\ timerPool' = [timerPool EXCEPT ![id] = Nil]
      /\ taskTimerPool' = [taskTimerPool EXCEPT ![t] = NoId]
  BY ReceiveWaitWakes
<1>2. /\ ReceiveTick(s) /\ snapshot.left = {}
      /\ UNCHANGED <<taskTimerId, msgId, para, messageQueue, snapshot, cbTimer>>
  BY DEF ReceiveWait, Drained
<1>3. RtosInv'
  BY <1>2, InvNext DEF SysInv, RtosNext, RtosReceive
<1>4. \A r \in Slots : timers'[r] = IF timers[r].id = id THEN NoTimer ELSE timers[r]
  <2>1. timers' = Freed(timers, {s})
    BY <1>1, <1>2 DEF ReceiveTick, Handled, SysInv, WaitsAreOneShot
  <2>2. \A r \in Slots : timers[r].id = id => r = s
    BY <1>1, IdFacts DEF SysInv, RtosInv, UniqueIds
  <2> QED BY <2>1, <2>2 DEF Freed
<1> HIDE DEF id, t
<1>5. Waiting(t) /\ timerid[t] = id /\ id # NoId
  BY <1>1, IdFacts DEF WaitsOn
<1>6. /\ taskTimerPool' \in [Tasks -> TaskIds \cup {NoId}]
      /\ timerPool' \in [TimerIds -> Tasks \cup Callbacks \cup {Nil}]
      /\ \A u \in Tasks \ {t} : taskTimerPool'[u] = taskTimerPool[u]
      /\ \A k \in TaskIds : k # id => timerPool'[k] = timerPool[k]
  BY <1>1, IdFacts DEF SysInv, SysTypeOK
<1>7. /\ WaitOwnsTimer' /\ WaitTimerHasWaiter' /\ WaitsAreOneShot'
      /\ SubscribedIffWaiting' /\ SnapshotWaits' /\ StackRuns'
      /\ status' \in [Tasks -> {"none", "run", "wait", "dead"}]
      /\ topics' \in [Tasks -> SUBSET Topics]
      /\ timerid' \in [Tasks -> TaskIds \cup {NoId}]
      /\ subscribers' \in [Topics -> SUBSET (Tasks \cup Fns)]
      /\ stack' \in Seq(Tasks \cup Fns \cup {Main})
  BY <1>1, <1>2, <1>4, <1>5, <1>6, WakeBooks
<1>8. SysTypeOK'
  BY <1>2, <1>3, <1>6, <1>7 DEF SysInv, SysTypeOK, RtosInv
<1> QED BY <1>3, <1>7, <1>8 DEF SysInv

----------------------------------------------------------------------------
LEMMA SysInvNext ==
    ASSUME ~ SharedIds
    PROVE  SysInv /\ [Next]_vars => SysInv'
<1> SUFFICES ASSUME SysInv, [Next]_vars PROVE SysInv'
  OBVIOUS
<1>1. ASSUME Script PROVE SysInv'
  <2>1. ASSUME NEW m \in Topics, Publish(m) PROVE SysInv'
    BY <2>1, PublishInv
  <2>2. ASSUME NEW m \in Topics, NEW f \in Fns, Subscribe(m, f) \/ Unsubscribe(m, f)
        PROVE  SysInv'
    BY <2>2, PublishInv
  <2>3. ASSUME NEW t \in Tasks, NEW S \in SUBSET Topics,
               WaitTimed(t, S) \/ WaitForever(t, S)
        PROVE  SysInv'
    BY <2>3, WaitTimedInv, WaitForeverInv
  <2>4. ASSUME NEW t \in Tasks, TaskInit(t) \/ WaitFails(t) \/ TaskFails(t)
        PROVE  SysInv'
    BY <2>4, TaskInitInv, WaitFailsInv, TaskFailsInv
  <2>5. ASSUME NEW K, TimerStop(K), K \in SUBSET MsgIds PROVE SysInv'
    BY <2>5, TimerStopInv
  <2>6. ASSUME NEW k \in MsgIds, TimerStopId(k) PROVE SysInv'
    BY <2>5, <2>6 DEF TimerStopId
  <2>7. ASSUME NEW f \in Fns, NEW a \in Args \cup {NoArg}, TimerStopFn(f, a)
        PROVE  SysInv'
    BY <2>5, <2>7, Matches DEF TimerStopFn
  <2>8. ASSUME NEW f \in Fns, TimerStopAll(f) PROVE SysInv'
    BY <2>5, <2>8 DEF TimerStopAll
  <2>9. ASSUME NEW f \in Fns, NEW n \in Repeats, NEW a \in Args \cup {NoArg},
               TimerStart(f, n, a)
        PROVE  SysInv'
    BY <2>9, TimerStartInv
  <2>10. CASE Return \/ Crash
    BY <2>10, ReturnInv, RebootInv DEF Crash
  <2> QED BY <1>1, <2>1, <2>2, <2>3, <2>4, <2>6, <2>7, <2>8, <2>9, <2>10 DEF Script
<1>2. ASSUME Dispatch PROVE SysInv'
  BY <1>2, DispatchInv, DispatchTaskInv DEF Dispatch
<1>3. ASSUME Receive PROVE SysInv'
  BY <1>3, ReceiveQuietInv, ReceiveWaitInv, ReceiveTimerInv, RebootInv
  DEF Receive, ReceiveAssert
<1>4. ASSUME Daemon PROVE SysInv'
  BY <1>4, ReceiveQuietInv
<1>5. CASE UNCHANGED vars
  <2>1. UNCHANGED <<rtosVars, sysVars>> /\ RtosInv'
    BY <1>5, SameRtos DEF vars, SysInv
  <2>2. WaitsKept
    BY <2>1, SameTimersKept
    DEF WaitsKept, Waiting, rtosVars, sysVars, poolVars, queueVars, taskVars
  <2>3. SysTypeOK' /\ StackRuns'
    BY <2>1
    DEF SysInv, SysTypeOK, RtosInv, StackRuns, sysVars, poolVars, queueVars, taskVars
  <2> QED BY <2>1, <2>2, <2>3, KeptBooks DEF SysInv, sysVars, queueVars
<1> QED BY <1>1, <1>2, <1>3, <1>4, <1>5 DEF Next

LEMMA SysInvariance == ASSUME ~ SharedIds PROVE Spec => []SysInv
  BY SysInitInv, SysInvNext, PTL DEF Spec

\* The books of the waits agree in every state: whichever of tick, message,
\* error and failed start comes first, a task in a timed wait owns its timer,
\* no timer of a wait outlives it, and the subscribers are those that wait.
THEOREM WaitsStayBooked == ASSUME ~ SharedIds PROVE Spec => []WaitsBooked
<1>1. SysInv => WaitsBooked
  BY DEF SysInv, WaitsBooked
<1> QED BY <1>1, SysInvariance, PTL

----------------------------------------------------------------------------
\* Only dispatch and the tick of sys.wait resume a task that waits.
LEMMA Resumers ==
    ASSUME SysInv, Next, NEW t \in Tasks, Waiting(t), status'[t] = "run"
    PROVE  \/ DispatchTask(t)
           \/ \E s \in Slots : ReceiveWait(s) /\ WaitsOn(t, timers[s].id)
<1> USE DEF SysInv, SysTypeOK, Waiting
<1>1. ~ UNCHANGED status
  OBVIOUS
<1>2. ASSUME Reboot PROVE FALSE
  BY <1>2 DEF Reboot
<1>3. ASSUME Script PROVE FALSE
  <2>1. ASSUME NEW m \in Topics, NEW f \in Fns, Subscribe(m, f) \/ Unsubscribe(m, f)
        PROVE  FALSE
    BY <1>1, <2>1 DEF Subscribe, Unsubscribe, taskVars
  <2>2. ASSUME NEW m \in Topics, Publish(m) PROVE FALSE
    BY <1>1, <2>2 DEF Publish, taskVars
  <2>3. ASSUME NEW u \in Tasks, TaskInit(u) \/ WaitFails(u) \/ TaskFails(u)
        PROVE  FALSE
    BY <1>1, <2>3 DEF TaskInit, WaitFails, TaskFails, taskVars
  <2>4. ASSUME NEW u \in Tasks, NEW S \in SUBSET Topics,
               WaitTimed(u, S) \/ WaitForever(u, S)
        PROVE  FALSE
    BY <2>4 DEF WaitTimed, WaitForever, Suspend
  <2>5. ASSUME NEW K, TimerStop(K) PROVE FALSE
    BY <1>1, <2>5 DEF TimerStop, taskVars
  <2>6. ASSUME NEW f \in Fns, NEW n \in Repeats, NEW a \in Args \cup {NoArg},
               TimerStart(f, n, a)
        PROVE  FALSE
    BY <1>1, <2>6 DEF TimerStart, taskVars
  <2>7. CASE Return
    BY <2>7 DEF Return
  <2> QED
    BY <1>2, <1>3, <2>1, <2>2, <2>3, <2>4, <2>5, <2>6, <2>7
    DEF Script, Crash, TimerStopId, TimerStopFn, TimerStopAll
<1>4. ASSUME Dispatch PROVE DispatchTask(t)
  <2>1. ASSUME NEW u \in Tasks, DispatchTask(u) PROVE u = t
    BY <2>1 DEF DispatchTask, Wakes
  <2> QED BY <1>1, <1>4, <2>1 DEF Dispatch, DispatchNext, DispatchFn, taskVars
<1>5. ASSUME Receive
      PROVE  \E s \in Slots : ReceiveWait(s) /\ WaitsOn(t, timers[s].id)
  <2>1. ASSUME NEW s \in Slots, ReceiveWait(s) PROVE WaitsOn(t, timers[s].id)
    <3>1. /\ timerPool[timers[s].id] \in Tasks
          /\ WaitsOn(timerPool[timers[s].id], timers[s].id)
          /\ Wakes(timerPool[timers[s].id], FALSE)
      BY <2>1, ReceiveWaitWakes
    <3>2. timerPool[timers[s].id] = t
      BY <3>1 DEF Wakes
    <3> QED BY <3>1, <3>2
  <2> QED
    BY <1>1, <1>2, <1>5, <2>1
    DEF Receive, ReceiveNothing, ReceiveDriver, ReceiveTimer, ReceiveAssert,
        sysVars, taskVars
<1>6. ASSUME Daemon PROVE FALSE
  BY <1>1, <1>6 DEF Daemon, sysVars, taskVars
<1> QED BY <1>3, <1>4, <1>5, <1>6 DEF Next

\* A task that waits is resumed by the message it waits for, or by the tick of
\* its own timer, which has really expired.
THEOREM TasksWakeForCause ==
    ASSUME ~ SharedIds, FreedReads \subseteq {0}
    PROVE  Spec => WakesForCause
<1> DEFINE Cause(t) ==
          \/ t \in snapshot.left /\ snapshot.topic \in topics[t]
          \/ /\ bus # <<>> /\ Head(bus).id = timerid[t]
             /\ \E s \in Slots : Head(bus).ptr = s /\ Expired(s)
<1>1. SysInv /\ [Next]_vars =>
        [\A t \in Tasks : Waiting(t) /\ status'[t] = "run" => Cause(t)]_vars
  <2> SUFFICES ASSUME SysInv, Next, NEW t \in Tasks, Waiting(t), status'[t] = "run"
               PROVE  Cause(t)
    OBVIOUS
  <2>1. ASSUME DispatchTask(t) PROVE Cause(t)
    BY <2>1 DEF DispatchTask, Calls, SysInv, SnapshotWaits
  <2>2. ASSUME NEW s \in Slots, ReceiveWait(s), WaitsOn(t, timers[s].id)
        PROVE  Cause(t)
    <3> USE DEF SysInv, RtosInv
    <3>1. ReceiveTick(s) /\ bus # <<>> /\ Head(bus) = bus[1] /\ 1 \in DOMAIN bus
      BY <2>2, TailProperties DEF ReceiveWait, ReceiveTick, RtosTypeOK
    <3>2. Head(bus).ptr \in Slots
      BY <3>1, DanglingFindsNone, TicksOfOccupied
    <3>3. s = Head(bus).ptr /\ TickPending(s)
      BY <3>1, <3>2, TickFindsItsTimer
    <3>4. timers[s].id \in TaskIds
      BY <2>2, ReceiveWaitWakes
    <3>5. timers[s] # NoTimer /\ ~ timers[s].reload
      BY <3>4, IdFacts DEF WaitsAreOneShot, NoTimer
    <3>6. Expired(s)
      BY <3>3, <3>5 DEF Expired, OneShots
    <3>7. Head(bus).id = timerid[t]
      BY <2>2, <3>1, <3>3 DEF TickPointsToOwner, WaitsOn
    <3> QED BY <3>1, <3>3, <3>6, <3>7
  <2> QED BY <2>1, <2>2, Resumers
<1> QED BY <1>1, SysInvariance, PTL DEF Spec, WakesForCause

----------------------------------------------------------------------------
\* The refinement of TaskScheduler, one lemma per group of actions.  Its
\* timed and due are functions of the state of Sys.
Timed == [t \in Tasks |-> timerid[t] # NoId]
Due   == snapshot.left \cap Tasks

LEMMA PromiseVars ==
    UNCHANGED <<status, topics, timerid, messageQueue, snapshot>>
        => UNCHANGED Promise!schedVars
  BY DEF Promise!schedVars

LEMMA RestartKeeps == ASSUME Reboot PROVE Promise!Restart
<1>1. Timed' = [t \in Tasks |-> FALSE] /\ Due' = {}
  BY DEF Reboot, Idle, Timed, Due
<1>2. /\ status' = [t \in Tasks |-> "none"] /\ topics' = [t \in Tasks |-> {}]
      /\ messageQueue' = <<>>
  BY DEF Reboot
<1> QED BY <1>1, <1>2 DEF Promise!Restart, Timed, Due

LEMMA SuspendKeeps ==
    ASSUME SysInv, Running, NEW t \in Tasks, Actor = t, NEW S \in SUBSET Topics,
           NEW id \in TaskIds \cup {NoId}, S # {} \/ id # NoId,
           Suspend(t, S, id), UNCHANGED <<messageQueue, snapshot>>
    PROVE  Promise!Wait(t, S, id # NoId)
<1>1. /\ status[t] = "run"
      /\ status' = [status EXCEPT ![t] = "wait"]
      /\ topics' = [topics EXCEPT ![t] = S]
      /\ timerid' = [timerid EXCEPT ![t] = id]
  BY ActorRuns DEF SysInv, Suspend
<1>2. Timed' = [Timed EXCEPT ![t] = (id # NoId)]
  BY <1>1 DEF Timed, SysInv, SysTypeOK
<1>3. Due' = Due
  BY DEF Due
<1> QED BY <1>1, <1>2, <1>3 DEF Promise!Wait, Promise!Waits, Timed, Due

LEMMA WakeKeeps ==
    ASSUME SysInv, NEW t \in Tasks, NEW woken, Wakes(t, woken)
    PROVE  Promise!Resume(t)
<1>1. /\ status' = [status EXCEPT ![t] = "run"]
      /\ topics' = [topics EXCEPT ![t] = {}]
      /\ timerid' = [timerid EXCEPT ![t] = NoId]
  BY DEF Wakes
<1>2. Timed' = [Timed EXCEPT ![t] = FALSE]
  BY <1>1 DEF Timed, SysInv, SysTypeOK
<1> QED BY <1>1, <1>2 DEF Promise!Resume, Timed

LEMMA EndKeeps ==
    ASSUME SysInv, Running, Actor \in Tasks, status' = [status EXCEPT ![Actor] = "dead"],
           UNCHANGED <<topics, timerid, messageQueue, snapshot>>
    PROVE  Promise!End(Actor)
  BY ActorRuns DEF SysInv, Promise!End

LEMMA ScriptKeeps ==
    ASSUME SysInv, ~ SharedIds, Script
    PROVE  [Promise!SchedNext]_(Promise!schedVars)
<1>1. ASSUME NEW m \in Topics, Publish(m) PROVE Promise!SchedNext
  <2>1. Promise!Send(m)
    BY <1>1 DEF Publish, Promise!Send, Promise!Mail, taskVars
  <2> QED BY <2>1 DEF Promise!SchedNext
<1>2. ASSUME UNCHANGED <<taskVars, messageQueue, snapshot>>
      PROVE  UNCHANGED Promise!schedVars
  BY <1>2, PromiseVars DEF taskVars
<1>3. ASSUME NEW m \in Topics, NEW f \in Fns, Subscribe(m, f) \/ Unsubscribe(m, f)
      PROVE  UNCHANGED Promise!schedVars
  BY <1>2, <1>3 DEF Subscribe, Unsubscribe
<1>4. ASSUME NEW t \in Tasks, TaskInit(t) PROVE Promise!SchedNext
  <2>1. Promise!Create(t)
    BY <1>4 DEF TaskInit, Promise!Create, queueVars
  <2> QED BY <2>1 DEF Promise!SchedNext
<1>5. ASSUME NEW t \in Tasks, NEW S \in SUBSET Topics, WaitTimed(t, S)
      PROVE  Promise!SchedNext
  <2>1. NextTaskTimerId \in TaskIds /\ NextTaskTimerId # NoId
    BY NextIds, IdFacts DEF SysInv
  <2>2. Promise!Wait(t, S, NextTaskTimerId # NoId)
    BY <1>5, <2>1, SuspendKeeps DEF WaitTimed
  <2> QED BY <2>2 DEF Promise!SchedNext
<1>6. ASSUME NEW t \in Tasks, NEW S \in SUBSET Topics, WaitForever(t, S)
      PROVE  Promise!SchedNext
  <2>1. Promise!Wait(t, S, NoId # NoId)
    BY <1>6, SuspendKeeps DEF WaitForever
  <2> QED BY <2>1 DEF Promise!SchedNext
<1>7. ASSUME NEW t \in Tasks, WaitFails(t) PROVE UNCHANGED Promise!schedVars
  BY <1>2, <1>7 DEF WaitFails, queueVars
<1>8. ASSUME NEW t \in Tasks, TaskFails(t) PROVE Promise!SchedNext
  <2>1. Promise!End(Actor)
    BY <1>8, EndKeeps DEF TaskFails, queueVars
  <2> QED BY <1>8, <2>1 DEF Promise!SchedNext, TaskFails
<1>9. ASSUME NEW K, TimerStop(K) PROVE UNCHANGED Promise!schedVars
  BY <1>2, <1>9 DEF TimerStop, queueVars
<1>10. ASSUME NEW f \in Fns, NEW n \in Repeats, NEW a \in Args \cup {NoArg},
              TimerStart(f, n, a)
       PROVE  UNCHANGED Promise!schedVars
  BY <1>2, <1>10 DEF TimerStart, queueVars
<1>11. ASSUME Return PROVE [Promise!SchedNext]_(Promise!schedVars)
  <2>1. /\ Running /\ UNCHANGED <<queueVars, topics, timerid>>
        /\ status' = [t \in Tasks |-> IF t = Actor THEN "dead" ELSE status[t]]
    BY <1>11 DEF Return
  <2>2. CASE Actor \in Tasks
    <3>1. status' = [status EXCEPT ![Actor] = "dead"]
      BY <2>1 DEF SysInv, SysTypeOK
    <3>2. Promise!End(Actor)
      BY <2>1, <2>2, <3>1, EndKeeps DEF queueVars
    <3> QED BY <2>2, <3>2 DEF Promise!SchedNext
  <2>3. CASE Actor \notin Tasks
    <3>1. UNCHANGED status
      BY <2>1, <2>3 DEF SysInv, SysTypeOK
    <3> QED BY <2>1, <3>1, PromiseVars DEF queueVars
  <2> QED BY <2>2, <2>3
<1>12. ASSUME Crash PROVE Promise!SchedNext
  BY <1>12, RestartKeeps DEF Crash, Promise!SchedNext
<1> QED
  BY <1>1, <1>3, <1>4, <1>5, <1>6, <1>7, <1>8, <1>9, <1>10, <1>11, <1>12
  DEF Script, TimerStopId, TimerStopFn, TimerStopAll

LEMMA SchedulerKeeps ==
    ASSUME SysInv, Dispatch \/ Receive \/ Daemon
    PROVE  [Promise!SchedNext]_(Promise!schedVars)
<1>1. ASSUME DispatchNext PROVE Promise!SchedNext
  <2>1. /\ messageQueue # <<>> /\ messageQueue' = Tail(messageQueue)
        /\ snapshot.left = {} /\ snapshot'.left = subscribers[Head(messageQueue)]
        /\ UNCHANGED <<status, topics, timerid>>
    BY <1>1 DEF DispatchNext, taskVars
  <2>2. Head(messageQueue) \in Topics
    BY <2>1 DEF SysInv, SysTypeOK
  <2>3. Due' = {t \in Tasks : status[t] = "wait" /\ Head(messageQueue) \in topics[t]}
    BY <2>1, <2>2 DEF Due, SysInv, SubscribedIffWaiting, Waiting
  <2>4. Promise!Deliver
    BY <2>1, <2>3 DEF Promise!Deliver, Due
  <2> QED BY <2>4 DEF Promise!SchedNext
<1>2. ASSUME NEW f \in Fns, DispatchFn(f) PROVE UNCHANGED Promise!schedVars
  <2>1. /\ snapshot'.left = snapshot.left \ {f} /\ f \notin Tasks
        /\ UNCHANGED <<status, topics, timerid, messageQueue>>
    BY <1>2, NamesAssumption DEF DispatchFn, Calls, taskVars, SysInv, SysTypeOK
  <2> QED BY <2>1 DEF Promise!schedVars
<1>3. ASSUME NEW t \in Tasks, DispatchTask(t) PROVE Promise!SchedNext
  <2>1. /\ t \in snapshot.left /\ snapshot'.left = snapshot.left \ {t}
        /\ UNCHANGED messageQueue /\ Promise!Resume(t)
    BY <1>3, WakeKeeps DEF DispatchTask, Calls, SysInv, SysTypeOK
  <2>2. t \in Due /\ Due' = Due \ {t}
    BY <2>1 DEF Due
  <2>3. Promise!Wake(t)
    BY <2>1, <2>2 DEF Promise!Wake, Due
  <2> QED BY <2>3 DEF Promise!SchedNext
<1>4. ASSUME NEW s \in Slots, ReceiveWait(s) PROVE Promise!SchedNext
  <2>0. PICK t \in Tasks : t = timerPool[timers[s].id]
    BY <1>4, ReceiveWaitWakes
  <2>1. /\ timers[s].id \in TaskIds /\ WaitsOn(t, timers[s].id)
        /\ Wakes(t, FALSE)
    BY <1>4, <2>0, ReceiveWaitWakes
  <2>2. messageQueue = <<>> /\ snapshot.left = {} /\ UNCHANGED <<messageQueue, snapshot>>
    BY <1>4 DEF ReceiveWait, Drained
  <2>3. status[t] = "wait" /\ timerid[t] # NoId
    BY <2>1, IdFacts DEF WaitsOn, Waiting
  <2>4. Promise!Resume(t)
    BY <2>1, WakeKeeps
  <2>5. Promise!Timeout(t)
    BY <2>2, <2>3, <2>4 DEF Promise!Timeout
  <2> QED BY <2>5 DEF Promise!SchedNext
<1>5. ASSUME UNCHANGED <<taskVars, queueVars>> PROVE UNCHANGED Promise!schedVars
  BY <1>5, PromiseVars DEF taskVars, queueVars
<1>6. ASSUME NEW s \in Slots, ReceiveAssert(s) PROVE Promise!SchedNext
  BY <1>6, RestartKeeps DEF ReceiveAssert, Promise!SchedNext
<1> QED
  BY <1>1, <1>2, <1>3, <1>4, <1>5, <1>6
  DEF Dispatch, Receive, Daemon, ReceiveNothing, ReceiveDriver, ReceiveTimer, sysVars

\* sys.lua implements TaskScheduler: to the author of tasks, stale ticks,
\* reused ids, copied subscriber lists and nested callbacks do not exist.
THEOREM SchedulerPromise == ASSUME ~ SharedIds PROVE Spec => KeepsPromise
<1>1. ASSUME Init PROVE Promise!SchedInit
  <2>1. Timed = [t \in Tasks |-> FALSE] /\ Due = {}
    BY <1>1 DEF Init, Idle, Timed, Due
  <2>2. /\ status = [t \in Tasks |-> "none"] /\ topics = [t \in Tasks |-> {}]
        /\ messageQueue = <<>>
    BY <1>1 DEF Init
  <2> QED BY <2>1, <2>2 DEF Promise!SchedInit, Timed, Due
<1>2. SysInv /\ [Next]_vars => [Promise!SchedNext]_(Promise!schedVars)
  <2> SUFFICES ASSUME SysInv, [Next]_vars
               PROVE  [Promise!SchedNext]_(Promise!schedVars)
    OBVIOUS
  <2>1. CASE Next
    BY <2>1, ScriptKeeps, SchedulerKeeps DEF Next
  <2>2. CASE UNCHANGED vars
    BY <2>2, PromiseVars DEF vars, sysVars, taskVars, queueVars
  <2> QED BY <2>1, <2>2
<1> QED BY <1>1, <1>2, SysInvariance, PTL DEF Spec, KeepsPromise, Promise!SchedSpec

----------------------------------------------------------------------------
\* The books of callback timers.  First what a step may do to them.

\* No callback timer is new in the table, and the registered ones are still in it.
MsgTimersKept == \A s \in Slots :
    /\ timers'[s].id \in MsgIds => timers[s].id = timers'[s].id
    /\ timers[s].id \in MsgIds /\ timerPool[timers[s].id] # Nil
           => timers'[s].id = timers[s].id

\* The callback at the bottom of the stack, if there is one, does not return.
StackKept ==
    \/ Scheduler
    \/ UNCHANGED stack
    \/ Running /\ Actor \in Tasks /\ stack' = Tail(stack)
    \/ Running /\ \E t \in Tasks : stack' = <<t>> \o stack

CallbacksKept ==
    /\ UNCHANGED <<para, cbTimer>> /\ MsgTimersKept /\ StackKept
    /\ \A k \in MsgIds : timerPool'[k] = timerPool[k]

Starts(f, a) ==
    /\ \E n \in Int, ok \in BOOLEAN : AdvStart(f, n, a, ok)
    /\ UNCHANGED cbTimer /\ StackKept
    /\ f = AssertFn => Tasks # {} /\ a \in Args

LEMMA CallbackSteps ==
    ASSUME SysInv, [Next]_vars
    PROVE  \/ CallbacksKept
           \/ \E K \in SUBSET MsgIds : TimerStop(K)
           \/ \E f \in Callbacks, a \in Args \cup {NoArg} : Starts(f, a)
           \/ Return /\ Actor \notin Tasks
           \/ \E s \in Slots : ReceiveTimer(s)
           \/ Reboot
<1>1. ASSUME UNCHANGED <<timers, timerPool, para, cbTimer>>, StackKept
      PROVE  CallbacksKept
  BY <1>1 DEF CallbacksKept, MsgTimersKept
<1>2. ASSUME UNCHANGED vars PROVE CallbacksKept
  BY <1>1, <1>2 DEF vars, rtosVars, sysVars, poolVars, StackKept
<1>3. ASSUME NEW m \in Topics, Publish(m) PROVE CallbacksKept
  BY <1>1, <1>3 DEF Publish, rtosVars, poolVars, StackKept
<1>4. ASSUME NEW m \in Topics, NEW f \in Fns, Subscribe(m, f) \/ Unsubscribe(m, f)
      PROVE  CallbacksKept
  BY <1>1, <1>4 DEF Subscribe, Unsubscribe, rtosVars, poolVars, StackKept
<1>5. ASSUME NEW t \in Tasks, TaskInit(t) PROVE CallbacksKept
  BY <1>1, <1>5 DEF TaskInit, rtosVars, poolVars, StackKept
<1>6. ASSUME NEW t \in Tasks, NEW id \in TaskIds, TakeTaskTimer(t, id)
      PROVE  UNCHANGED para /\ \A k \in MsgIds : timerPool'[k] = timerPool[k]
  BY <1>6, IdFacts DEF TakeTaskTimer, SysInv, SysTypeOK
<1>7. ASSUME NEW t \in Tasks, NEW S \in SUBSET Topics, WaitTimed(t, S)
      PROVE  CallbacksKept
  <2> DEFINE id == NextTaskTimerId
  <2>1. /\ Start(id, 0) /\ TakeTaskTimer(t, id) /\ Running /\ Actor = t
        /\ stack' = Tail(stack) /\ UNCHANGED cbTimer
    BY <1>7 DEF WaitTimed, Suspend
  <2>2. id \in TaskIds
    BY NextIds DEF SysInv
  <2> HIDE DEF id
  <2>3. \A s \in Slots : \/ timers'[s] = timers[s]
                         \/ timers[s].id = NoId /\ timers'[s].id = id
    BY <2>1, FirstProperties DEF Start, Started, NextTimerSlot
  <2>4. MsgTimersKept
    BY <2>2, <2>3, IdFacts DEF MsgTimersKept
  <2> QED BY <1>6, <2>1, <2>2, <2>4 DEF CallbacksKept, StackKept
<1>8. ASSUME NEW t \in Tasks, WaitFails(t) PROVE CallbacksKept
  <2>1. NextTaskTimerId \in TaskIds /\ TakeTaskTimer(t, NextTaskTimerId)
    BY <1>8, NextIds DEF WaitFails, SysInv
  <2> QED BY <1>6, <1>8, <2>1
      DEF WaitFails, CallbacksKept, MsgTimersKept, StackKept, rtosVars
<1>9. ASSUME NEW t \in Tasks, NEW S \in SUBSET Topics, WaitForever(t, S)
      PROVE  CallbacksKept
  BY <1>1, <1>9 DEF WaitForever, Suspend, rtosVars, poolVars, StackKept
<1>10. ASSUME NEW t \in Tasks, TaskFails(t)
       PROVE  \E f \in Callbacks, a \in Args \cup {NoArg} : Starts(f, a)
  <2>1. PICK a \in Args : Starts(AssertFn, a)
    BY <1>10 DEF TaskFails, Starts, StackKept
  <2> QED BY <2>1 DEF Callbacks
<1>11. ASSUME NEW f \in Fns, NEW n \in Repeats, NEW a \in Args \cup {NoArg},
              TimerStart(f, n, a)
       PROVE  \E g \in Callbacks, b \in Args \cup {NoArg} : Starts(g, b)
  <2>1. Starts(f, a)
    BY <1>11, RepeatAssumption, NamesAssumption DEF TimerStart, Starts, StackKept
  <2> QED BY <2>1 DEF Callbacks
<1>12. ASSUME NEW k \in MsgIds, TimerStopId(k)
       PROVE  \E K \in SUBSET MsgIds : TimerStop(K)
  BY <1>12 DEF TimerStopId
<1>13. ASSUME NEW f \in Fns, NEW a \in Args \cup {NoArg}, TimerStopFn(f, a)
       PROVE  \E K \in SUBSET MsgIds : TimerStop(K)
  BY <1>13, Matches DEF TimerStopFn
<1>14. ASSUME NEW f \in Fns, TimerStopAll(f)
       PROVE  \E K \in SUBSET MsgIds : TimerStop(K)
  BY <1>14 DEF TimerStopAll
<1>15. ASSUME Return, Actor \in Tasks PROVE CallbacksKept
  BY <1>1, <1>15 DEF Return, rtosVars, StackKept
<1>16. ASSUME DispatchNext \/ \E f \in Fns : DispatchFn(f) \/ ReceiveDriver(f)
       PROVE  CallbacksKept
  BY <1>1, <1>16
  DEF DispatchNext, DispatchFn, Calls, ReceiveDriver, ReceiveOther, rtosVars,
      poolVars, StackKept
<1>17. ASSUME NEW t \in Tasks, DispatchTask(t) PROVE CallbacksKept
  <2>1. /\ Scheduler /\ UNCHANGED <<cbTimer, para>>
        /\ timerid[t] \in TaskIds \cup {NoId}
    BY <1>17 DEF DispatchTask, Calls, SysInv, SysTypeOK
  <2>2. CASE timerid[t] = NoId
    BY <1>1, <1>17, <2>1, <2>2 DEF DispatchTask, rtosVars, StackKept
  <2>3. CASE timerid[t] # NoId
    <3>1. /\ timers' = Freed(timers, First(timers, timerid[t]))
          /\ timerPool' = [timerPool EXCEPT ![timerid[t]] = Nil]
      BY <1>17, <2>3 DEF DispatchTask, Wakes, StopSlots
    <3>2. MsgTimersKept
      BY <2>1, <2>3, <3>1, FirstProperties, IdFacts DEF MsgTimersKept, Freed, NoTimer
    <3>3. \A k \in MsgIds : timerPool'[k] = timerPool[k]
      BY <2>1, <2>3, <3>1, IdFacts DEF SysInv, SysTypeOK
    <3> QED BY <2>1, <3>2, <3>3 DEF CallbacksKept, StackKept
  <2> QED BY <2>2, <2>3
<1>18. ASSUME NEW s \in Slots, ReceiveTick(s),
              timers[s].id \in TaskIds \/ timerPool[timers[s].id] = Nil
       PROVE  MsgTimersKept
  BY <1>18, TickIds, IdFacts DEF MsgTimersKept, SysInv
<1>19. ASSUME ReceiveNothing PROVE CallbacksKept
  <2>1. MsgTimersKept
    BY <1>18, <1>19 DEF ReceiveNothing, ReceiveStale, MsgTimersKept
  <2> QED BY <1>19, <2>1 DEF ReceiveNothing, CallbacksKept, StackKept, sysVars, poolVars
<1>20. ASSUME NEW s \in Slots, ReceiveWait(s) PROVE CallbacksKept
  <2>1. timers[s].id \in TaskIds /\ timerPool' = [timerPool EXCEPT ![timers[s].id] = Nil]
    BY <1>20, ReceiveWaitWakes
  <2>2. /\ ReceiveTick(s) /\ Scheduler /\ UNCHANGED <<para, cbTimer>>
    BY <1>20 DEF ReceiveWait
  <2>3. MsgTimersKept
    BY <1>18, <2>1, <2>2
  <2>4. \A k \in MsgIds : timerPool'[k] = timerPool[k]
    BY <2>1, IdFacts DEF SysInv, SysTypeOK
  <2> QED BY <2>2, <2>3, <2>4 DEF CallbacksKept, StackKept
<1>21. ASSUME Daemon PROVE CallbacksKept
  <2>1. \A s \in Slots : timers'[s].id = timers[s].id
    <3>1. ASSUME NEW s \in Slots, Expire(s) PROVE \A r \in Slots : timers'[r].id = timers[r].id
      <4>1. timers[s] \in Timer
        BY <3>1, Occupied DEF Expire, NoTimer, SysInv, RtosInv
      <4> QED BY <3>1, <4>1 DEF Expire, SysInv, RtosInv, RtosTypeOK, Timer
    <3> QED BY <1>21, <3>1 DEF Daemon, Post
  <2> QED BY <1>21, <2>1
      DEF Daemon, CallbacksKept, MsgTimersKept, StackKept, sysVars, poolVars
<1> QED
  BY <1>2, <1>3, <1>4, <1>5, <1>7, <1>8, <1>9, <1>10, <1>11, <1>12, <1>13, <1>14,
     <1>15, <1>16, <1>17, <1>19, <1>20, <1>21
  DEF Next, Script, Dispatch, Receive, Crash, ReceiveAssert

\* Who owns an argument.  The id in cbTimer is that of the running callback,
\* which is at the bottom of the stack, and no longer in timerPool.
CallbackRuns == cbTimer # NoId =>
    /\ stack # <<>> /\ stack[Len(stack)] \notin Tasks
    /\ timerPool[cbTimer] = Nil

MsgPoolKinds == \A k \in MsgIds : timerPool[k] \in Callbacks \cup {Nil}

ParaInv == CallbackRuns /\ MsgPoolKinds /\ ParaOwned

LEMMA BottomStays ==
    ASSUME SysTypeOK, StackKept, cbTimer # NoId,
           stack # <<>>, stack[Len(stack)] \notin Tasks
    PROVE  stack' # <<>> /\ stack'[Len(stack')] \notin Tasks
<1>1. stack \in Seq(Tasks \cup Fns \cup {Main})
  BY DEF SysTypeOK
<1>2. CASE Actor \in Tasks /\ stack' = Tail(stack)
  <2>1. Actor = stack[1] /\ Len(stack) # 1
    BY <1>1, <1>2 DEF Actor
  <2>2. Len(stack') = Len(stack) - 1 /\ Len(stack') > 0
    BY <1>1, <1>2, <2>1
  <2>3. stack'[Len(stack')] = stack[Len(stack)]
    BY <1>1, <1>2, <2>2
  <2> QED BY <2>2, <2>3
<1>3. ASSUME NEW t \in Tasks, stack' = <<t>> \o stack
      PROVE  stack' # <<>> /\ stack'[Len(stack')] \notin Tasks
  <2>1. Len(stack') = Len(stack) + 1 /\ stack'[Len(stack')] = stack[Len(stack)]
    BY <1>1, <1>3
  <2> QED BY <1>1, <2>1
<1> QED BY <1>2, <1>3 DEF StackKept, Scheduler

LEMMA ParaInvInit == Init => ParaInv
  BY IdFacts DEF Init, ParaInv, CallbackRuns, MsgPoolKinds, ParaOwned

LEMMA ParaInvNext ==
    ASSUME ~ SharedIds
    PROVE  SysInv /\ ParaInv /\ [Next]_vars => ParaInv'
<1> SUFFICES ASSUME SysInv, ParaInv, [Next]_vars PROVE ParaInv'
  OBVIOUS
<1> USE DEF ParaInv
<1>1. cbTimer \in MsgIds \cup {NoId} /\ Nil \notin Callbacks
  BY NamesAssumption DEF SysInv, SysTypeOK, Callbacks
<1>2. CASE CallbacksKept
  BY <1>1, <1>2, BottomStays
  DEF CallbacksKept, CallbackRuns, MsgPoolKinds, ParaOwned, SysInv
<1>3. ASSUME NEW K \in SUBSET MsgIds, TimerStop(K) PROVE ParaInv'
  <2>1. /\ UNCHANGED <<stack, cbTimer>>
        /\ \A k \in MsgIds : timerPool'[k] = IF k \in K THEN Nil ELSE timerPool[k]
        /\ \A k \in MsgIds : para'[k] = IF k \in K THEN NoArg ELSE para[k]
    BY <1>3, IdFacts DEF TimerStop, ForgetTimers, Without, SysInv, SysTypeOK
  <2> QED BY <1>1, <2>1 DEF CallbackRuns, MsgPoolKinds, ParaOwned
<1>4. ASSUME NEW f \in Callbacks, NEW a \in Args \cup {NoArg}, Starts(f, a)
      PROVE  ParaInv'
  <2>1. PICK n \in Int, ok \in BOOLEAN : AdvStart(f, n, a, ok)
    BY <1>4 DEF Starts
  <2>2. PICK K \in FirstMatch(f, a), k \in MsgIds :
                /\ k # cbTimer
                /\ timerPool' = [Without(timerPool, K, Nil) EXCEPT ![k] = f]
                /\ para' = [Without(para, K, NoArg) EXCEPT
                                ![k] = IF ok /\ a # NoArg THEN a ELSE @]
    BY <2>1, AdvStartEffect DEF SysInv
  <2>3. /\ \A j \in MsgIds : timerPool'[j] = IF j = k THEN f
                                             ELSE IF j \in K THEN Nil ELSE timerPool[j]
        /\ \A j \in MsgIds \ {k} : para'[j] = IF j \in K THEN NoArg ELSE para[j]
    BY <2>2, WithoutValue, IdFacts DEF SysInv, SysTypeOK
  <2>4. MsgPoolKinds' /\ ParaOwned'
    BY <1>4, <2>3 DEF MsgPoolKinds, ParaOwned, Starts
  <2>5. CallbackRuns'
    BY <1>1, <1>4, <2>2, <2>3, BottomStays DEF CallbackRuns, Starts, SysInv
  <2> QED BY <2>4, <2>5
<1>5. CASE Return /\ Actor \notin Tasks
  <2>1. /\ cbTimer' = NoId /\ UNCHANGED timerPool
        /\ para' = Without(para, {cbTimer}, NoArg)
    BY <1>5 DEF Return
  <2>2. \A k \in MsgIds : para'[k] = IF k = cbTimer THEN NoArg ELSE para[k]
    BY <2>1, IdFacts DEF Without, SysInv, SysTypeOK
  <2> QED BY <2>1, <2>2 DEF CallbackRuns, MsgPoolKinds, ParaOwned
<1>6. ASSUME NEW s \in Slots, ReceiveTimer(s) PROVE ParaInv'
  <2> DEFINE id == timers[s].id
  <2>1. /\ Scheduler /\ timerPool[id] \in Fns /\ stack' = <<timerPool[id]>>
        /\ UNCHANGED para
        /\ timerPool' = IF timers[s].repeat = 0
                        THEN [timerPool EXCEPT ![id] = Nil] ELSE timerPool
        /\ cbTimer' = IF timers[s].repeat = 0 /\ para[id] # NoArg
                      THEN id ELSE NoId
        /\ ReceiveTick(s) /\ id > TASK_TIMER_ID_MAX
    BY <1>6 DEF ReceiveTimer
  <2>2. id \in MsgIds /\ id # NoId
    <3>1. id # NoId
      BY <2>1, LimitAssumption DEF NoId
    <3>2. id \in TimerIds
      BY <3>1, Occupied DEF SysInv, RtosInv
    <3> QED BY <2>1, <3>1, <3>2, IdFacts
  <2> HIDE DEF id
  <2>3. cbTimer = NoId
    BY <2>1 DEF CallbackRuns, Scheduler
  <2>4. \A k \in MsgIds : timerPool'[k] = IF k = id /\ timers[s].repeat = 0
                                          THEN Nil ELSE timerPool[k]
    BY <2>1, <2>2, IdFacts DEF SysInv, SysTypeOK
  <2>5. MsgPoolKinds' /\ ParaOwned'
    <3>1. NoId \notin MsgIds
      BY IdFacts
    <3>2. ASSUME NEW k \in MsgIds, para'[k] # NoArg
          PROVE  timerPool'[k] \in Callbacks \/ k = cbTimer'
      BY <2>1, <2>3, <2>4, <3>1, <3>2 DEF ParaOwned
    <3>3. MsgPoolKinds'
      BY <2>4 DEF MsgPoolKinds
    <3> QED BY <3>2, <3>3 DEF ParaOwned
  <2>6. Len(stack') = 1 /\ stack'[1] = timerPool[id] /\ timerPool[id] \notin Tasks
    BY <2>1, NamesAssumption
  <2>7. CallbackRuns'
    BY <2>1, <2>2, <2>4, <2>6 DEF CallbackRuns
  <2> QED BY <2>5, <2>7
<1>7. CASE Reboot
  BY <1>7, IdFacts DEF Reboot, CallbackRuns, MsgPoolKinds, ParaOwned
<1> QED BY <1>2, <1>3, <1>4, <1>5, <1>6, <1>7, CallbackSteps

\* An argument in para belongs to a registered callback or to the one that
\* runs, also if starts fail and whatever the callbacks stop and start.
THEOREM ArgumentsAreOwned == ASSUME ~ SharedIds PROVE Spec => []ParaOwned
<1>1. Spec => []ParaInv
  BY ParaInvInit, ParaInvNext, SysInvariance, PTL DEF Spec
<1>2. ParaInv => ParaOwned
  BY DEF ParaInv
<1> QED BY <1>1, <1>2, PTL

----------------------------------------------------------------------------
\* The books of callback timers while no start fails: the heap holds out, the
\* timeouts are positive, and there is a slot for every wait and for every pair
\* of a callback and an argument.
Owners == (Tasks \X {NoArg}) \cup (Fns \X (Args \cup {NoArg}))
            \cup ({AssertFn} \X {a \in Args : Tasks # {}})

SlotsSuffice == IsFiniteSet(Owners) /\ Cardinality(Owners) <= SlotCount

LivePooled == \A s \in Slots :
    timers[s].id \in MsgIds => timerPool[timers[s].id] \in Callbacks

AssertArgs == \A k \in MsgIds :
    timerPool[k] = AssertFn => Tasks # {} /\ para[k] \in Args

TimersInv == /\ ActiveIsStarted /\ UniqueCallbackTimer
             /\ LivePooled /\ AssertArgs

\* A full table would hold a timer of every owner, also one of f and a; but
\* the timers of f and a are the ones that were just stopped.
LEMMA SlotForStart ==
    ASSUME SysInv, TimersInv, SlotsSuffice,
           NEW f \in Callbacks, NEW a \in Args \cup {NoArg}, <<f, a>> \in Owners,
           NEW K \in FirstMatch(f, a),
           \A s \in Slots : timers[s].id \notin K \cup {NoId}
    PROVE  FALSE
<1> USE DEF SysInv, RtosInv, TimersInv
<1>1. TimersOf(f, a) = {}
  <2> SUFFICES ASSUME NEW k \in K, k \in TimersOf(f, a) PROVE FALSE
    BY DEF FirstMatch
  <2>1. k \in MsgIds /\ timerPool[k] # Nil
    BY NamesAssumption DEF TimersOf, Callbacks
  <2> QED BY <2>1 DEF ActiveIsStarted, Live
<1> DEFINE id(s) == timers[s].id
           owner == [s \in Slots |-> <<timerPool[id(s)],
                        IF id(s) \in TaskIds THEN NoArg ELSE para[id(s)]>>]
           Rest  == Owners \ {<<f, a>>}
<1>2. \A s \in Slots : id(s) \in TaskIds \/ id(s) \in MsgIds
  BY Occupied, IdFacts
<1>3. Tasks \cap Callbacks = {} /\ Fns \cap {AssertFn} = {}
  BY NamesAssumption DEF Callbacks
<1>4. ASSUME NEW s \in Slots, id(s) \in TaskIds
      PROVE  /\ owner[s] = <<timerPool[id(s)], NoArg>> /\ timerPool[id(s)] \in Tasks
             /\ taskTimerPool[timerPool[id(s)]] = id(s)
  BY <1>4, WaitTimersPooled
<1>5. ASSUME NEW s \in Slots, id(s) \in MsgIds
      PROVE  /\ owner[s] = <<timerPool[id(s)], para[id(s)]>>
             /\ timerPool[id(s)] \in Callbacks
             /\ para[id(s)] \in Args \cup {NoArg}
             /\ timerPool[id(s)] = AssertFn => Tasks # {} /\ para[id(s)] \in Args
             /\ id(s) \in TimersOf(timerPool[id(s)], para[id(s)])
  BY <1>5, IdFacts DEF LivePooled, AssertArgs, SysTypeOK, TimersOf
<1> HIDE DEF id
<1>6. owner \in [Slots -> Rest]
  <2> SUFFICES ASSUME NEW s \in Slots PROVE owner[s] \in Owners /\ owner[s] # <<f, a>>
    BY DEF id
  <2> HIDE DEF owner
  <2>1. CASE id(s) \in TaskIds
    BY <1>3, <1>4, <2>1 DEF Owners
  <2>2. CASE id(s) \in MsgIds
    BY <1>1, <1>5, <2>2 DEF Owners, Callbacks
  <2> QED BY <1>2, <2>1, <2>2
<1>7. Cardinality(Slots) = SlotCount /\ IsFiniteSet(Slots)
  BY SlotAssumption, FS_Interval DEF Slots
<1>8. IsFiniteSet(Rest) /\ Cardinality(Rest) < SlotCount
  <2>1. IsFiniteSet(Owners) /\ Cardinality(Owners) \in Nat
    BY FS_CardinalityType DEF SlotsSuffice
  <2>2. IsFiniteSet(Rest) /\ Cardinality(Rest) = Cardinality(Owners) - 1
    BY <2>1, FS_RemoveElement
  <2> HIDE DEF Rest
  <2> QED BY <2>1, <2>2, SlotAssumption DEF SlotsSuffice
<1> HIDE DEF owner, Rest
<1>9. PICK x, y \in Slots : x # y /\ owner[x] = owner[y]
  BY <1>6, <1>7, <1>8, FS_PigeonHole
<1>10. id(x) = id(y)
  <2>1. CASE id(x) \in TaskIds /\ id(y) \in TaskIds
    BY <1>4, <1>9, <2>1
  <2>2. CASE id(x) \in MsgIds /\ id(y) \in MsgIds
    BY <1>5, <1>9, <2>2 DEF UniqueCallbackTimer
  <2>3. CASE ~ (id(x) \in TaskIds <=> id(y) \in TaskIds)
    BY <1>2, <1>3, <1>4, <1>5, <1>9, <2>3
  <2> QED BY <1>2, <2>1, <2>2, <2>3
<1> QED BY <1>2, <1>9, <1>10, IdFacts DEF UniqueIds, id

LEMMA TimersInvInit == Init => TimersInv
  BY IdFacts, NamesAssumption
  DEF Init, RtosInit, TimersInv, ActiveIsStarted, UniqueCallbackTimer, LivePooled,
      AssertArgs, TimersOf, Callbacks, NoTimer

LEMMA TimersInvNext ==
    ASSUME ~ SharedIds, ~ MayFail, SlotsSuffice
    PROVE  SysInv /\ ParaInv /\ TimersInv /\ [Next]_vars => TimersInv'
<1> SUFFICES ASSUME SysInv, ParaInv, TimersInv, [Next]_vars PROVE TimersInv'
  OBVIOUS
<1> USE DEF TimersInv
<1>1. cbTimer \in MsgIds \cup {NoId} /\ Nil \notin Callbacks
  BY NamesAssumption DEF SysInv, SysTypeOK, Callbacks
<1>2. CASE CallbacksKept
  <2>1. \A k \in MsgIds : timerPool'[k] = timerPool[k] /\ para'[k] = para[k]
    BY <1>2 DEF CallbacksKept
  <2>2. ActiveIsStarted'
    BY <1>2, <2>1 DEF ActiveIsStarted, Live, CallbacksKept, MsgTimersKept
  <2>3. UniqueCallbackTimer' /\ AssertArgs'
    BY <2>1 DEF UniqueCallbackTimer, TimersOf, AssertArgs
  <2>4. LivePooled'
    BY <1>2, <2>1 DEF LivePooled, CallbacksKept, MsgTimersKept
  <2> QED BY <2>2, <2>3, <2>4
<1>3. ASSUME NEW K \in SUBSET MsgIds, TimerStop(K) PROVE TimersInv'
  <2>1. /\ \A k \in MsgIds : timerPool'[k] = IF k \in K THEN Nil ELSE timerPool[k]
        /\ \A k \in MsgIds : para'[k] = IF k \in K THEN NoArg ELSE para[k]
        /\ StopSlots(SlotsOfIds(K))
    BY <1>3, IdFacts DEF TimerStop, ForgetTimers, Without, SysInv, SysTypeOK
  <2>2. \A s \in Slots : timers'[s].id = IF timers[s].id \in K THEN NoId ELSE timers[s].id
    BY <2>1, AllSlotsOf, IdFacts DEF StopSlots, Freed, NoTimer, SysInv
  <2>3. ActiveIsStarted'
    BY <2>1, <2>2 DEF ActiveIsStarted, Live
  <2>4. UniqueCallbackTimer' /\ AssertArgs'
    <3>1. AssertFn # Nil
      BY NamesAssumption
    <3> QED BY <1>1, <2>1, <3>1 DEF UniqueCallbackTimer, TimersOf, AssertArgs
  <2>5. LivePooled'
    BY <2>1, <2>2, IdFacts DEF LivePooled
  <2> QED BY <2>3, <2>4, <2>5
<1>4. ASSUME NEW f \in Callbacks, NEW a \in Args \cup {NoArg}, Starts(f, a)
      PROVE  TimersInv'
  <2>1. PICK n \in Int, ok \in BOOLEAN : AdvStart(f, n, a, ok)
    BY <1>4 DEF Starts
  <2>2. PICK K \in FirstMatch(f, a), k \in MsgIds :
                /\ k # cbTimer
                /\ k \in K \/ timerPool[k] = Nil
                /\ timerPool' = [Without(timerPool, K, Nil) EXCEPT ![k] = f]
                /\ para' = [Without(para, K, NoArg) EXCEPT
                                ![k] = IF ok /\ a # NoArg THEN a ELSE @]
                /\ \A s \in Slots :
                     /\ timers[s].id \in K => timers'[s].id \in {NoId, k}
                     /\ timers[s].id \notin K => \/ timers'[s] = timers[s]
                                                \/ /\ ok /\ timers[s] = NoTimer
                                                   /\ timers'[s].id = k
                /\ ok => Live(timers, k)'
                /\ ~ ok => MayFail \/ \A s \in Slots : timers[s].id \notin K \cup {NoId}
    BY <2>1, AdvStartEffect DEF SysInv
  <2>3. <<f, a>> \in Owners
    BY <1>4 DEF Owners, Starts, Callbacks
  <2>4. ok
    BY <2>2, <2>3, SlotForStart
  <2>5. K \in SUBSET MsgIds /\ K \subseteq TimersOf(f, a)
    BY Matches
  <2>6. \A j \in TimersOf(f, a) : j \in K
    BY <1>4 DEF FirstMatch, UniqueCallbackTimer
  <2>7. para[k] = NoArg \/ k \in K
    BY <2>2, <1>1 DEF ParaInv, ParaOwned
  <2>8. /\ \A j \in MsgIds : timerPool'[j] = IF j = k THEN f
                                             ELSE IF j \in K THEN Nil ELSE timerPool[j]
        /\ \A j \in MsgIds : para'[j] = IF j = k THEN a
                                        ELSE IF j \in K THEN NoArg ELSE para[j]
    BY <2>2, <2>4, <2>7, WithoutValue, IdFacts DEF SysInv, SysTypeOK
  <2>9. ActiveIsStarted'
    <3> SUFFICES ASSUME NEW j \in MsgIds, j # k, j \notin K, timerPool[j] # Nil
                 PROVE  Live(timers, j)'
      BY <2>2, <2>4, <2>8 DEF ActiveIsStarted
    <3>1. PICK s \in Slots : timers[s].id = j
      BY DEF ActiveIsStarted, Live
    <3>2. timers[s] # NoTimer
      BY <3>1, IdFacts DEF NoTimer
    <3>3. timers'[s] = timers[s]
      BY <2>2, <3>1, <3>2
    <3> QED BY <3>1, <3>3 DEF Live
  <2>10. UniqueCallbackTimer'
    <3> SUFFICES ASSUME NEW g \in Callbacks, NEW b \in Args \cup {NoArg},
                        NEW i \in TimersOf(g, b)', NEW j \in TimersOf(g, b)'
                 PROVE  i = j
      BY DEF UniqueCallbackTimer
    <3>1. /\ i \in MsgIds /\ timerPool'[i] = g /\ para'[i] = b
          /\ j \in MsgIds /\ timerPool'[j] = g /\ para'[j] = b
      BY DEF TimersOf
    <3>2. \A x \in MsgIds : x # k /\ timerPool'[x] = g /\ para'[x] = b
                => x \in TimersOf(g, b) /\ x \notin K
      BY <1>1, <2>8 DEF TimersOf
    <3>3. CASE i = k \/ j = k
      BY <2>6, <2>8, <3>1, <3>2, <3>3
    <3>4. CASE i # k /\ j # k
      BY <3>1, <3>2, <3>4 DEF UniqueCallbackTimer
    <3> QED BY <3>3, <3>4
  <2>11. LivePooled'
    <3> SUFFICES ASSUME NEW s \in Slots, timers'[s].id \in MsgIds, timers'[s].id # k
                 PROVE  timerPool'[timers'[s].id] \in Callbacks
      BY <2>8 DEF LivePooled
    <3>1. timers[s].id \notin K /\ timers'[s] = timers[s]
      BY <2>2, IdFacts
    <3> QED BY <2>8, <3>1 DEF LivePooled
  <2>12. AssertArgs'
    <3>1. AssertFn # Nil
      BY NamesAssumption
    <3> QED BY <1>4, <2>8, <3>1 DEF AssertArgs, Starts
  <2> QED BY <2>9, <2>10, <2>11, <2>12
<1>5. CASE Return /\ Actor \notin Tasks
  <2>1. /\ UNCHANGED <<timers, timerPool>>
        /\ para' = Without(para, {cbTimer}, NoArg)
    BY <1>5 DEF Return, rtosVars
  <2>2. \A k \in MsgIds : para'[k] = IF k = cbTimer THEN NoArg ELSE para[k]
    BY <2>1, IdFacts DEF Without, SysInv, SysTypeOK
  <2>3. \A k \in MsgIds : timerPool[k] # Nil => para'[k] = para[k]
    BY <1>1, <2>2, IdFacts DEF ParaInv, CallbackRuns
  <2>4. AssertFn # Nil
    BY NamesAssumption
  <2>5. ActiveIsStarted' /\ LivePooled'
    BY <2>1 DEF ActiveIsStarted, LivePooled, Live
  <2>6. UniqueCallbackTimer' /\ AssertArgs'
    BY <1>1, <2>1, <2>3, <2>4 DEF UniqueCallbackTimer, TimersOf, AssertArgs
  <2> QED BY <2>5, <2>6
<1>6. ASSUME NEW s \in Slots, ReceiveTimer(s) PROVE TimersInv'
  <2> DEFINE id == timers[s].id
  <2>1. /\ ReceiveTick(s) /\ id > TASK_TIMER_ID_MAX /\ UNCHANGED para
        /\ timerPool' = IF timers[s].repeat = 0
                        THEN [timerPool EXCEPT ![id] = Nil] ELSE timerPool
    BY <1>6 DEF ReceiveTimer
  <2>2. id \in MsgIds /\ id # NoId
    <3>1. id # NoId
      BY <2>1, LimitAssumption DEF NoId
    <3>2. id \in TimerIds
      BY <3>1, Occupied DEF SysInv, RtosInv
    <3> QED BY <2>1, <3>1, <3>2, IdFacts
  <2>3. \A r \in Slots : timers'[r].id = IF r = s /\ timers[s].repeat = 0
                                         THEN NoId ELSE timers[r].id
    BY <2>1, TickIds DEF SysInv
  <2>4. \A r \in Slots : timers[r].id = id => r = s
    BY <2>2 DEF SysInv, RtosInv, UniqueIds
  <2> HIDE DEF id
  <2>5. \A k \in MsgIds : timerPool'[k] = IF k = id /\ timers[s].repeat = 0
                                          THEN Nil ELSE timerPool[k]
    BY <2>1, <2>2, IdFacts DEF SysInv, SysTypeOK
  <2>6. timers[s].id = id
    BY DEF id
  <2>7. ActiveIsStarted' /\ LivePooled'
    <3>1. ActiveIsStarted'
      BY <2>3, <2>5, <2>6 DEF ActiveIsStarted, Live
    <3>2. LivePooled'
      BY <2>3, <2>4, <2>5, IdFacts DEF LivePooled
    <3> QED BY <3>1, <3>2
  <2>8. UniqueCallbackTimer' /\ AssertArgs'
    <3>1. AssertFn # Nil
      BY NamesAssumption
    <3> QED BY <1>1, <2>1, <2>5, <3>1 DEF UniqueCallbackTimer, TimersOf, AssertArgs
  <2> QED BY <2>7, <2>8
<1>7. CASE Reboot
  BY <1>7, IdFacts, NamesAssumption
  DEF Reboot, ActiveIsStarted, UniqueCallbackTimer, LivePooled, AssertArgs, TimersOf,
      Callbacks, NoTimer
<1> QED BY <1>2, <1>3, <1>4, <1>5, <1>6, <1>7, CallbackSteps

LEMMA TimersInvariance ==
    ASSUME ~ SharedIds, ~ MayFail, SlotsSuffice
    PROVE  Spec => [](SysInv /\ ParaInv /\ TimersInv)
  BY SysInitInv, ParaInvInit, TimersInvInit, SysInvNext, ParaInvNext, TimersInvNext, PTL
  DEF Spec

\* The books of callback timers agree in every state: what timerPool calls
\* active has a running timer, a callback and its argument have one entry at
\* most, and no argument is left over for a later timer.
THEOREM TimersStayBooked ==
    ASSUME ~ SharedIds, ~ MayFail, SlotsSuffice
    PROVE  Spec => []TimersBooked
<1>1. SysInv /\ ParaInv /\ TimersInv => TimersBooked
  BY DEF SysInv, ParaInv, TimersInv, TimersBooked
<1> QED BY <1>1, TimersInvariance, PTL

\* After timerStop(f, a) there is no timer left that calls f with a, although
\* the loop of timerStop ends at the first entry that matches.
THEOREM StopReallyStops ==
    ASSUME ~ SharedIds, ~ MayFail, SlotsSuffice
    PROVE  Spec => StopStops
<1>1. SysInv /\ ParaInv /\ TimersInv /\ [Next]_vars =>
        [\A f \in Fns, a \in Args \cup {NoArg} : TimerStopFn(f, a) =>
          \A k \in MsgIds : Live(timers, k)' =>
              ~ (timerPool[k] = f /\ para[k] = a)]_vars
  <2> SUFFICES ASSUME SysInv, TimersInv, NEW f \in Fns, NEW a \in Args \cup {NoArg},
                      TimerStopFn(f, a), NEW k \in MsgIds, Live(timers, k)',
                      timerPool[k] = f, para[k] = a
               PROVE  FALSE
    OBVIOUS
  <2>1. PICK K \in FirstMatch(f, a) : TimerStop(K)
    BY DEF TimerStopFn
  <2>2. k \in TimersOf(f, a)
    BY DEF TimersOf
  <2>3. k \in K
    BY <2>2 DEF FirstMatch, TimersInv, UniqueCallbackTimer, Callbacks
  <2>4. StopSlots(SlotsOfIds(K)) /\ K \in SUBSET MsgIds
    BY <2>1, Matches DEF TimerStop, ForgetTimers
  <2>5. \A s \in Slots : timers'[s].id = IF timers[s].id \in K THEN NoId ELSE timers[s].id
    BY <2>4, AllSlotsOf, IdFacts DEF StopSlots, Freed, NoTimer, SysInv
  <2> QED BY <2>3, <2>5, IdFacts DEF Live
<1> QED BY <1>1, TimersInvariance, PTL DEF Spec, StopStops
=============================================================================

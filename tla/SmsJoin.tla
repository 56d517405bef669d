------------------------------ MODULE SmsJoin ------------------------------
(***************************************************************************)
(* How the sms library joins the parts of a long message                   *)
(* (components/sms/luat_lib_sms.c).  The modem hands in one part after the *)
(* other from its own task; the message bus takes them to the Lua task,    *)
(* which keeps them in lngbuffs until the sequence numbers stored under a  *)
(* reference number add up, and then reports their text.                   *)
(*                                                                         *)
(* The network may lose a part, deliver it twice and deliver parts in any  *)
(* order; the reference number is a byte that messages share.              *)
(***************************************************************************)
EXTENDS Naturals, Sequences, FiniteSets

CONSTANTS
    Msgs,           \* the messages sent, by name
    refNum, maxNum, \* reference and number of parts; 0 and 0 for a short one
    Empty,          \* a free slot
    LONG_SMS_CMAX,  \* slots of lngbuffs: 128
    CLEAN_MAX,      \* slots that a report looks through to free them: 16
    BusMax,         \* length of the message bus
    MaxFaults       \* bound: parts lost or delivered twice, malloc failures,
                    \* calls of sms.clearLong and sms.autoLong

ASSUME SmsAssumption ==
    /\ refNum \in [Msgs -> 0..255] /\ maxNum \in [Msgs -> 0..255]
    /\ \A m \in Msgs : maxNum[m] = 0 => refNum[m] = 0
    /\ LONG_SMS_CMAX \in Nat \ {0} /\ CLEAN_MAX \in 0..LONG_SMS_CMAX
    /\ BusMax \in Nat \ {0}
    /\ MaxFaults \in Nat

(* A part is a message and a seqNum; that of a short message is 0.         *)
PartsOf(m) == IF maxNum[m] = 0 THEN {[msg |-> m, seq |-> 0]}
              ELSE {[msg |-> m, seq |-> j] : j \in 1..maxNum[m]}
AllParts == UNION {PartsOf(m) : m \in Msgs}
RefOf(p) == refNum[p.msg]

ASSUME EmptyAssumption == Empty \notin AllParts

VARIABLES
    air,        \* parts the network has yet to deliver
    bus,        \* parts on the message bus
    lngbuffs,   \* the table: a part or Empty per slot
    joining,    \* lua_sms_recv_long
    reports,    \* history: the texts given to SMS_INC, each a sequence of parts
    spoilt,     \* history: messages that a fault or another message met
    faults      \* faults so far

vars == <<air, bus, lngbuffs, joining, reports, spoilt, faults>>

Fault == faults < MaxFaults /\ faults' = faults + 1
NoFault == UNCHANGED faults
-----------------------------------------------------------------------------
(* The table                                                               *)

Slots == 1..LONG_SMS_CMAX
Holds(t, i, ref) == t[i] # Empty /\ RefOf(t[i]) = ref
Held(t) == {t[i] : i \in {k \in Slots : t[k] # Empty}}

FreeSlot(t) == CHOOSE i \in Slots : t[i] = Empty /\ \A k \in 1..i-1 : t[k] # Empty
IsFull(t) == \A i \in Slots : t[i] # Empty

SeqSum(t, ref) ==
    LET sum[n \in 0..LONG_SMS_CMAX] ==
            IF n = 0 THEN 0
            ELSE sum[n-1] + (IF Holds(t, n, ref) THEN t[n].seq ELSE 0)
    IN  sum[LONG_SMS_CMAX]

BugAddsUpEarly(t, p) ==  \* mutant: one part fewer is waited for
    SeqSum(t, RefOf(p)) = (maxNum[p.msg] * (maxNum[p.msg] - 1)) \div 2

(* counter is 0.  It is unsigned and does not come back from below 0.      *)
AddsUp(t, p) == SeqSum(t, RefOf(p)) = (maxNum[p.msg] * (maxNum[p.msg] + 1)) \div 2

(* The stored parts with a number in nums, in the order of their slots.    *)
Numbered(t, ref, nums) ==
    LET row[n \in 0..LONG_SMS_CMAX] ==
            IF n = 0 THEN <<>>
            ELSE IF Holds(t, n, ref) /\ t[n].seq \in nums
                 THEN Append(row[n-1], t[n]) ELSE row[n-1]
    IN  row[LONG_SMS_CMAX]

BugText(t, p) ==         \* mutant: in the order of the slots
    Numbered(t, RefOf(p), 1..maxNum[p.msg])

(* push_sms_args with dst = NULL: the parts numbered 1, then 2, ...        *)
Text(t, p) ==
    LET text[j \in 0..maxNum[p.msg]] ==
            IF j = 0 THEN <<>> ELSE text[j-1] \o Numbered(t, RefOf(p), {j})
    IN  text[maxNum[p.msg]]

BugCleaned(t, p) ==      \* mutant: whatever the reference number
    [i \in Slots |-> IF i <= CLEAN_MAX THEN Empty ELSE t[i]]
(* What a report leaves in the table.                                      *)
Cleaned(t, p) ==
    [i \in Slots |-> IF i <= CLEAN_MAX /\ Holds(t, i, RefOf(p)) THEN Empty ELSE t[i]]
-----------------------------------------------------------------------------
(* The Lua task: l_sms_recv_handler                                        *)

Whole(m) == IF maxNum[m] = 0 THEN <<[msg |-> m, seq |-> 0]>>
            ELSE [j \in 1..maxNum[m] |-> [msg |-> m, seq |-> j]]

(* Messages other than m with a part in the table under the same reference *)
Rivals(t, m) == {q.msg : q \in {r \in Held(t) : RefOf(r) = refNum[m]}} \ {m}

(* sys_pub and the callback, then the clean-up.  A message that loses its  *)
(* stored parts to the report of another one is spoilt.                    *)
Report(t, p, text) ==
    /\ reports' = reports \cup {text}
    /\ lngbuffs' = Cleaned(t, p)

Drop == UNCHANGED <<lngbuffs, reports>>

(* A part of a long message: store it, report when the numbers add up.     *)
Join(t, p) ==
    \/ AddsUp(t, p) /\ Report(t, p, Text(t, p))
    \/ ~AddsUp(t, p) /\ lngbuffs' = t /\ UNCHANGED reports

HandleLong(p) ==
    /\ maxNum[p.msg] > 0 /\ joining
    /\ \/ IsFull(lngbuffs) /\ Drop /\ spoilt' = spoilt \cup {p.msg} /\ NoFault
       \/ /\ ~IsFull(lngbuffs)
          /\ Join([lngbuffs EXCEPT ![FreeSlot(lngbuffs)] = p], p)
          /\ spoilt' = spoilt \cup
                (IF Rivals(lngbuffs, p.msg) = {} THEN {}
                 ELSE Rivals(lngbuffs, p.msg) \cup {p.msg})
          /\ NoFault
       \/ /\ ~IsFull(lngbuffs) /\ Fault      \* malloc fails
          /\ Drop /\ spoilt' = spoilt \cup {p.msg}

(* A short message, or a part when joining is off, is reported as it is;   *)
(* the clean-up runs for it too.                                           *)
HandleShort(p) ==
    /\ maxNum[p.msg] = 0 \/ ~joining
    /\ Report(lngbuffs, p, <<p>>)
    /\ spoilt' = spoilt \cup Rivals(lngbuffs, p.msg)
                        \cup (IF maxNum[p.msg] = 0 THEN {} ELSE {p.msg})
    /\ NoFault

l_sms_recv_handler ==
    /\ bus # <<>>
    /\ HandleLong(Head(bus)) \/ HandleShort(Head(bus))
    /\ bus' = Tail(bus)
    /\ UNCHANGED <<air, joining>>

(* sms.clearLong() by the application                                      *)
l_sms_clear_long ==
    /\ Fault
    /\ lngbuffs' = [i \in Slots |-> Empty]
    /\ spoilt' = spoilt \cup {p.msg : p \in Held(lngbuffs)}
    /\ UNCHANGED <<air, bus, joining, reports>>

(* sms.autoLong(mode) by the application                                   *)
l_sms_auto_long ==
    /\ Fault
    /\ joining' = ~joining
    /\ UNCHANGED <<air, bus, lngbuffs, reports, spoilt>>
-----------------------------------------------------------------------------
luat_msgbus_put(p) == IF Len(bus) < BusMax THEN Append(bus, p) ELSE bus

(* The modem's task: luat_sms_recv_cb puts the part on the bus, where it   *)
(* is dropped without a word when the bus is full.  twice: the network     *)
(* will deliver it once more.                                              *)
luat_sms_recv_cb(p, twice) ==
    /\ p \in air
    /\ bus' = luat_msgbus_put(p)
    /\ air' = IF twice THEN air ELSE air \ {p}
    /\ IF twice THEN Fault ELSE NoFault
    /\ spoilt' = IF twice \/ Len(bus) = BusMax THEN spoilt \cup {p.msg} ELSE spoilt
    /\ UNCHANGED <<lngbuffs, joining, reports>>

(* The network never delivers it (external).                               *)
LosePart(p) ==
    /\ p \in air /\ Fault
    /\ air' = air \ {p}
    /\ spoilt' = spoilt \cup {p.msg}
    /\ UNCHANGED <<bus, lngbuffs, joining, reports>>
-----------------------------------------------------------------------------
Init ==
    /\ air = AllParts /\ bus = <<>>
    /\ lngbuffs = [i \in Slots |-> Empty]
    /\ joining = TRUE
    /\ reports = {} /\ spoilt = {}
    /\ faults = 0

Deliver == \E p \in air : luat_sms_recv_cb(p, FALSE)

Next ==
    \/ Deliver
    \/ \E p \in air : luat_sms_recv_cb(p, TRUE) \/ LosePart(p)
    \/ l_sms_recv_handler
    \/ l_sms_clear_long \/ l_sms_auto_long

Spec == Init /\ [][Next]_vars

(* Lua takes what is on the bus, and the network delivers what it has.     *)
FairSpec == Spec /\ WF_vars(l_sms_recv_handler) /\ WF_vars(Deliver)
-----------------------------------------------------------------------------
(* Properties                                                              *)

(* Type invariant.                                                         *)
SmsTypeOK ==
    /\ air \subseteq AllParts
    /\ bus \in Seq(AllParts) /\ Len(bus) <= BusMax
    /\ lngbuffs \in [Slots -> AllParts \cup {Empty}]
    /\ joining \in BOOLEAN
    /\ spoilt \subseteq Msgs
    /\ \A r \in reports : r \in Seq(AllParts)
    /\ faults \in 0..MaxFaults

(* The text of a message is reported whole and in order or not at all      *)
(* ("long messages are joined into one txt", luat_lib_sms.c:452), however  *)
(* its parts were reordered: only what met a fault, or another message     *)
(* under the same reference, is reported otherwise.                        *)
TextWhole ==
    \A r \in reports : \A i \in DOMAIN r :
        r[i].msg \in spoilt \/ r = Whole(r[i].msg)

(* The sum of the numbers never makes a message wait whose parts are all   *)
(* stored.                                                                 *)
NoneWaitsWhole ==
    \A m \in Msgs \ spoilt :
        ~(PartsOf(m) \subseteq Held(lngbuffs)) \/ Whole(m) \in reports

(* The clean-up goes through fewer slots than the table has, so a reported *)
(* message may leave parts behind, where they upset the next message of    *)
(* that reference: but only beyond the first CLEAN_MAX slots.              *)
LeftBehindBeyond ==
    \A i \in Slots :
        (lngbuffs[i] # Empty /\ lngbuffs[i].msg \notin spoilt
            /\ Whole(lngbuffs[i].msg) \in reports) => i > CLEAN_MAX

(* What the table holds, after any sequence of parts, clean-ups and faults.*)
TableInOrder == SmsTypeOK /\ NoneWaitsWhole /\ LeftBehindBeyond

(* Every message that no fault and no other message met is reported.       *)
MessagesArrive == <>(\A m \in Msgs \ spoilt : Whole(m) \in reports)
=============================================================================

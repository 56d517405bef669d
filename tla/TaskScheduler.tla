--------------------------- MODULE TaskScheduler ---------------------------
(***************************************************************************)
(* What the task framework promises to the author of a task, without the   *)
(* timers, ids and tables that keep the promise.                           *)
(*                                                                         *)
(* A task runs until it waits or ends.  It waits for a set of topics, for  *)
(* a timeout, or for whichever comes first.  A published message wakes     *)
(* every task that waits for its topic when the message's turn comes;      *)
(* messages take their turns in the order of publication, and a timeout    *)
(* is only looked at when no message is left.                              *)
(***************************************************************************)
EXTENDS Sequences, FiniteSets

CONSTANTS Task, Topic

VARIABLES
    state,  \* of a task: "none", "run", "wait" or "dead"
    for,    \* the topics a waiting task waits for
    timed,  \* whether its wait has a timeout
    mail,   \* messages published and not yet delivered
    due     \* tasks that the message being delivered still has to wake

schedVars == <<state, for, timed, mail, due>>

SchedInit ==
    /\ state = [t \in Task |-> "none"]
    /\ for = [t \in Task |-> {}]
    /\ timed = [t \in Task |-> FALSE]
    /\ mail = <<>>
    /\ due = {}

Create(t) ==
    /\ state[t] = "none"
    /\ state' = [state EXCEPT ![t] = "run"]
    /\ UNCHANGED <<for, timed, mail, due>>

End(t) ==
    /\ state[t] = "run"
    /\ state' = [state EXCEPT ![t] = "dead"]
    /\ UNCHANGED <<for, timed, mail, due>>

Waits(t, S, tm) ==
    /\ state[t] = "run" /\ (S # {} \/ tm)
    /\ state' = [state EXCEPT ![t] = "wait"]
    /\ for' = [for EXCEPT ![t] = S]
    /\ timed' = [timed EXCEPT ![t] = tm]

Wait(t, S, tm) == Waits(t, S, tm) /\ UNCHANGED <<mail, due>>

Mail(m) == mail' = Append(mail, m)

Send(m) == Mail(m) /\ UNCHANGED <<state, for, timed, due>>

\* the next message takes its turn
Deliver ==
    /\ mail # <<>> /\ due = {}
    /\ mail' = Tail(mail)
    /\ due' = {t \in Task : state[t] = "wait" /\ Head(mail) \in for[t]}
    /\ UNCHANGED <<state, for, timed>>

Resume(t) ==
    /\ state' = [state EXCEPT ![t] = "run"]
    /\ for' = [for EXCEPT ![t] = {}]
    /\ timed' = [timed EXCEPT ![t] = FALSE]

Wake(t) ==
    /\ t \in due
    /\ due' = due \ {t}
    /\ Resume(t)
    /\ UNCHANGED mail

Timeout(t) ==
    /\ state[t] = "wait" /\ timed[t]
    /\ mail = <<>> /\ due = {}
    /\ Resume(t)
    /\ UNCHANGED <<mail, due>>

\* a reboot ends everything at once
Restart ==
    /\ state' = [t \in Task |-> "none"]
    /\ for' = [t \in Task |-> {}]
    /\ timed' = [t \in Task |-> FALSE]
    /\ mail' = <<>>
    /\ due' = {}

SchedNext ==
    \/ \E t \in Task :
        \/ Create(t) \/ End(t) \/ Wake(t) \/ Timeout(t)
        \/ \E S \in SUBSET Topic, tm \in BOOLEAN : Wait(t, S, tm)
    \/ \E m \in Topic : Send(m)
    \/ Deliver
    \/ Restart

SchedSpec == SchedInit /\ [][SchedNext]_schedVars
=============================================================================

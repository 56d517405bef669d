----------------------------- MODULE DnsPromise -----------------------------
(***************************************************************************)
(* What the DNS client promises to those who ask it: a request is ended at *)
(* most once, and a name is only said to have addresses that a server gave *)
(* for that very name.  DnsClient.tla is shown to implement this           *)
(* specification.                                                          *)
(***************************************************************************)
CONSTANTS
    Requests,
    Names,
    nameOf,     \* the name that a request is about
    Addrs       \* addresses

VARIABLES
    status,     \* of each request: idle, asked, found, failed or dropped
    given,      \* the addresses a request was answered with
    told        \* the addresses that servers have given for a name

promiseVars == <<status, given, told>>

PromiseInit ==
    /\ status = [r \in Requests |-> "idle"]
    /\ given = [r \in Requests |-> {}]
    /\ told = [n \in Names |-> {}]

(* In one step a server may give addresses for a name, and any requests    *)
(* may move on: an idle one is asked, an asked one is ended.               *)
Moves(r) ==
    \/ UNCHANGED <<status[r], given[r]>>
    \/ /\ status[r] = "idle" /\ status'[r] \in {"asked", "failed"}
       /\ given'[r] = {}
    \/ /\ status[r] = "asked" /\ status'[r] \in {"failed", "dropped"}
       /\ given'[r] = {}
    \/ /\ status[r] = "asked" /\ status'[r] = "found"
       /\ given'[r] \in (SUBSET told'[nameOf[r]]) \ {{}}

PromiseNext ==
    /\ \E n \in Names, new \in SUBSET Addrs :
          told' = [told EXCEPT ![n] = @ \cup new]
    /\ status' \in [Requests -> {"idle", "asked", "found", "failed", "dropped"}]
    /\ given' \in [Requests -> SUBSET Addrs]
    /\ \A r \in Requests : Moves(r)

PromiseSpec == PromiseInit /\ [][PromiseNext]_promiseVars
=============================================================================

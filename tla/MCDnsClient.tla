---------------------------- MODULE MCDnsClient ----------------------------
(* An instance of DnsClient for TLC: two requests for one name, the second *)
(* with IPv6 first, and one for another name.                              *)
EXTENDS DnsClient
MCNameOf == [r \in {1, 2, 3} |-> IF r = 3 THEN "n" ELSE "m"]
MCWants6 == [r \in {1, 2, 3} |-> r = 2]
=============================================================================

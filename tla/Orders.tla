------------------------------- MODULE Orders -------------------------------
(***************************************************************************)
(* Numbers in their order, and parts of a list: what a loop over a table   *)
(* meets, and what remains of a linked list when entries are taken out.    *)
(***************************************************************************)
EXTENDS Integers, FiniteSets

\* the numbers in S, smallest first
Ascending(S) ==
    [k \in 1 .. Cardinality(S) |->
        CHOOSE i \in S : Cardinality({j \in S : j <= i}) = k]

\* the entries of the list s at the places in S, in their order
Selected(s, S) ==
    LET at == Ascending(S)
    IN  [k \in 1 .. Cardinality(S) |-> s[at[k]]]
=============================================================================

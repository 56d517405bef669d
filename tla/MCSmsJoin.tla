----------------------------- MODULE MCSmsJoin -----------------------------
(* An instance of SmsJoin for TLC: a and b share reference 1, c has the    *)
(* reference that short messages such as s are reported with.              *)
EXTENDS SmsJoin
MCRef == [m \in {"a", "b", "c", "s"} |->
    CASE m = "a" -> 1 [] m = "b" -> 1 [] OTHER -> 0]
MCMax == [m \in {"a", "b", "c", "s"} |->
    CASE m = "a" -> 2 [] m = "b" -> 2 [] m = "c" -> 2 [] OTHER -> 0]
=============================================================================

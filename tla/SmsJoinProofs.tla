--------------------------- MODULE SmsJoinProofs ---------------------------
(***************************************************************************)
(* SmsJoin keeps its table in order and its texts whole, for any messages, *)
(* slots, bus and number of faults.  In this order:                        *)
(*                                                                         *)
(*   - recursive functions over 0..N exist and follow their recursion,     *)
(*     shown with the least element of a set (the sum, the row, the text); *)
(*   - the sum of the stored numbers counts the cells under them, so parts *)
(*     stored once make the sum of 1..n just when all n are stored;        *)
(*   - a text joined then is the whole message;                            *)
(*   - the inductive invariant, step by step, and the theorems.            *)
(***************************************************************************)
EXTENDS SmsJoin, FiniteSetTheorems, NaturalsInduction, TLAPS

\* What a part is: a message that is sent and a number that fits it.
LEMMA PartTypes ==
    /\ \A m \in Msgs : maxNum[m] \in Nat /\ \A p \in PartsOf(m) : p.msg = m /\ p \in AllParts
    /\ \A p \in AllParts :
          /\ p.msg \in Msgs /\ p.seq \in Nat /\ p \in PartsOf(p.msg)
          /\ p = [msg |-> p.msg, seq |-> p.seq]
          /\ maxNum[p.msg] > 0 => p.seq \in 1 .. maxNum[p.msg]
          /\ maxNum[p.msg] = 0 => p.seq = 0
<1>1. \A m \in Msgs : maxNum[m] \in Nat /\ \A p \in PartsOf(m) : p.msg = m /\ p \in AllParts
  BY SmsAssumption DEF PartsOf, AllParts
<1>2. ASSUME NEW p \in AllParts
      PROVE  /\ p.msg \in Msgs /\ p.seq \in Nat /\ p \in PartsOf(p.msg)
             /\ p = [msg |-> p.msg, seq |-> p.seq]
             /\ maxNum[p.msg] > 0 => p.seq \in 1 .. maxNum[p.msg]
             /\ maxNum[p.msg] = 0 => p.seq = 0
  <2>1. PICK m \in Msgs : p \in PartsOf(m)
    BY DEF AllParts
  <2>2. p.msg = m /\ maxNum[m] \in Nat
    BY <1>1, <2>1
  <2>3. CASE maxNum[m] = 0
    BY <2>1, <2>2, <2>3 DEF PartsOf
  <2>4. CASE maxNum[m] # 0
    <3>1. PICK j \in 1 .. maxNum[m] : p = [msg |-> m, seq |-> j]
      BY <2>1, <2>4 DEF PartsOf
    <3> QED BY <2>1, <2>2, <2>4, <3>1
  <2> QED BY <2>3, <2>4
<1> QED BY <1>1, <1>2
----------------------------------------------------------------------------
(* What the loops over the table compute.  A recursive function over the   *)
(* slots exists and is what its equation says: the set of the slots up to  *)
(* which it does holds 0 and, with each slot, the next.                    *)

\* A set that holds 0 and, with each number below N, the next one.
LEMMA AllReached ==
    ASSUME NEW N \in Nat, NEW P, 0 \in P, \A n \in 1 .. N : n - 1 \in P => n \in P
    PROVE  0 .. N \subseteq P
<1> SUFFICES ASSUME ~ (0 .. N \subseteq P) PROVE FALSE
  OBVIOUS
<1> DEFINE T == (0 .. N) \ P
<1>1. T \subseteq Nat /\ T # {}
  OBVIOUS
<1>2. PICK x \in T : \A y \in T : ~ (<<y, x>> \in OpToRel(<, Nat))
  BY <1>1, NatLessThanWellFounded, WFMin
<1>3. x \in 1 .. N /\ x - 1 \in 0 .. N
  OBVIOUS
<1>4. x - 1 \notin T
  <2>1. x - 1 \in Nat /\ x \in Nat /\ x - 1 < x
    BY <1>3
  <2>2. <<x - 1, x>> \in OpToRel(<, Nat)
    BY <2>1 DEF OpToRel
  <2> QED BY <1>2, <2>2
<1> QED BY <1>3, <1>4

\* f holds a for 0 and makes each next value of the one before.
Follows(f, N, T, a, step) ==
    f \in [0 .. N -> T] /\ f[0] = a /\ \A n \in 1 .. N : f[n] = step[n][f[n - 1]]

\* A value for 0 and a way from each value to the next give a function.
LEMMA RecursionExists ==
    ASSUME NEW N \in Nat, NEW T, NEW a \in T, NEW step \in [1 .. N -> [T -> T]]
    PROVE  \E f : Follows(f, N, T, a, step)
<1> USE DEF Follows
<1> DEFINE Fits(f, m) == Follows(f, m, T, a, step)
           P == {m \in 0 .. N : \E f : Fits(f, m)}
<1>1. 0 \in P
  <2>1. Fits([i \in 0 .. 0 |-> a], 0)
    OBVIOUS
  <2> HIDE DEF Fits
  <2> QED BY <2>1
<1>2. \A m \in 1 .. N : m - 1 \in P => m \in P
  <2> TAKE m \in 1 .. N
  <2> HAVE m - 1 \in P
  <2>1. PICK f : Fits(f, m - 1)
    OBVIOUS
  <2> DEFINE g == [i \in 0 .. m |-> IF i = m THEN step[m][f[m - 1]] ELSE f[i]]
  <2>2. m - 1 \in 0 .. m - 1 /\ f[m - 1] \in T /\ step[m][f[m - 1]] \in T
    BY <2>1
  <2>3. \A i \in 0 .. m - 1 : f[i] \in T /\ g[i] = f[i]
    BY <2>1
  <2>4. g \in [0 .. m -> T] /\ g[0] = a
    BY <2>1, <2>2, <2>3
  <2>5. \A n \in 1 .. m : g[n] = step[n][g[n - 1]]
    <3> TAKE n \in 1 .. m
    <3>1. CASE n = m
      BY <2>3, <3>1
    <3>2. CASE n # m
      <4>1. n \in 1 .. m - 1 /\ n - 1 \in 0 .. m - 1
        BY <3>2
      <4>2. g[n] = f[n] /\ g[n - 1] = f[n - 1]
        BY <2>3, <4>1
      <4> QED BY <2>1, <4>1, <4>2
    <3> QED BY <3>1, <3>2
  <2> HIDE DEF g
  <2>6. Fits(g, m)
    BY <2>4, <2>5
  <2> HIDE DEF Fits
  <2> QED BY <2>6
<1>3. 0 .. N \subseteq P
  <2> HIDE DEF P
  <2> QED BY <1>1, <1>2, AllReached
<1>4. \E f : Fits(f, N)
  <2> HIDE DEF Fits
  <2> QED BY <1>3
<1> QED BY <1>4

\* What the loop of l_sms_recv_handler subtracts, slot by slot.
LEMMA SumOfSlots ==
    ASSUME NEW t \in [Slots -> AllParts \cup {Empty}], NEW ref
    PROVE  \E sum \in [0 .. LONG_SMS_CMAX -> Nat] :
              /\ SeqSum(t, ref) = sum[LONG_SMS_CMAX] /\ sum[0] = 0
              /\ \A n \in Slots :
                    sum[n] = sum[n - 1] + (IF Holds(t, n, ref) THEN t[n].seq ELSE 0)
<1> DEFINE N == LONG_SMS_CMAX
           add(n) == IF Holds(t, n, ref) THEN t[n].seq ELSE 0
           step == [n \in 1 .. N |-> [x \in Nat |-> x + add(n)]]
           eq(f) == f = [n \in 0 .. N |-> IF n = 0 THEN 0 ELSE f[n - 1] + add(n)]
<1>1. N \in Nat
  BY SmsAssumption
<1>2. \A n \in 1 .. N : add(n) \in Nat
  BY PartTypes DEF Slots, Holds
<1>3. step \in [1 .. N -> [Nat -> Nat]]
  <2> HIDE DEF add
  <2> QED BY <1>2
<1> HIDE DEF add
<1>4. \A n \in 1 .. N : \A x \in Nat : step[n][x] = x + add(n)
  OBVIOUS
<1> HIDE DEF step
<1>5. PICK f : Follows(f, N, Nat, 0, step)
  <2>1. 0 \in Nat
    OBVIOUS
  <2> HIDE DEF N
  <2> QED BY <1>1, <1>3, <2>1, RecursionExists
<1>6. \A n \in 1 .. N : f[n] = f[n - 1] + add(n)
  <2> TAKE n \in 1 .. N
  <2>1. f[n - 1] \in Nat
    BY <1>1, <1>5 DEF Follows
  <2> QED BY <1>4, <1>5, <2>1 DEF Follows
<1>7. eq(f)
  BY <1>5, <1>6 DEF Follows
<1> DEFINE sum == CHOOSE g : eq(g)
<1>8. eq(sum)
  <2> HIDE DEF eq
  <2> QED BY <1>7
<1>9. SeqSum(t, ref) = sum[N]
  BY DEF SeqSum, add
<1> HIDE DEF sum
<1>10. sum[0] = 0 /\ \A n \in 1 .. N : sum[n] = sum[n - 1] + add(n)
  BY <1>1, <1>8
<1>11. 0 .. N \subseteq {n \in 0 .. N : sum[n] \in Nat}
  <2> DEFINE P == {n \in 0 .. N : sum[n] \in Nat}
  <2>1. 0 \in P /\ \A n \in 1 .. N : n - 1 \in P => n \in P
    BY <1>1, <1>2, <1>10
  <2> HIDE DEF P
  <2>2. 0 .. N \subseteq P
    BY <1>1, <2>1, AllReached
  <2> QED BY <2>2 DEF P
<1>12. sum \in [0 .. N -> Nat]
  BY <1>8, <1>11
<1> QED BY <1>9, <1>10, <1>12 DEF add, Slots

\* row[n] is what the inner loop of push_sms_args has written after slot n.
Takes(t, ref, nums, n) == Holds(t, n, ref) /\ t[n].seq \in nums
RowsOf(row, t, ref, nums) ==
    /\ row \in [0 .. LONG_SMS_CMAX -> Seq(AllParts)] /\ row[0] = <<>>
    /\ \A n \in 1 .. LONG_SMS_CMAX :
          row[n] = IF Takes(t, ref, nums, n) THEN Append(row[n - 1], t[n]) ELSE row[n - 1]

\* The inner loop writes a row.
LEMMA RowOfSlots ==
    ASSUME NEW t \in [Slots -> AllParts \cup {Empty}], NEW ref, NEW nums
    PROVE  \E row : RowsOf(row, t, ref, nums) /\ Numbered(t, ref, nums) = row[LONG_SMS_CMAX]
<1> DEFINE N == LONG_SMS_CMAX
           S == Seq(AllParts)
           take(n) == Takes(t, ref, nums, n)
           next(n, x) == IF take(n) THEN Append(x, t[n]) ELSE x
           step == [n \in 1 .. N |-> [x \in S |-> next(n, x)]]
           eq(f) == f = [n \in 0 .. N |-> IF n = 0 THEN <<>>
                                          ELSE next(n, f[n - 1])]
<1>1. N \in Nat /\ <<>> \in S
  BY SmsAssumption
<1>2. \A n \in 1 .. N : \A x \in S : next(n, x) \in S
  <2> TAKE n \in 1 .. N
  <2> TAKE x \in S
  <2>1. take(n) => t[n] \in AllParts
    BY DEF Slots, Holds, Takes
  <2> HIDE DEF take
  <2> QED BY <2>1
<1>3. \A n \in 1 .. N : \A x \in S : step[n][x] = next(n, x)
  <2> HIDE DEF next, S
  <2> QED OBVIOUS
<1>4. step \in [1 .. N -> [S -> S]]
  <2> HIDE DEF next, S
  <2> QED BY <1>2
<1> HIDE DEF step
<1>5. PICK f : Follows(f, N, S, <<>>, step)
  <2> HIDE DEF N, S
  <2> QED BY <1>1, <1>4, RecursionExists
<1>6. /\ f \in [0 .. N -> S] /\ f[0] = <<>>
      /\ \A n \in 1 .. N : f[n] = next(n, f[n - 1])
  <2>1. f \in [0 .. N -> S] /\ f[0] = <<>>
    BY <1>5 DEF Follows
  <2>2. \A n \in 1 .. N : f[n] = step[n][f[n - 1]] /\ f[n - 1] \in S
    <3> HIDE DEF S
    <3> QED BY <1>1, <1>5 DEF Follows
  <2> HIDE DEF S, next
  <2> QED BY <1>3, <2>1, <2>2
<1>7. eq(f)
  <2> HIDE DEF next, S
  <2> QED BY <1>1, <1>6
<1> DEFINE row == CHOOSE g : eq(g)
<1>8. eq(row)
  <2> HIDE DEF eq
  <2> QED BY <1>7
<1>9. Numbered(t, ref, nums) = row[N]
  BY DEF Numbered, Takes
<1> HIDE DEF row
<1>10. row[0] = <<>> /\ \A n \in 1 .. N : row[n] = next(n, row[n - 1])
  <2> HIDE DEF next, S
  <2> QED BY <1>1, <1>8
<1>11. 0 .. N \subseteq {n \in 0 .. N : row[n] \in S}
  <2> DEFINE P == {n \in 0 .. N : row[n] \in S}
  <2>1. 0 \in P /\ \A n \in 1 .. N : n - 1 \in P => n \in P
    <3> HIDE DEF S, next
    <3> QED BY <1>1, <1>2, <1>10
  <2> HIDE DEF P
  <2>2. 0 .. N \subseteq P
    BY <1>1, <2>1, AllReached
  <2> QED BY <2>2 DEF P
<1>12. row \in [0 .. N -> S]
  <2> HIDE DEF S
  <2> QED BY <1>8, <1>11
<1>13. RowsOf(row, t, ref, nums)
  BY <1>10, <1>12 DEF RowsOf
<1> QED BY <1>9, <1>13

\* What stands in a row is stored under its reference and number.
LEMMA NumberedProperties ==
    ASSUME NEW t \in [Slots -> AllParts \cup {Empty}], NEW ref, NEW nums
    PROVE  /\ Numbered(t, ref, nums) \in Seq(AllParts)
           /\ \A i \in DOMAIN Numbered(t, ref, nums) : \E k \in Slots :
                 Holds(t, k, ref) /\ Numbered(t, ref, nums)[i] = t[k]
           /\ \A k \in Slots :
                 (\A n \in Slots : Holds(t, n, ref) /\ t[n].seq \in nums <=> n = k)
                 => Numbered(t, ref, nums) = <<t[k]>>
<1> DEFINE N == LONG_SMS_CMAX
           take(n) == Takes(t, ref, nums, n)
<1>0. N \in Nat /\ Slots = 1 .. N /\ N \in 0 .. N
  BY SmsAssumption DEF Slots
<1>a. PICK row : RowsOf(row, t, ref, nums) /\ Numbered(t, ref, nums) = row[N]
  BY RowOfSlots
<1>1. /\ row \in [0 .. N -> Seq(AllParts)] /\ row[0] = <<>>
      /\ \A n \in 1 .. N :
            row[n] = IF take(n) THEN Append(row[n - 1], t[n]) ELSE row[n - 1]
  BY <1>a DEF RowsOf
<1> HIDE DEF take, N
<1>2. \A n \in 1 .. N : row[n - 1] \in Seq(AllParts) /\ row[n] \in Seq(AllParts)
  <2> DEFINE S == Seq(AllParts)
  <2>1. row \in [0 .. N -> S] /\ \A n \in 1 .. N : n \in 0 .. N /\ n - 1 \in 0 .. N
    BY <1>0, <1>1
  <2> HIDE DEF S
  <2>2. \A n \in 1 .. N : row[n - 1] \in S /\ row[n] \in S
    BY <2>1
  <2> QED BY <2>2 DEF S
<1>3. \A i \in DOMAIN row[N] : \E k \in Slots : Holds(t, k, ref) /\ row[N][i] = t[k]
  <2> DEFINE P == {n \in 0 .. N : \A i \in DOMAIN row[n] : \E k \in Slots :
                                     Holds(t, k, ref) /\ row[n][i] = t[k]}
  <2>1. 0 \in P
    BY <1>0, <1>1
  <2>2. \A n \in 1 .. N : n - 1 \in P => n \in P
    <3> TAKE n \in 1 .. N
    <3> HAVE n - 1 \in P
    <3> SUFFICES ASSUME NEW i \in DOMAIN row[n]
                 PROVE  \E k \in Slots : Holds(t, k, ref) /\ row[n][i] = t[k]
      BY <1>0
    <3>1. CASE take(n)
      <4>1. row[n] = Append(row[n - 1], t[n]) /\ Holds(t, n, ref)
        BY <1>0, <1>1, <3>1 DEF take, Takes
      <4>2. (i \in DOMAIN row[n - 1] /\ row[n][i] = row[n - 1][i]) \/ row[n][i] = t[n]
        BY <1>2, <4>1
      <4> QED BY <1>0, <4>1, <4>2
    <3>2. CASE ~ take(n)
      BY <1>0, <1>1, <3>2
    <3> QED BY <3>1, <3>2
  <2> HIDE DEF P
  <2>3. N \in P
    BY <1>0, <2>1, <2>2, AllReached
  <2> QED BY <2>3 DEF P
<1>4. ASSUME NEW k \in Slots, \A n \in Slots : take(n) <=> n = k
      PROVE  row[N] = <<t[k]>>
  <2> DEFINE P == {n \in 0 .. N : row[n] = IF k <= n THEN <<t[k]>> ELSE <<>>}
  <2>1. 0 \in P
    BY <1>0, <1>1
  <2>2. \A n \in 1 .. N : n - 1 \in P => n \in P
    <3> TAKE n \in 1 .. N
    <3> HAVE n - 1 \in P
    <3>1. CASE n = k
      <4>0. ~ (k <= n - 1) /\ take(n)
        BY <1>0, <1>4, <3>1
      <4>1. row[n] = Append(row[n - 1], t[n]) /\ row[n - 1] = <<>>
        BY <1>1, <4>0
      <4>2. row[n] = <<t[k]>>
        BY <3>1, <4>1
      <4> QED BY <1>0, <3>1, <4>2
    <3>2. CASE n # k
      <4>1. row[n] = row[n - 1]
        BY <1>0, <1>1, <1>4, <3>2
      <4>2. k <= n - 1 <=> k <= n
        BY <1>0, <3>2
      <4> QED BY <1>0, <4>1, <4>2
    <3> QED BY <3>1, <3>2
  <2> HIDE DEF P
  <2>3. N \in P
    BY <1>0, <2>1, <2>2, AllReached
  <2> QED BY <1>0, <2>3 DEF P
<1>5. Numbered(t, ref, nums) = row[N] /\ row[N] \in Seq(AllParts)
  BY <1>0, <1>1, <1>a
<1> QED BY <1>3, <1>4, <1>5 DEF take, Takes

\* text[j] is what push_sms_args has written after the parts numbered j.
TextsOf(text, t, p) ==
    /\ text \in [0 .. maxNum[p.msg] -> Seq(AllParts)] /\ text[0] = <<>>
    /\ \A j \in 1 .. maxNum[p.msg] : text[j] = text[j - 1] \o Numbered(t, RefOf(p), {j})

\* The outer loop writes one row after the other.
LEMMA TextOfRows ==
    ASSUME NEW t \in [Slots -> AllParts \cup {Empty}], NEW p \in AllParts
    PROVE  \E text : TextsOf(text, t, p) /\ Text(t, p) = text[maxNum[p.msg]]
<1> DEFINE N == maxNum[p.msg]
           S == Seq(AllParts)
           row(j) == Numbered(t, RefOf(p), {j})
           next(j, x) == x \o row(j)
           step == [j \in 1 .. N |-> [x \in S |-> next(j, x)]]
           eq(f) == f = [j \in 0 .. N |-> IF j = 0 THEN <<>> ELSE next(j, f[j - 1])]
<1>1. N \in Nat /\ <<>> \in S
  BY PartTypes
<1>2. \A j \in 1 .. N : \A x \in S : next(j, x) \in S
  <2> TAKE j \in 1 .. N
  <2> TAKE x \in S
  <2>1. row(j) \in Seq(AllParts)
    BY NumberedProperties
  <2> HIDE DEF row
  <2> QED BY <2>1
<1>3. \A j \in 1 .. N : \A x \in S : step[j][x] = next(j, x)
  <2> HIDE DEF next, S
  <2> QED OBVIOUS
<1>4. step \in [1 .. N -> [S -> S]]
  <2> HIDE DEF next, S
  <2> QED BY <1>2
<1> HIDE DEF step
<1>5. PICK f : Follows(f, N, S, <<>>, step)
  <2> HIDE DEF N, S
  <2> QED BY <1>1, <1>4, RecursionExists
<1>6. /\ f \in [0 .. N -> S] /\ f[0] = <<>>
      /\ \A j \in 1 .. N : f[j] = next(j, f[j - 1])
  <2>1. f \in [0 .. N -> S] /\ f[0] = <<>>
    BY <1>5 DEF Follows
  <2>2. \A j \in 1 .. N : f[j] = step[j][f[j - 1]] /\ f[j - 1] \in S
    <3> HIDE DEF S, N
    <3> QED BY <1>1, <1>5 DEF Follows
  <2> HIDE DEF S, next
  <2> QED BY <1>3, <2>1, <2>2
<1>7. eq(f)
  <2> HIDE DEF next, S
  <2> QED BY <1>1, <1>6
<1> DEFINE text == CHOOSE g : eq(g)
<1>8. eq(text)
  <2> HIDE DEF eq
  <2> QED BY <1>7
<1>9. Text(t, p) = text[N]
  BY DEF Text
<1> HIDE DEF text
<1>10. text[0] = <<>> /\ \A j \in 1 .. N : text[j] = next(j, text[j - 1])
  <2> HIDE DEF next, S
  <2> QED BY <1>1, <1>8
<1>11. 0 .. N \subseteq {j \in 0 .. N : text[j] \in S}
  <2> DEFINE P == {j \in 0 .. N : text[j] \in S}
  <2>1. 0 \in P /\ \A j \in 1 .. N : j - 1 \in P => j \in P
    <3> HIDE DEF S, next
    <3> QED BY <1>1, <1>2, <1>10
  <2> HIDE DEF P, N
  <2>2. 0 .. N \subseteq P
    BY <1>1, <2>1, AllReached
  <2> QED BY <2>2 DEF P
<1>12. text \in [0 .. N -> S]
  <2> HIDE DEF S
  <2> QED BY <1>8, <1>11
<1>13. TextsOf(text, t, p)
  BY <1>10, <1>12 DEF TextsOf
<1> QED BY <1>9, <1>13

\* A text holds parts stored under the reference of its message.
LEMMA TextHoldsStored ==
    ASSUME NEW t \in [Slots -> AllParts \cup {Empty}], NEW p \in AllParts
    PROVE  /\ Text(t, p) \in Seq(AllParts)
           /\ \A i \in DOMAIN Text(t, p) : \E k \in Slots :
                 Holds(t, k, RefOf(p)) /\ Text(t, p)[i] = t[k]
<1> DEFINE N == maxNum[p.msg]
           S == Seq(AllParts)
           row(j) == Numbered(t, RefOf(p), {j})
           Stored(s) == \A i \in DOMAIN s : \E k \in Slots : Holds(t, k, RefOf(p)) /\ s[i] = t[k]
<1>1. N \in Nat /\ N \in 0 .. N
  BY PartTypes
<1>2. PICK text : TextsOf(text, t, p) /\ Text(t, p) = text[N]
  BY TextOfRows
<1>3. /\ text \in [0 .. N -> S] /\ text[0] = <<>>
      /\ \A j \in 1 .. N : text[j] = text[j - 1] \o row(j)
  BY <1>2 DEF TextsOf
<1>4. \A j \in 1 .. N : row(j) \in S /\ Stored(row(j))
  <2> TAKE j \in 1 .. N
  <2> DEFINE nums == {j}
             ref == RefOf(p)
  <2> HIDE DEF nums, ref
  <2>1. /\ Numbered(t, ref, nums) \in S
        /\ \A i \in DOMAIN Numbered(t, ref, nums) : \E k \in Slots :
              Holds(t, k, ref) /\ Numbered(t, ref, nums)[i] = t[k]
    BY NumberedProperties
  <2> QED BY <2>1 DEF nums, ref
<1> HIDE DEF row, N
<1>5. \A x, y \in S : Stored(x) /\ Stored(y) => Stored(x \o y)
  <2> SUFFICES ASSUME NEW x \in S, NEW y \in S, Stored(x), Stored(y),
                      NEW i \in DOMAIN (x \o y)
               PROVE  \E k \in Slots : Holds(t, k, RefOf(p)) /\ (x \o y)[i] = t[k]
    OBVIOUS
  <2>1. \/ i \in DOMAIN x /\ (x \o y)[i] = x[i]
        \/ i - Len(x) \in DOMAIN y /\ (x \o y)[i] = y[i - Len(x)]
    OBVIOUS
  <2> QED BY <2>1
<1>6. Stored(<<>>)
  OBVIOUS
<1> HIDE DEF Stored, S
<1>7. \A j \in 1 .. N : j \in 0 .. N /\ j - 1 \in 0 .. N
  BY <1>1
<1> DEFINE P == {j \in 0 .. N : Stored(text[j])}
<1>8. 0 \in P /\ \A j \in 1 .. N : j - 1 \in P => j \in P
  <2>1. 0 \in P
    BY <1>1, <1>3, <1>6
  <2>2. ASSUME NEW j \in 1 .. N, j - 1 \in P PROVE j \in P
    <3>1. text[j - 1] \in S /\ Stored(text[j - 1])
      BY <1>3, <1>7, <2>2
    <3>2. Stored(text[j])
      BY <1>3, <1>4, <1>5, <3>1
    <3> QED BY <1>7, <3>2
  <2> QED BY <2>1, <2>2
<1> HIDE DEF P
<1>9. N \in P
  BY <1>1, <1>8, AllReached
<1>10. text[N] \in S /\ Stored(text[N])
  BY <1>1, <1>3, <1>9 DEF P
<1> QED BY <1>2, <1>10 DEF S, Stored

\* When the slots of a reference hold each part of a message once, its text is
\* the whole message.
LEMMA TextIsWhole ==
    ASSUME NEW t \in [Slots -> AllParts \cup {Empty}], NEW p \in AllParts,
           maxNum[p.msg] > 0,
           \A j \in 1 .. maxNum[p.msg] : \E k \in Slots :
              /\ t[k] = [msg |-> p.msg, seq |-> j]
              /\ \A n \in Slots : Takes(t, RefOf(p), {j}, n) <=> n = k
    PROVE  Text(t, p) = Whole(p.msg)
<1> DEFINE N == maxNum[p.msg]
           S == Seq(AllParts)
           row(j) == Numbered(t, RefOf(p), {j})
           part(j) == [msg |-> p.msg, seq |-> j]
           Upto(j) == [i \in 1 .. j |-> part(i)]
<1>1. N \in Nat /\ N \in 0 .. N
  BY PartTypes
<1>2. PICK text : TextsOf(text, t, p) /\ Text(t, p) = text[N]
  BY TextOfRows
<1>3. text[0] = <<>> /\ \A j \in 1 .. N : text[j] = text[j - 1] \o row(j)
  BY <1>2 DEF TextsOf
<1>4. \A j \in 1 .. N : row(j) = <<part(j)>>
  <2> TAKE j \in 1 .. N
  <2>1. PICK k \in Slots : /\ t[k] = part(j)
                           /\ \A n \in Slots : Takes(t, RefOf(p), {j}, n) <=> n = k
    OBVIOUS
  <2>2. row(j) = <<t[k]>>
    BY <2>1, NumberedProperties DEF Takes
  <2> QED BY <2>1, <2>2
<1> HIDE DEF row, N, part
<1>5. Upto(0) = <<>> /\ \A j \in 1 .. N : Upto(j - 1) \o <<part(j)>> = Upto(j)
  <2>1. Upto(0) = <<>>
    OBVIOUS
  <2>2. ASSUME NEW j \in 1 .. N PROVE Upto(j - 1) \o <<part(j)>> = Upto(j)
    <3> DEFINE T == {part(i) : i \in 1 .. j}
    <3>1. j - 1 \in Nat /\ j \in Nat
      BY <1>1
    <3>2. Upto(j - 1) \in Seq(T) /\ Len(Upto(j - 1)) = j - 1 /\ <<part(j)>> \in Seq(T)
      BY <3>1
    <3>3. /\ Len(Upto(j - 1) \o <<part(j)>>) = j
          /\ DOMAIN (Upto(j - 1) \o <<part(j)>>) = 1 .. j
          /\ \A i \in 1 .. j : (Upto(j - 1) \o <<part(j)>>)[i] =
                                  IF i <= j - 1 THEN Upto(j - 1)[i] ELSE part(j)
      <4> HIDE DEF Upto
      <4> QED BY <3>1, <3>2
    <3>4. \A i \in 1 .. j : (Upto(j - 1) \o <<part(j)>>)[i] = part(i)
      <4> TAKE i \in 1 .. j
      <4>1. i <= j - 1 \/ i = j
        BY <3>1
      <4> QED BY <3>1, <3>3, <4>1
    <3> DEFINE x == Upto(j - 1) \o <<part(j)>>
    <3>5. x \in Seq(T)
      <4> HIDE DEF Upto, T
      <4> QED BY <3>2
    <3>6. DOMAIN x = 1 .. j /\ \A i \in 1 .. j : x[i] = part(i)
      BY <3>3, <3>4
    <3> HIDE DEF x
    <3>7. x = [i \in 1 .. j |-> x[i]]
      <4> HIDE DEF T
      <4> QED BY <3>1, <3>5, <3>6
    <3> QED BY <3>6, <3>7 DEF x
  <2> QED BY <2>1, <2>2
<1> HIDE DEF Upto
<1> DEFINE P == {j \in 0 .. N : text[j] = Upto(j)}
<1>6. 0 \in P /\ \A j \in 1 .. N : j - 1 \in P => j \in P
  <2>1. 0 \in P
    BY <1>1, <1>3, <1>5
  <2>2. ASSUME NEW j \in 1 .. N, j - 1 \in P PROVE j \in P
    <3>1. text[j] = Upto(j)
      BY <1>3, <1>4, <1>5, <2>2
    <3> QED BY <1>1, <3>1
  <2> QED BY <2>1, <2>2
<1> HIDE DEF P
<1>7. N \in P
  BY <1>1, <1>6, AllReached
<1>8. text[N] = Upto(N)
  BY <1>7 DEF P
<1> QED BY <1>2, <1>8 DEF Upto, part, N, Whole
----------------------------------------------------------------------------
(* The sum as a number of cells: a stored part with number s has the cells *)
(* 1 .. s.  The parts of one message, stored once each, have cells in the  *)
(* triangle of its numbers, and fill it only when all of them are stored.  *)

Cells(t, ref) ==
    {c \in Slots \X (1 .. 255) : Holds(t, c[1], ref) /\ c[2] <= t[c[1]].seq}
Triangle(n) == {c \in (1 .. n) \X (1 .. n) : c[2] <= c[1]}

\* The cells are in a finite grid.
LEMMA GridIsFinite == IsFiniteSet(Slots \X (1 .. 255))
<1>1. LONG_SMS_CMAX \in Int /\ 1 \in Int /\ 255 \in Int
  BY SmsAssumption
<1>2. IsFiniteSet(Slots)
  BY <1>1, FS_Interval DEF Slots
<1>3. IsFiniteSet(1 .. 255)
  BY <1>1, FS_Interval
<1> QED BY <1>2, <1>3, FS_Product

\* A part has its number of cells, and the sum counts them.
LEMMA SumCountsCells ==
    ASSUME NEW t \in [Slots -> AllParts \cup {Empty}], NEW ref
    PROVE  IsFiniteSet(Cells(t, ref)) /\ SeqSum(t, ref) = Cardinality(Cells(t, ref))
<1> DEFINE N == LONG_SMS_CMAX
           C == Cells(t, ref)
           Upto(n) == {c \in C : c[1] <= n}
           Col(n) == {c \in C : c[1] = n}
           add(n) == IF Holds(t, n, ref) THEN t[n].seq ELSE 0
<1>0. N \in Nat /\ N \in 0 .. N /\ Slots = 1 .. N
  BY SmsAssumption DEF Slots
<1>1. PICK sum \in [0 .. N -> Nat] :
          /\ SeqSum(t, ref) = sum[N] /\ sum[0] = 0
          /\ \A n \in Slots : sum[n] = sum[n - 1] + add(n)
  BY SumOfSlots
<1>2. IsFiniteSet(C)
  <2>1. C \in SUBSET (Slots \X (1 .. 255))
    BY DEF Cells
  <2> QED BY <2>1, GridIsFinite, FS_Subset
<1>3. \A n \in 0 .. N : IsFiniteSet(Upto(n)) /\ IsFiniteSet(Col(n))
  <2> TAKE n \in 0 .. N
  <2>1. Upto(n) \in SUBSET C /\ Col(n) \in SUBSET C
    <3> HIDE DEF C
    <3> QED OBVIOUS
  <2> HIDE DEF Upto, Col, C
  <2> QED BY <1>2, <2>1, FS_Subset
<1>4. \A c \in C : c[1] \in 1 .. N
  BY <1>0 DEF Cells
<1>5. \A n \in 1 .. N : add(n) \in Nat /\ Cardinality(Col(n)) = add(n)
  <2> TAKE n \in 1 .. N
  <2>1. CASE ~ Holds(t, n, ref)
    <3>1. \A c \in C : c[1] # n
      BY <2>1 DEF Cells
    <3>2. Col(n) = {}
      BY <3>1
    <3> QED BY <2>1, <3>2, FS_EmptySet
  <2>2. CASE Holds(t, n, ref)
    <3> DEFINE s == t[n].seq
               f == [k \in 1 .. s |-> <<n, k>>]
    <3>1. t[n] \in AllParts
      BY <1>0, <2>2 DEF Holds
    <3>2. s \in 0 .. 255
      <4> DEFINE max == maxNum[t[n].msg]
      <4>1. t[n].msg \in Msgs /\ s \in Nat
        BY <3>1, PartTypes
      <4>2. max \in 0 .. 255
        BY <4>1, SmsAssumption
      <4>3. (max > 0 => s \in 1 .. max) /\ (max = 0 => s = 0)
        BY <3>1, PartTypes
      <4> HIDE DEF max, s
      <4> QED BY <4>1, <4>2, <4>3
    <3>3. Col(n) = {<<n, k>> : k \in 1 .. s}
      <4>1. \A c \in Slots \X (1 .. 255) : c[1] = n => c = <<n, c[2]>>
        OBVIOUS
      <4>2. ASSUME NEW c \in Col(n) PROVE c \in {<<n, k>> : k \in 1 .. s}
        <5>1. c \in Slots \X (1 .. 255) /\ c[1] = n /\ c[2] <= s
          BY DEF Cells
        <5>2. c[2] \in 1 .. 255 /\ c = <<n, c[2]>>
          BY <4>1, <5>1
        <5>3. c[2] \in 1 .. s
          <6>1. \A k \in 1 .. 255, x \in 0 .. 255 : k <= x => k \in 1 .. x
            OBVIOUS
          <6> HIDE DEF s
          <6> QED BY <3>2, <5>1, <5>2, <6>1
        <5> QED BY <5>2, <5>3
      <4>3. ASSUME NEW k \in 1 .. s PROVE <<n, k>> \in Col(n)
        <5> DEFINE c == <<n, k>>
        <5>0. k \in 1 .. 255 /\ k <= s /\ n \in Slots
          <6> HIDE DEF s
          <6> QED BY <1>0, <3>2
        <5>1. c \in Slots \X (1 .. 255) /\ c[1] = n /\ c[2] = k
          BY <5>0
        <5> HIDE DEF c
        <5>2. c[2] <= t[c[1]].seq
          BY <5>0, <5>1
        <5> QED BY <2>2, <5>1, <5>2 DEF Cells
      <4> QED BY <4>2, <4>3
    <3> HIDE DEF s
    <3>4. f \in Bijection(1 .. s, Col(n))
      <4> HIDE DEF Col
      <4>1. f \in [1 .. s -> Col(n)]
        BY <3>3
      <4>2. \A a, b \in 1 .. s : f[a] = f[b] => a = b
        OBVIOUS
      <4>3. \A c \in Col(n) : \E k \in 1 .. s : f[k] = c
        BY <3>3
      <4> HIDE DEF f
      <4> QED BY <4>1, <4>2, <4>3
              DEF Bijection, Injection, Surjection, IsInjective
    <3> HIDE DEF Col, f
    <3>5. IsFiniteSet(1 .. s) /\ Cardinality(1 .. s) = s
      <4>1. 1 \in Int /\ s \in Int /\ (1 > s => s = 0)
        BY <3>2
      <4>2. IsFiniteSet(1 .. s) /\ Cardinality(1 .. s) = IF 1 > s THEN 0 ELSE s - 1 + 1
        BY <4>1, FS_Interval
      <4> QED BY <4>1, <4>2
    <3>6. ExistsBijection(1 .. s, Col(n))
      BY <3>4 DEF ExistsBijection
    <3>7. Cardinality(Col(n)) = s
      BY <3>5, <3>6, FS_Bijection
    <3>8. add(n) = s
      BY <2>2 DEF s
    <3> HIDE DEF add
    <3> QED BY <3>2, <3>7, <3>8
  <2> QED BY <2>1, <2>2
<1>6. \A n \in 1 .. N : Upto(n) = Upto(n - 1) \cup Col(n) /\ Upto(n - 1) \cap Col(n) = {}
  <2> TAKE n \in 1 .. N
  <2>1. \A c \in C : (c[1] <= n <=> c[1] <= n - 1 \/ c[1] = n)
                     /\ ~ (c[1] <= n - 1 /\ c[1] = n)
    <3> HIDE DEF C
    <3> QED BY <1>0, <1>4
  <2> HIDE DEF C
  <2> QED BY <2>1
<1>7. Upto(0) = {} /\ Upto(N) = C
  <2> HIDE DEF C
  <2> QED BY <1>0, <1>4
<1> HIDE DEF add, Col, Upto, C
<1> DEFINE P == {n \in 0 .. N : sum[n] = Cardinality(Upto(n))}
<1>8. 0 \in P /\ \A n \in 1 .. N : n - 1 \in P => n \in P
  <2>1. 0 \in P
    <3>1. Cardinality(Upto(0)) = 0
      BY <1>7, FS_EmptySet
    <3> QED BY <1>0, <1>1, <3>1
  <2>2. ASSUME NEW n \in 1 .. N, n - 1 \in P PROVE n \in P
    <3>1. n - 1 \in 0 .. N /\ n \in 0 .. N
      BY <1>0
    <3>2. Cardinality(Upto(n)) = Cardinality(Upto(n - 1)) + Cardinality(Col(n))
                                 - Cardinality({})
      BY <1>3, <1>6, <3>1, FS_Union
    <3>3. Cardinality(Upto(n)) = sum[n - 1] + add(n)
      BY <1>1, <1>5, <2>2, <3>1, <3>2, FS_EmptySet
    <3> QED BY <1>0, <1>1, <3>1, <3>3
  <2> QED BY <2>1, <2>2
<1> HIDE DEF P
<1>9. N \in P
  BY <1>0, <1>8, AllReached
<1> QED BY <1>1, <1>2, <1>7, <1>9 DEF P, C

\* The triangle of the numbers up to n is half of n rows of n + 1.
LEMMA TriangleCounts ==
    ASSUME NEW n \in Nat
    PROVE  IsFiniteSet(Triangle(n)) /\ Cardinality(Triangle(n)) = (n * (n + 1)) \div 2
<1> DEFINE All == (1 .. n) \X (1 .. n + 1)
           T == Triangle(n)
           U == {c \in All : c[2] > c[1]}
           f == [c \in T |-> <<c[2], c[1] + 1>>]
<1>1. IsFiniteSet(All) /\ Cardinality(All) = n * (n + 1)
  <2>1. /\ IsFiniteSet(1 .. n) /\ Cardinality(1 .. n) = n
        /\ IsFiniteSet(1 .. n + 1) /\ Cardinality(1 .. n + 1) = n + 1
    <3>1. 1 \in Int /\ n \in Int /\ n + 1 \in Int
      OBVIOUS
    <3>2. /\ IsFiniteSet(1 .. n) /\ Cardinality(1 .. n) = IF 1 > n THEN 0 ELSE n - 1 + 1
          /\ IsFiniteSet(1 .. n + 1)
          /\ Cardinality(1 .. n + 1) = IF 1 > n + 1 THEN 0 ELSE n + 1 - 1 + 1
      BY <3>1, FS_Interval
    <3> QED BY <3>2
  <2> DEFINE A == 1 .. n
             B == 1 .. n + 1
  <2> HIDE DEF A, B
  <2>2. IsFiniteSet(A \X B) /\ Cardinality(A \X B) = Cardinality(A) * Cardinality(B)
    BY <2>1, FS_Product DEF A, B
  <2> QED BY <2>1, <2>2 DEF A, B
<1>2. T \in SUBSET All /\ U \in SUBSET All /\ T \cup U = All /\ T \cap U = {}
  <2>1. ASSUME NEW c \in T PROVE c \in All /\ ~ (c[2] > c[1])
    BY DEF Triangle
  <2>2. ASSUME NEW c \in All, ~ (c[2] > c[1]) PROVE c \in T
    <3>1. c = <<c[1], c[2]>> /\ c[1] \in 1 .. n /\ c[2] \in 1 .. n /\ c[2] <= c[1]
      BY <2>2
    <3>2. c \in (1 .. n) \X (1 .. n)
      BY <3>1
    <3> QED BY <3>1, <3>2 DEF Triangle
  <2> HIDE DEF T, All
  <2> QED BY <2>1, <2>2
<1>3. f \in Bijection(T, U)
  <2>1. \A c \in T : c[1] \in 1 .. n /\ c[2] \in 1 .. n /\ c[2] <= c[1] /\ c = <<c[1], c[2]>>
    BY DEF Triangle
  <2>2. \A c \in U : c[1] \in 1 .. n /\ c[2] \in 1 .. n + 1 /\ c[2] > c[1] /\ c = <<c[1], c[2]>>
    OBVIOUS
  <2>3. ASSUME NEW c \in T PROVE f[c] \in U
    <3> DEFINE d == <<c[2], c[1] + 1>>
    <3>1. d \in All /\ d[2] > d[1]
      BY <2>1
    <3> HIDE DEF d, All
    <3>2. d \in U
      BY <3>1
    <3> HIDE DEF T, U
    <3> QED BY <3>2 DEF d
  <2>4. ASSUME NEW c \in T, NEW d \in T, f[c] = f[d] PROVE c = d
    <3>1. c[2] = d[2] /\ c[1] + 1 = d[1] + 1
      <4> HIDE DEF T
      <4> QED BY <2>4
    <3>2. c[1] = d[1]
      BY <2>1, <3>1
    <3> HIDE DEF T
    <3> QED BY <2>1, <3>1, <3>2
  <2>5. ASSUME NEW d \in U PROVE \E c \in T : f[c] = d
    <3> DEFINE c == <<d[2] - 1, d[1]>>
    <3>1. d[2] - 1 \in 1 .. n /\ d[1] \in 1 .. n /\ d[1] <= d[2] - 1
      BY <2>2
    <3>2. c \in T
      BY <3>1 DEF Triangle
    <3>3. c[2] = d[1] /\ c[1] + 1 = d[2]
      BY <2>2
    <3> HIDE DEF c, T, U
    <3>4. f[c] = <<d[1], d[2]>>
      BY <3>2, <3>3
    <3> QED BY <2>2, <3>2, <3>4
  <2> HIDE DEF T, U
  <2>6. f \in [T -> U]
    BY <2>3
  <2> HIDE DEF f
  <2> QED BY <2>4, <2>5, <2>6 DEF Bijection, Injection, Surjection, IsInjective
<1> HIDE DEF All, T, U, f
<1>4. IsFiniteSet(T) /\ IsFiniteSet(U) /\ Cardinality(T) \in Nat
  BY <1>1, <1>2, FS_Subset, FS_CardinalityType
<1>5. ExistsBijection(T, U)
  BY <1>3 DEF ExistsBijection
<1>6. Cardinality(U) = Cardinality(T)
  BY <1>4, <1>5, FS_Bijection
<1>7. Cardinality(All) = Cardinality(T) + Cardinality(U) - Cardinality({})
  BY <1>2, <1>4, FS_Union
<1>8. n * (n + 1) = 2 * Cardinality(T)
  BY <1>1, <1>4, <1>6, <1>7, FS_EmptySet
<1>9. \A x \in Nat : (2 * x) \div 2 = x
  OBVIOUS
<1> QED BY <1>4, <1>8, <1>9 DEF T

\* The slots with a part under a reference.
HeldUnder(t, ref) == {i \in Slots : Holds(t, i, ref)}

\* The slots of the reference of p hold parts of p's message, each once.
OnlyOnce(t, p) ==
    /\ \A i \in HeldUnder(t, RefOf(p)) : t[i].msg = p.msg
    /\ \A i, k \in HeldUnder(t, RefOf(p)) : t[i] = t[k] => i = k

\* The numbers of one message's parts add up when all are stored, not before.
LEMMA AddsUpWhenWhole ==
    ASSUME NEW t \in [Slots -> AllParts \cup {Empty}], NEW p \in AllParts,
           maxNum[p.msg] > 0, OnlyOnce(t, p)
    PROVE  AddsUp(t, p) <=> PartsOf(p.msg) \subseteq Held(t)
<1> DEFINE m == p.msg
           n == maxNum[m]
           ref == RefOf(p)
           C == Cells(t, ref)
           f == [c \in C |-> <<t[c[1]].seq, c[2]>>]
<1>1. m \in Msgs /\ n \in 1 .. 255 /\ n \in Nat /\ n # 0
  <2>1. m \in Msgs
    BY PartTypes
  <2>2. n \in 0 .. 255
    BY <2>1, SmsAssumption
  <2> QED BY <2>1, <2>2
<1>2. /\ IsFiniteSet(C) /\ SeqSum(t, ref) = Cardinality(C)
      /\ IsFiniteSet(Triangle(n)) /\ Cardinality(Triangle(n)) = (n * (n + 1)) \div 2
  BY <1>1, SumCountsCells, TriangleCounts
<1>3. \A i \in Slots : Holds(t, i, ref) =>
          t[i] \in AllParts /\ t[i].msg = m /\ t[i].seq \in 1 .. n
                            /\ t[i] = [msg |-> m, seq |-> t[i].seq]
  <2> TAKE i \in Slots
  <2> HAVE Holds(t, i, ref)
  <2>1. t[i] \in AllParts /\ t[i].msg = m
    BY DEF OnlyOnce, HeldUnder, Holds
  <2>2. maxNum[t[i].msg] > 0
    BY <2>1
  <2> QED BY <2>1, <2>2, PartTypes
<1>4. \A c \in C : /\ c[1] \in Slots /\ c[2] \in 1 .. 255 /\ c = <<c[1], c[2]>>
                   /\ Holds(t, c[1], ref) /\ c[2] <= t[c[1]].seq
  BY DEF Cells
<1>5. f \in Injection(C, Triangle(n))
  <2>1. ASSUME NEW c \in C PROVE f[c] \in Triangle(n)
    <3> DEFINE d == <<t[c[1]].seq, c[2]>>
    <3>1. t[c[1]].seq \in 1 .. n /\ c[2] \in 1 .. n /\ c[2] <= t[c[1]].seq
      <4>1. \A k \in 1 .. 255, x \in 1 .. n : k <= x => k \in 1 .. n
        BY <1>1
      <4>2. t[c[1]].seq \in 1 .. n
        <5> HIDE DEF n, C, ref
        <5> QED BY <1>3, <1>4
      <4>3. c[2] \in 1 .. 255 /\ c[2] <= t[c[1]].seq
        <5> HIDE DEF C
        <5> QED BY <1>4
      <4> HIDE DEF n, C, ref
      <4> QED BY <4>1, <4>2, <4>3
    <3>2. d \in Triangle(n)
      BY <3>1 DEF Triangle
    <3> HIDE DEF C
    <3> QED BY <3>2
  <2>2. ASSUME NEW c \in C, NEW d \in C, f[c] = f[d] PROVE c = d
    <3> HIDE DEF C
    <3>1. t[c[1]].seq = t[d[1]].seq /\ c[2] = d[2]
      BY <2>2
    <3>2. t[c[1]] = t[d[1]]
      BY <1>3, <1>4, <3>1
    <3>3. c[1] = d[1]
      BY <1>4, <3>2 DEF OnlyOnce, HeldUnder
    <3> QED BY <1>4, <3>1, <3>3
  <2>3. f \in [C -> Triangle(n)]
    <3> HIDE DEF C, n
    <3> QED BY <2>1
  <2> HIDE DEF f, C, n
  <2> QED BY <2>2, <2>3 DEF Injection, IsInjective
<1>6. AddsUp(t, p) <=> f \in Surjection(C, Triangle(n))
  <2>1. AddsUp(t, p) <=> Cardinality(C) = Cardinality(Triangle(n))
    BY <1>2 DEF AddsUp
  <2> HIDE DEF f, C, n
  <2> QED BY <1>2, <1>5, <2>1, FS_Injection
<1>7. PartsOf(m) = {[msg |-> m, seq |-> j] : j \in 1 .. n}
  BY <1>1 DEF PartsOf
<1>8. ASSUME f \in Surjection(C, Triangle(n)), NEW j \in 1 .. n
      PROVE  [msg |-> m, seq |-> j] \in Held(t)
  <2>1. <<j, 1>> \in Triangle(n)
    BY <1>1 DEF Triangle
  <2>2. PICK c \in C : f[c] = <<j, 1>>
    <3> HIDE DEF f, C, n
    <3> QED BY <1>8, <2>1 DEF Surjection
  <2>3. t[c[1]].seq = j
    <3> HIDE DEF C
    <3> QED BY <2>2
  <2>4. c[1] \in Slots /\ t[c[1]] = [msg |-> m, seq |-> j] /\ t[c[1]] # Empty
    <3> HIDE DEF C
    <3> QED BY <1>3, <1>4, <2>3, EmptyAssumption
  <2> QED BY <2>4 DEF Held
<1>9. ASSUME PartsOf(m) \subseteq Held(t) PROVE f \in Surjection(C, Triangle(n))
  <2> SUFFICES ASSUME NEW d \in Triangle(n) PROVE \E c \in C : f[c] = d
    <3> HIDE DEF f, C, n
    <3> QED BY <1>5 DEF Surjection, Injection
  <2>1. d[1] \in 1 .. n /\ d[2] \in 1 .. n /\ d[2] <= d[1] /\ d = <<d[1], d[2]>>
    BY DEF Triangle
  <2>2. PICK i \in Slots : t[i] = [msg |-> m, seq |-> d[1]] /\ t[i] # Empty
    BY <1>7, <1>9, <2>1 DEF Held
  <2>3. Holds(t, i, ref) /\ t[i].seq = d[1]
    BY <2>2 DEF Holds, RefOf
  <2>4. d[2] \in 1 .. 255
    BY <1>1, <2>1
  <2> DEFINE c == <<i, d[2]>>
  <2>5. c \in Slots \X (1 .. 255) /\ c[1] = i /\ c[2] = d[2]
    BY <2>4
  <2> HIDE DEF c
  <2>6. c \in C
    BY <2>1, <2>3, <2>5 DEF Cells
  <2> HIDE DEF C
  <2>7. f[c] = <<d[1], d[2]>>
    BY <2>3, <2>5, <2>6
  <2> QED BY <2>1, <2>6, <2>7
<1> HIDE DEF f, C
<1> QED BY <1>6, <1>7, <1>8, <1>9

\* The text of parts that add up is the message.
LEMMA TextOfAll ==
    ASSUME NEW t \in [Slots -> AllParts \cup {Empty}], NEW p \in AllParts,
           maxNum[p.msg] > 0, OnlyOnce(t, p), PartsOf(p.msg) \subseteq Held(t)
    PROVE  Text(t, p) = Whole(p.msg)
<1> DEFINE part(j) == [msg |-> p.msg, seq |-> j]
<1> SUFFICES ASSUME NEW j \in 1 .. maxNum[p.msg]
             PROVE  \E k \in Slots : /\ t[k] = part(j)
                                     /\ \A n \in Slots : Takes(t, RefOf(p), {j}, n) <=> n = k
  BY TextIsWhole
<1>1. part(j) \in PartsOf(p.msg)
  BY DEF PartsOf
<1>2. PICK k \in Slots : t[k] = part(j) /\ t[k] # Empty
  BY <1>1 DEF Held
<1>3. Takes(t, RefOf(p), {j}, k)
  BY <1>2 DEF Takes, Holds, RefOf
<1>4. ASSUME NEW n \in Slots, Takes(t, RefOf(p), {j}, n) PROVE n = k
  <2>1. /\ n \in HeldUnder(t, RefOf(p)) /\ k \in HeldUnder(t, RefOf(p))
        /\ t[n] \in AllParts /\ t[n].seq = j
    BY <1>3, <1>4 DEF Takes, HeldUnder, Holds
  <2>2. t[n] = part(j)
    BY <2>1, PartTypes DEF OnlyOnce
  <2> QED BY <1>2, <2>1, <2>2 DEF OnlyOnce
<1> QED BY <1>2, <1>3, <1>4
----------------------------------------------------------------------------
(* The invariant.  A part of a message that met no fault and no other      *)
(* message is in one place, and in none on its way once its message was    *)
(* reported: so what is stored under a reference without rivals is stored  *)
(* once, and its numbers add up when it is whole.                          *)

OnBus(p) == \E i \in DOMAIN bus : bus[i] = p

PlacedOnce(p) ==
    /\ \A i, k \in Slots : lngbuffs[i] = p /\ lngbuffs[k] = p => i = k
    /\ \A i, k \in DOMAIN bus : bus[i] = p /\ bus[k] = p => i = k
    /\ p \in Held(lngbuffs) => ~ OnBus(p)
    /\ p \in air => p \notin Held(lngbuffs) /\ ~ OnBus(p)

Gone(p) == p \notin air /\ ~ OnBus(p)

PartsInv ==
    \A p \in AllParts : p.msg \notin spoilt =>
        PlacedOnce(p) /\ (Whole(p.msg) \in reports => Gone(p))

\* A short message is never stored.
StoredLong == \A i \in Slots : lngbuffs[i] # Empty => maxNum[lngbuffs[i].msg] > 0

SmsInv == /\ SmsTypeOK /\ StoredLong /\ PartsInv
          /\ TextWhole /\ NoneWaitsWhole /\ LeftBehindBeyond

\* A message that is reported whole begins with a part of its own.
LEMMA WholeBegins ==
    \A m \in Msgs : 1 \in DOMAIN Whole(m) /\ Whole(m)[1].msg = m
<1> TAKE m \in Msgs
<1>1. maxNum[m] \in Nat
  BY PartTypes
<1>2. CASE maxNum[m] = 0
  BY <1>2 DEF Whole
<1>3. CASE maxNum[m] > 0
  <2>1. 1 \in 1 .. maxNum[m] /\ maxNum[m] # 0
    BY <1>1, <1>3
  <2> QED BY <2>1 DEF Whole
<1> QED BY <1>1, <1>2, <1>3

\* A table that is not full has a first free slot.
LEMMA FreeSlotIsFree ==
    ASSUME NEW t, ~ IsFull(t)
    PROVE  FreeSlot(t) \in Slots /\ t[FreeSlot(t)] = Empty
<1> DEFINE N == LONG_SMS_CMAX
           free(i) == t[i] = Empty /\ \A k \in 1 .. i - 1 : t[k] # Empty
<1>1. N \in Nat /\ Slots = 1 .. N
  BY SmsAssumption DEF Slots
<1> HIDE DEF N
<1>2. \E i \in Slots : free(i)
  <2> SUFFICES ASSUME \A i \in Slots : ~ free(i) PROVE FALSE
    OBVIOUS
  <2> DEFINE P == {n \in 0 .. N : \A k \in 1 .. n : t[k] # Empty}
  <2>1. 0 \in P
    BY <1>1
  <2>2. ASSUME NEW n \in 1 .. N, n - 1 \in P PROVE n \in P
    <3>1. t[n] # Empty
      BY <1>1, <2>2
    <3>2. \A k \in 1 .. n : k \in 1 .. n - 1 \/ k = n
      OBVIOUS
    <3> QED BY <2>2, <3>1, <3>2
  <2> HIDE DEF P
  <2>3. \A n \in 1 .. N : n - 1 \in P => n \in P
    BY <2>2
  <2>4. N \in P
    <3>1. 0 .. N \subseteq P
      BY <1>1, <2>1, <2>3, AllReached
    <3> QED BY <1>1, <3>1
  <2> QED BY <1>1, <2>4 DEF P, IsFull
<1> HIDE DEF free
<1>3. FreeSlot(t) = CHOOSE i \in Slots : free(i)
  BY DEF FreeSlot, free
<1>4. FreeSlot(t) \in Slots /\ free(FreeSlot(t))
  BY <1>2, <1>3
<1> QED BY <1>4 DEF free

\* What Lua takes from the bus was there, once if nothing met its message.
LEMMA TakenOnce ==
    ASSUME SmsInv, bus # <<>>, bus' = Tail(bus)
    PROVE  /\ Head(bus) \in AllParts /\ OnBus(Head(bus))
           /\ bus' \in Seq(AllParts) /\ Len(bus') <= BusMax
           /\ \A q : OnBus(q)' => OnBus(q)
           /\ \A q : (\A i, k \in DOMAIN bus : bus[i] = q /\ bus[k] = q => i = k) =>
                 \A i, k \in DOMAIN bus' : bus'[i] = q /\ bus'[k] = q => i = k
           /\ \A q : q = Head(bus) /\ q.msg \notin spoilt => ~ OnBus(q)'
<1>1. bus \in Seq(AllParts) /\ Len(bus) <= BusMax /\ BusMax \in Nat
  BY SmsAssumption DEF SmsInv, SmsTypeOK
<1>2. /\ Len(bus) \in Nat /\ Len(bus) >= 1 /\ 1 \in DOMAIN bus /\ Head(bus) = bus[1]
      /\ bus[1] \in AllParts
  BY <1>1
<1>3. /\ bus' \in Seq(AllParts) /\ Len(bus') = Len(bus) - 1
      /\ \A i \in DOMAIN bus' : i \in Nat /\ i >= 1 /\ i + 1 \in DOMAIN bus /\ bus'[i] = bus[i + 1]
  BY <1>1, <1>2
<1>4. \A q : OnBus(q)' => OnBus(q)
  BY <1>3 DEF OnBus
<1>5. ASSUME NEW q, \A i, k \in DOMAIN bus : bus[i] = q /\ bus[k] = q => i = k,
             NEW i \in DOMAIN bus', NEW k \in DOMAIN bus', bus'[i] = q, bus'[k] = q
      PROVE  i = k
  <2>1. i + 1 = k + 1
    BY <1>3, <1>5
  <2> QED BY <1>3, <2>1
<1>6. ASSUME NEW q, q = Head(bus), q.msg \notin spoilt, OnBus(q)' PROVE FALSE
  <2>1. PICK i \in DOMAIN bus' : bus'[i] = bus[1]
    BY <1>2, <1>6 DEF OnBus
  <2>2. i + 1 \in DOMAIN bus /\ bus[i + 1] = bus[1] /\ i + 1 # 1
    BY <1>3, <2>1
  <2>3. PlacedOnce(bus[1])
    BY <1>2, <1>6 DEF SmsInv, PartsInv
  <2> QED BY <1>2, <2>2, <2>3 DEF PlacedOnce
<1>7. Len(bus') <= BusMax
  BY <1>1, <1>2, <1>3
<1> QED BY <1>2, <1>3, <1>4, <1>5, <1>6, <1>7 DEF OnBus

\* Handling keeps every part in one place: slots are emptied, or take the part.
LEMMA HandledOnce ==
    ASSUME SmsInv, bus # <<>>, bus' = Tail(bus), UNCHANGED air, spoilt \subseteq spoilt',
           NEW k \in Slots,
           \A i \in Slots : \/ lngbuffs'[i] = lngbuffs[i] \/ lngbuffs'[i] = Empty
                            \/ i = k /\ lngbuffs'[i] = Head(bus),
           NEW q \in AllParts, q.msg \notin spoilt'
    PROVE  PlacedOnce(q)' /\ (q = Head(bus) \/ Gone(q) => Gone(q)')
<1> DEFINE p == Head(bus)
<1>1. /\ p \in AllParts /\ OnBus(p) /\ (OnBus(q)' => OnBus(q))
      /\ (\A i, l \in DOMAIN bus : bus[i] = q /\ bus[l] = q => i = l) =>
            \A i, l \in DOMAIN bus' : bus'[i] = q /\ bus'[l] = q => i = l
      /\ q = p => ~ OnBus(q)'
  BY TakenOnce
<1>2. PlacedOnce(q) /\ q # Empty
  BY EmptyAssumption DEF SmsInv, PartsInv
<1> HIDE DEF p
<1>3. CASE q = p
  <2>1. q \notin Held(lngbuffs) /\ q \notin air
    BY <1>1, <1>2, <1>3 DEF PlacedOnce
  <2>2. \A i \in Slots : lngbuffs'[i] = q => i = k
    BY <1>2, <2>1 DEF Held
  <2> QED BY <1>1, <1>2, <1>3, <2>1, <2>2 DEF PlacedOnce, Gone
<1>4. CASE q # p
  <2>1. \A i \in Slots : lngbuffs'[i] = q => lngbuffs[i] = q
    BY <1>2, <1>4 DEF p
  <2>2. q \in Held(lngbuffs)' => q \in Held(lngbuffs)
    BY <2>1 DEF Held
  <2> QED BY <1>1, <1>2, <1>4, <2>1, <2>2 DEF PlacedOnce, Gone, p
<1> QED BY <1>3, <1>4

\* Every message has a part.
LEMMA PartsNotEmpty == \A m \in Msgs : PartsOf(m) # {}
<1> TAKE m \in Msgs
<1>1. maxNum[m] \in Nat
  BY PartTypes
<1>2. CASE maxNum[m] = 0
  BY <1>2 DEF PartsOf
<1>3. CASE maxNum[m] > 0
  <2>1. 1 \in 1 .. maxNum[m] /\ maxNum[m] # 0
    BY <1>1, <1>3
  <2>2. [msg |-> m, seq |-> 1] \in PartsOf(m)
    BY <2>1 DEF PartsOf
  <2> QED BY <2>2
<1> QED BY <1>1, <1>2, <1>3

\* What leaves the table and the reports alone keeps what is said of them.
LEMMA TableKept ==
    ASSUME SmsInv, UNCHANGED <<lngbuffs, reports>>, spoilt \subseteq spoilt'
    PROVE  StoredLong' /\ TextWhole' /\ NoneWaitsWhole' /\ LeftBehindBeyond'
<1>1. StoredLong'
  BY DEF SmsInv, StoredLong
<1>2. TextWhole'
  BY DEF SmsInv, TextWhole
<1>3. NoneWaitsWhole'
  BY DEF SmsInv, NoneWaitsWhole, Held
<1>4. LeftBehindBeyond'
  BY DEF SmsInv, LeftBehindBeyond
<1> QED BY <1>1, <1>2, <1>3, <1>4

\* A part that is dropped, for want of a slot or of memory, spoils its message.
LEMMA DropKeepsInv ==
    ASSUME SmsInv, bus # <<>>, bus' = Tail(bus), UNCHANGED <<air, joining>>,
           Drop, spoilt' = spoilt \cup {Head(bus).msg}, faults' \in 0 .. MaxFaults
    PROVE  SmsInv'
<1>1. StoredLong' /\ TextWhole' /\ NoneWaitsWhole' /\ LeftBehindBeyond'
  BY TableKept DEF Drop
<1>2. SmsTypeOK'
  BY TakenOnce, PartTypes DEF SmsInv, SmsTypeOK, Drop
<1>3. PartsInv'
  <2>1. 1 \in Slots
    BY SmsAssumption DEF Slots
  <2>2. \A i \in Slots : lngbuffs'[i] = lngbuffs[i]
    BY DEF Drop
  <2> SUFFICES ASSUME NEW q \in AllParts, q.msg \notin spoilt'
               PROVE  PlacedOnce(q)' /\ (Whole(q.msg) \in reports' => Gone(q)')
    BY DEF PartsInv
  <2>3. PlacedOnce(q)' /\ (Gone(q) => Gone(q)')
    BY <2>1, <2>2, HandledOnce
  <2>4. Whole(q.msg) \in reports => Gone(q)
    BY DEF SmsInv, PartsInv
  <2> QED BY <2>3, <2>4 DEF Drop
<1> QED BY <1>1, <1>2, <1>3 DEF SmsInv

\* The modem's task puts a part on the bus.
LEMMA RecvCbKeepsInv ==
    ASSUME SmsInv, NEW p \in air, NEW twice \in BOOLEAN, luat_sms_recv_cb(p, twice)
    PROVE  SmsInv'
<1> USE DEF luat_sms_recv_cb
<1>0. /\ p \in AllParts /\ p.msg \in Msgs /\ p # Empty
      /\ bus \in Seq(AllParts) /\ Len(bus) <= BusMax /\ Len(bus) \in Nat /\ BusMax \in Nat
  BY PartTypes, EmptyAssumption, SmsAssumption DEF SmsInv, SmsTypeOK
<1>1. StoredLong' /\ TextWhole' /\ NoneWaitsWhole' /\ LeftBehindBeyond'
  <2>1. spoilt \subseteq spoilt'
    OBVIOUS
  <2> QED BY <2>1, TableKept
<1>2. CASE Len(bus) < BusMax
  <2>1. /\ bus' = Append(bus, p) /\ bus' \in Seq(AllParts) /\ Len(bus') = Len(bus) + 1
        /\ Len(bus') <= BusMax /\ DOMAIN bus' = 1 .. Len(bus) + 1
        /\ bus'[Len(bus) + 1] = p /\ \A i \in DOMAIN bus : bus'[i] = bus[i]
    BY <1>0, <1>2 DEF luat_msgbus_put
  <2>2. \A i \in DOMAIN bus' : \/ i \in DOMAIN bus /\ bus'[i] = bus[i]
                               \/ i = Len(bus) + 1 /\ bus'[i] = p
    <3>1. DOMAIN bus = 1 .. Len(bus)
      BY <1>0
    <3>2. \A i \in 1 .. Len(bus) + 1 : i \in 1 .. Len(bus) \/ i = Len(bus) + 1
      BY <1>0
    <3> QED BY <2>1, <3>1, <3>2
  <2>3. SmsTypeOK'
    <3>1. faults' \in 0 .. MaxFaults
      BY SmsAssumption DEF Fault, NoFault, SmsInv, SmsTypeOK
    <3>2. air' \subseteq AllParts /\ spoilt' \subseteq Msgs
      BY <1>0 DEF SmsInv, SmsTypeOK
    <3> QED BY <3>1, <3>2, <2>1 DEF SmsInv, SmsTypeOK
  <2>4. ASSUME NEW q \in AllParts, q.msg \notin spoilt'
        PROVE  PlacedOnce(q)' /\ (Whole(q.msg) \in reports' => Gone(q)')
    <3>1. PlacedOnce(q) /\ (Whole(q.msg) \in reports => Gone(q))
      BY <2>4 DEF SmsInv, PartsInv
    <3>2. CASE q = p
      <4>1. q \notin air' /\ q \notin Held(lngbuffs) /\ ~ OnBus(q)
        BY <2>4, <3>1, <3>2 DEF PlacedOnce
      <4>2. \A i \in DOMAIN bus' : bus'[i] = q => i = Len(bus) + 1
        BY <2>2, <4>1 DEF OnBus
      <4>3. Whole(q.msg) \notin reports'
        BY <3>1, <3>2 DEF Gone
      <4>4. \A i, k \in Slots : lngbuffs'[i] = q /\ lngbuffs'[k] = q => i = k
        BY <3>1 DEF PlacedOnce
      <4>5. q \notin Held(lngbuffs)'
        BY <4>1
      <4> QED BY <4>1, <4>2, <4>3, <4>4, <4>5 DEF PlacedOnce
    <3>3. CASE q # p
      <4>1. \A i \in DOMAIN bus' : bus'[i] = q => i \in DOMAIN bus /\ bus[i] = q
        BY <2>2, <3>3
      <4>2. OnBus(q)' => OnBus(q)
        BY <4>1 DEF OnBus
      <4>3. \A i, k \in DOMAIN bus' : bus'[i] = q /\ bus'[k] = q => i = k
        BY <3>1, <4>1 DEF PlacedOnce
      <4>4. q \in air' => q \in air
        OBVIOUS
      <4> QED BY <3>1, <4>2, <4>3, <4>4 DEF PlacedOnce, Gone
    <3> QED BY <3>2, <3>3
  <2> QED BY <1>1, <2>3, <2>4 DEF SmsInv, PartsInv
<1>3. CASE Len(bus) = BusMax
  <2>1. bus' = bus /\ p.msg \in spoilt'
    BY <1>0, <1>3 DEF luat_msgbus_put
  <2>2. SmsTypeOK'
    <3>1. faults' \in 0 .. MaxFaults
      BY SmsAssumption DEF Fault, NoFault, SmsInv, SmsTypeOK
    <3>2. air' \subseteq AllParts /\ spoilt' \subseteq Msgs
      BY <1>0 DEF SmsInv, SmsTypeOK
    <3> QED BY <3>1, <3>2, <2>1 DEF SmsInv, SmsTypeOK
  <2>3. ASSUME NEW q \in AllParts, q.msg \notin spoilt'
        PROVE  PlacedOnce(q)' /\ (Whole(q.msg) \in reports' => Gone(q)')
    <3>1. PlacedOnce(q) /\ (Whole(q.msg) \in reports => Gone(q))
      BY <2>3 DEF SmsInv, PartsInv
    <3>2. OnBus(q)' <=> OnBus(q)
      BY <2>1 DEF OnBus
    <3> QED BY <2>1, <3>1, <3>2 DEF PlacedOnce, Gone
  <2> QED BY <1>1, <2>2, <2>3 DEF SmsInv, PartsInv
<1> QED BY <1>0, <1>2, <1>3

\* The network never delivers a part.
LEMMA LosePartKeepsInv ==
    ASSUME SmsInv, NEW p \in air, LosePart(p)
    PROVE  SmsInv'
<1> USE DEF LosePart
<1>1. StoredLong' /\ TextWhole' /\ NoneWaitsWhole' /\ LeftBehindBeyond'
  BY TableKept
<1>2. SmsTypeOK'
  <2>1. faults' \in 0 .. MaxFaults
    BY SmsAssumption DEF Fault, SmsInv, SmsTypeOK
  <2> QED BY <2>1, PartTypes DEF SmsInv, SmsTypeOK
<1>3. ASSUME NEW q \in AllParts, q.msg \notin spoilt'
      PROVE  PlacedOnce(q)' /\ (Whole(q.msg) \in reports' => Gone(q)')
  <2>1. PlacedOnce(q) /\ (Whole(q.msg) \in reports => Gone(q))
    BY <1>3 DEF SmsInv, PartsInv
  <2>2. OnBus(q)' <=> OnBus(q)
    BY DEF OnBus
  <2> QED BY <2>1, <2>2 DEF PlacedOnce, Gone
<1> QED BY <1>1, <1>2, <1>3 DEF SmsInv, PartsInv

\* The application empties the table.
LEMMA ClearKeepsInv ==
    ASSUME SmsInv, l_sms_clear_long
    PROVE  SmsInv'
<1> USE DEF l_sms_clear_long
<1>0. lngbuffs \in [Slots -> AllParts \cup {Empty}]
  BY DEF SmsInv, SmsTypeOK
<1>1. lngbuffs' \in [Slots -> AllParts \cup {Empty}] /\ \A i \in Slots : lngbuffs'[i] = Empty
  OBVIOUS
<1>2. SmsTypeOK'
  <2>1. faults' \in 0 .. MaxFaults
    BY SmsAssumption DEF Fault, SmsInv, SmsTypeOK
  <2>2. spoilt' \subseteq Msgs
    BY <1>0, PartTypes DEF SmsInv, SmsTypeOK, Held
  <2> QED BY <1>1, <2>1, <2>2 DEF SmsInv, SmsTypeOK
<1>3. Held(lngbuffs)' = {}
  BY <1>1 DEF Held
<1>4. ASSUME NEW q \in AllParts, q.msg \notin spoilt'
      PROVE  PlacedOnce(q)' /\ (Whole(q.msg) \in reports' => Gone(q)')
  <2>1. PlacedOnce(q) /\ (Whole(q.msg) \in reports => Gone(q)) /\ q # Empty
    BY <1>4, EmptyAssumption DEF SmsInv, PartsInv
  <2>2. OnBus(q)' <=> OnBus(q)
    BY DEF OnBus
  <2> QED BY <1>1, <1>3, <2>1, <2>2 DEF PlacedOnce, Gone
<1>5. StoredLong' /\ LeftBehindBeyond'
  BY <1>1 DEF StoredLong, LeftBehindBeyond
<1>6. TextWhole'
  BY DEF SmsInv, TextWhole
<1>7. NoneWaitsWhole'
  BY <1>3, PartsNotEmpty DEF NoneWaitsWhole
<1> QED BY <1>2, <1>4, <1>5, <1>6, <1>7 DEF SmsInv, PartsInv

\* The application turns joining on or off, or nothing happens.
LEMMA AutoLongKeepsInv ==
    ASSUME SmsInv, l_sms_auto_long \/ UNCHANGED vars
    PROVE  SmsInv'
<1>1. UNCHANGED <<air, bus, lngbuffs, reports, spoilt>> /\ joining' \in BOOLEAN
  BY DEF l_sms_auto_long, vars, SmsInv, SmsTypeOK
<1>2. faults' \in 0 .. MaxFaults
  BY SmsAssumption DEF l_sms_auto_long, vars, Fault, SmsInv, SmsTypeOK
<1>3. SmsTypeOK'
  BY <1>1, <1>2 DEF SmsInv, SmsTypeOK
<1>4. StoredLong' /\ TextWhole' /\ NoneWaitsWhole' /\ LeftBehindBeyond'
  BY <1>1, TableKept
<1>5. PartsInv'
  BY <1>1 DEF SmsInv, PartsInv, PlacedOnce, Gone, OnBus, Held
<1> QED BY <1>3, <1>4, <1>5 DEF SmsInv

\* What the table is after the part p from the bus was stored in it.
Stored(p) == [lngbuffs EXCEPT ![FreeSlot(lngbuffs)] = p]

\* A part that is stored takes a free slot.  Without rivals it is the only one
\* of its number, and its message was not reported yet.
LEMMA StoreFacts ==
    ASSUME SmsInv, bus # <<>>, NEW p, p = Head(bus), maxNum[p.msg] > 0, ~ IsFull(lngbuffs)
    PROVE  /\ Stored(p) \in [Slots -> AllParts \cup {Empty}]
           /\ FreeSlot(lngbuffs) \in Slots /\ lngbuffs[FreeSlot(lngbuffs)] = Empty
           /\ Stored(p)[FreeSlot(lngbuffs)] = p
           /\ \A i \in Slots : i # FreeSlot(lngbuffs) => Stored(p)[i] = lngbuffs[i]
           /\ Held(Stored(p)) = Held(lngbuffs) \cup {p}
           /\ \A i \in Slots : Stored(p)[i] # Empty => maxNum[Stored(p)[i].msg] > 0
           /\ \A i \in Slots : Holds(Stored(p), i, RefOf(p)) =>
                 Stored(p)[i].msg = p.msg \/ Stored(p)[i].msg \in Rivals(lngbuffs, p.msg)
           /\ p.msg \notin spoilt => Whole(p.msg) \notin reports
           /\ p.msg \notin spoilt /\ Rivals(lngbuffs, p.msg) = {} => OnlyOnce(Stored(p), p)
<1> DEFINE k == FreeSlot(lngbuffs)
           t == Stored(p)
<1>1. k \in Slots /\ lngbuffs[k] = Empty
  BY FreeSlotIsFree
<1> HIDE DEF k
<1>2. p \in AllParts /\ OnBus(p) /\ p # Empty
  <2>1. p \in AllParts /\ OnBus(p)
    <3>1. bus \in Seq(AllParts)
      BY DEF SmsInv, SmsTypeOK
    <3>2. 1 \in DOMAIN bus /\ Head(bus) = bus[1] /\ bus[1] \in AllParts
      BY <3>1
    <3> QED BY <3>2 DEF OnBus
  <2> QED BY <2>1, EmptyAssumption
<1>3. lngbuffs \in [Slots -> AllParts \cup {Empty}]
  BY DEF SmsInv, SmsTypeOK
<1>4. /\ t \in [Slots -> AllParts \cup {Empty}] /\ t[k] = p
      /\ \A i \in Slots : i # k => t[i] = lngbuffs[i]
  BY <1>1, <1>2, <1>3 DEF Stored, k
<1> HIDE DEF t
<1>5. Held(t) = Held(lngbuffs) \cup {p}
  BY <1>1, <1>2, <1>4 DEF Held
<1>6. \A i \in Slots : t[i] # Empty => maxNum[t[i].msg] > 0
  BY <1>4 DEF SmsInv, StoredLong
<1>7. ASSUME NEW i \in Slots, Holds(t, i, RefOf(p))
      PROVE  t[i].msg = p.msg \/ t[i].msg \in Rivals(lngbuffs, p.msg)
  <2>1. CASE i = k
    BY <1>4, <2>1
  <2>2. CASE i # k
    <3>1. lngbuffs[i] # Empty /\ RefOf(lngbuffs[i]) = refNum[p.msg] /\ t[i] = lngbuffs[i]
      BY <1>4, <1>7, <2>2 DEF Holds, RefOf
    <3>2. lngbuffs[i] \in Held(lngbuffs)
      BY <3>1 DEF Held
    <3> QED BY <3>1, <3>2 DEF Rivals
  <2> QED BY <2>1, <2>2
<1>8. ASSUME p.msg \notin spoilt PROVE Whole(p.msg) \notin reports
  BY <1>2, <1>8 DEF SmsInv, PartsInv, Gone
<1>9. ASSUME p.msg \notin spoilt, Rivals(lngbuffs, p.msg) = {}
      PROVE  OnlyOnce(t, p)
  <2>1. \A i \in HeldUnder(t, RefOf(p)) : t[i].msg = p.msg
    BY <1>7, <1>9 DEF HeldUnder
  <2>2. ASSUME NEW i \in HeldUnder(t, RefOf(p)), NEW l \in HeldUnder(t, RefOf(p)), t[i] = t[l]
        PROVE  i = l
    <3>1. i \in Slots /\ l \in Slots /\ t[i] # Empty /\ t[i] \in AllParts /\ t[i].msg = p.msg
      BY <1>4, <2>1 DEF HeldUnder, Holds
    <3>2. PlacedOnce(t[i]) /\ PlacedOnce(p)
      BY <1>2, <1>9, <3>1 DEF SmsInv, PartsInv
    <3>3. p \notin Held(lngbuffs)
      BY <1>2, <3>2 DEF PlacedOnce
    <3>4. ASSUME NEW j \in Slots, t[j] = p PROVE j = k
      BY <1>2, <1>4, <3>3, <3>4 DEF Held
    <3>5. CASE t[i] = p
      BY <2>2, <3>1, <3>4, <3>5
    <3>6. CASE t[i] # p
      <4>1. lngbuffs[i] = t[i] /\ lngbuffs[l] = t[i]
        BY <1>4, <2>2, <3>1, <3>6
      <4> QED BY <3>1, <3>2, <4>1 DEF PlacedOnce
    <3> QED BY <3>5, <3>6
  <2> QED BY <2>1, <2>2 DEF OnlyOnce
<1> QED BY <1>1, <1>4, <1>5, <1>6, <1>7, <1>8, <1>9 DEF k, t

\* A part whose number does not make the sum waits in the table.
LEMMA WaitKeepsInv ==
    ASSUME SmsInv, bus # <<>>, bus' = Tail(bus), UNCHANGED <<air, joining, reports>>,
           NEW p, p = Head(bus), maxNum[p.msg] > 0, ~ IsFull(lngbuffs),
           ~ AddsUp(Stored(p), p), lngbuffs' = Stored(p),
           spoilt' = spoilt \cup (IF Rivals(lngbuffs, p.msg) = {} THEN {}
                                  ELSE Rivals(lngbuffs, p.msg) \cup {p.msg}),
           faults' \in 0 .. MaxFaults
    PROVE  SmsInv'
<1> DEFINE k == FreeSlot(lngbuffs)
           t == Stored(p)
           rivals == Rivals(lngbuffs, p.msg)
<1>1. /\ p \in AllParts /\ p.msg \in Msgs /\ rivals \subseteq Msgs
      /\ bus' \in Seq(AllParts) /\ Len(bus') <= BusMax
  <2>1. p \in AllParts /\ bus' \in Seq(AllParts) /\ Len(bus') <= BusMax
    BY TakenOnce
  <2>2. \A i \in Slots : lngbuffs[i] # Empty => lngbuffs[i].msg \in Msgs
    BY PartTypes DEF SmsInv, SmsTypeOK
  <2> QED BY <2>1, <2>2, PartTypes DEF Rivals, Held
<1>2. /\ t \in [Slots -> AllParts \cup {Empty}] /\ k \in Slots /\ lngbuffs[k] = Empty
      /\ t[k] = p /\ \A i \in Slots : i # k => t[i] = lngbuffs[i]
      /\ Held(t) = Held(lngbuffs) \cup {p}
      /\ \A i \in Slots : t[i] # Empty => maxNum[t[i].msg] > 0
      /\ p.msg \notin spoilt => Whole(p.msg) \notin reports
      /\ p.msg \notin spoilt /\ rivals = {} => OnlyOnce(t, p)
  BY StoreFacts
<1>3. lngbuffs' = t /\ ~ AddsUp(t, p) /\ spoilt \subseteq spoilt' /\ Held(lngbuffs)' = Held(t)
  BY DEF Held
<1>4. p.msg \notin spoilt' => rivals = {}
  OBVIOUS
<1> HIDE DEF k, t, rivals
<1>5. SmsTypeOK'
  <2>1. spoilt' \subseteq Msgs
    BY <1>1 DEF rivals, SmsInv, SmsTypeOK
  <2> QED BY <1>1, <1>2, <1>3, <2>1 DEF SmsInv, SmsTypeOK
<1>6. StoredLong'
  BY <1>2, <1>3 DEF StoredLong
<1>7. TextWhole'
  BY <1>3 DEF SmsInv, TextWhole
<1>8. ASSUME NEW q \in AllParts, q.msg \notin spoilt'
      PROVE  PlacedOnce(q)' /\ (Whole(q.msg) \in reports' => Gone(q)')
  <2>1. \A i \in Slots : \/ lngbuffs'[i] = lngbuffs[i] \/ lngbuffs'[i] = Empty
                         \/ i = k /\ lngbuffs'[i] = Head(bus)
    BY <1>2, <1>3
  <2>2. PlacedOnce(q)' /\ (Gone(q) => Gone(q)')
    BY <1>2, <1>3, <1>8, <2>1, HandledOnce
  <2>3. Whole(q.msg) \in reports => Gone(q)
    BY <1>3, <1>8 DEF SmsInv, PartsInv
  <2> QED BY <2>2, <2>3
<1>9. ASSUME NEW m \in Msgs, m \notin spoilt', PartsOf(m) \subseteq Held(lngbuffs)'
      PROVE  Whole(m) \in reports'
  <2>1. CASE m = p.msg
    <3>1. OnlyOnce(t, p) /\ PartsOf(p.msg) \subseteq Held(t)
      BY <1>2, <1>3, <1>4, <1>9, <2>1
    <3> QED BY <1>1, <1>2, <1>3, <3>1, AddsUpWhenWhole
  <2>2. CASE m # p.msg
    <3>1. p \notin PartsOf(m)
      BY <2>2, PartTypes
    <3>2. PartsOf(m) \subseteq Held(lngbuffs)
      BY <1>2, <1>3, <1>9, <3>1
    <3> QED BY <1>3, <1>9, <3>2 DEF SmsInv, NoneWaitsWhole
  <2> QED BY <2>1, <2>2
<1>10. ASSUME NEW i \in Slots, lngbuffs'[i] # Empty, lngbuffs'[i].msg \notin spoilt',
              Whole(lngbuffs'[i].msg) \in reports'
       PROVE  i > CLEAN_MAX
  <2>1. i # k
    BY <1>2, <1>3, <1>10
  <2>2. lngbuffs'[i] = lngbuffs[i]
    BY <1>2, <1>3, <2>1
  <2> QED BY <1>3, <1>10, <2>2 DEF SmsInv, LeftBehindBeyond
<1>11. NoneWaitsWhole'
  BY <1>9 DEF NoneWaitsWhole
<1>12. LeftBehindBeyond'
  BY <1>10 DEF LeftBehindBeyond
<1>13. PartsInv'
  BY <1>8 DEF PartsInv
<1> QED BY <1>5, <1>6, <1>7, <1>11, <1>12, <1>13 DEF SmsInv

\* What the clean-up leaves: the other references, and the slots beyond the
\* first CLEAN_MAX.
LEMMA CleanedFacts ==
    ASSUME NEW t \in [Slots -> AllParts \cup {Empty}], NEW p
    PROVE  /\ Cleaned(t, p) \in [Slots -> AllParts \cup {Empty}]
           /\ \A i \in Slots : Cleaned(t, p)[i] = t[i] \/ Cleaned(t, p)[i] = Empty
           /\ \A i \in Slots : (Cleaned(t, p)[i] # Empty /\ i <= CLEAN_MAX) =>
                                  RefOf(t[i]) # RefOf(p)
           /\ Held(Cleaned(t, p)) \subseteq Held(t)
<1>1. \A i \in Slots : Cleaned(t, p)[i] =
          IF i <= CLEAN_MAX /\ Holds(t, i, RefOf(p)) THEN Empty ELSE t[i]
  BY DEF Cleaned
<1>2. Cleaned(t, p) \in [Slots -> AllParts \cup {Empty}]
  BY DEF Cleaned
<1>3. \A i \in Slots : Cleaned(t, p)[i] = t[i] \/ Cleaned(t, p)[i] = Empty
  BY <1>1
<1>4. \A i \in Slots : (Cleaned(t, p)[i] # Empty /\ i <= CLEAN_MAX) => RefOf(t[i]) # RefOf(p)
  BY <1>1 DEF Holds
<1>5. Held(Cleaned(t, p)) \subseteq Held(t)
  BY <1>3 DEF Held
<1> QED BY <1>2, <1>3, <1>4, <1>5

\* A message is reported whole under its own parts only.
LEMMA WholeNames ==
    ASSUME NEW m \in Msgs, NEW r, r = Whole(m)
    PROVE  1 \in DOMAIN r /\ r[1].msg = m
BY WholeBegins

\* A report keeps the invariant when it is the whole of the part's message,
\* stored but for the part itself, or all its messages are spoilt.  t is the
\* table before the clean-up: with the part in slot k, or without it.
Reporting(p, t, k, text) ==
    /\ p = Head(bus) /\ k \in Slots /\ text \in Seq(AllParts)
    /\ t \in [Slots -> AllParts \cup {Empty}]
    /\ \A i \in Slots : t[i] = lngbuffs[i] \/ (i = k /\ t[i] = p)
    /\ \A i \in Slots : t[i] # Empty => maxNum[t[i].msg] > 0
    /\ Report(t, p, text) /\ faults' \in 0 .. MaxFaults
    /\ spoilt \subseteq spoilt' /\ spoilt' \subseteq Msgs
    /\ \A i \in DOMAIN text : text[i].msg = p.msg \/ text[i].msg \in spoilt'
    /\ p.msg \notin spoilt' => /\ text = Whole(p.msg)
                               /\ PartsOf(p.msg) \subseteq Held(lngbuffs) \cup {p}

LEMMA ReportKeepsInv ==
    ASSUME SmsInv, bus # <<>>, bus' = Tail(bus), UNCHANGED <<air, joining>>,
           NEW p, NEW t, NEW k, NEW text, Reporting(p, t, k, text)
    PROVE  SmsInv'
<1> USE DEF Reporting
<1>1. /\ p \in AllParts /\ p.msg \in Msgs
      /\ bus' \in Seq(AllParts) /\ Len(bus') <= BusMax
  <2>1. p \in AllParts /\ bus' \in Seq(AllParts) /\ Len(bus') <= BusMax
    BY TakenOnce
  <2> QED BY <2>1, PartTypes
<1>2. /\ lngbuffs' \in [Slots -> AllParts \cup {Empty}]
      /\ \A i \in Slots : lngbuffs'[i] = t[i] \/ lngbuffs'[i] = Empty
      /\ \A i \in Slots : (lngbuffs'[i] # Empty /\ i <= CLEAN_MAX) => RefOf(t[i]) # RefOf(p)
  BY CleanedFacts DEF Report
<1>3. reports' = reports \cup {text}
  BY DEF Report
<1>4. Held(lngbuffs)' \subseteq Held(lngbuffs) \cup {p}
  <2> SUFFICES ASSUME NEW i \in Slots, lngbuffs'[i] # Empty
               PROVE  lngbuffs'[i] \in Held(lngbuffs) \cup {p}
    BY DEF Held
  <2>1. lngbuffs'[i] = t[i] /\ (t[i] = lngbuffs[i] \/ t[i] = p)
    BY <1>2
  <2> QED BY <2>1 DEF Held
<1>5. ASSUME NEW m \in Msgs, m \notin spoilt', Whole(m) = text PROVE m = p.msg
  <2>1. 1 \in DOMAIN text /\ text[1].msg = m
    BY <1>5, WholeNames
  <2> QED BY <1>5, <2>1
<1>6. SmsTypeOK'
  BY <1>1, <1>2, <1>3 DEF SmsInv, SmsTypeOK
<1>7. StoredLong'
  BY <1>2 DEF StoredLong
<1>8. PartsInv'
  <2> SUFFICES ASSUME NEW q \in AllParts, q.msg \notin spoilt'
               PROVE  PlacedOnce(q)' /\ (Whole(q.msg) \in reports' => Gone(q)')
    BY DEF PartsInv
  <2>1. \A i \in Slots : \/ lngbuffs'[i] = lngbuffs[i] \/ lngbuffs'[i] = Empty
                         \/ i = k /\ lngbuffs'[i] = Head(bus)
    BY <1>2
  <2>2. PlacedOnce(q)' /\ (q = p \/ Gone(q) => Gone(q)')
    BY <2>1, HandledOnce
  <2>3. PlacedOnce(q) /\ (Whole(q.msg) \in reports => Gone(q))
    BY DEF SmsInv, PartsInv
  <2>4. ASSUME Whole(q.msg) = text PROVE q = p \/ Gone(q)
    <3>1. q.msg = p.msg /\ q \in PartsOf(q.msg)
      BY <1>5, <2>4, PartTypes
    <3>2. q = p \/ q \in Held(lngbuffs)
      BY <3>1
    <3> QED BY <2>3, <3>2 DEF PlacedOnce, Gone
  <2> QED BY <1>3, <2>2, <2>3, <2>4
<1>9. TextWhole'
  <2> SUFFICES ASSUME NEW r \in reports', NEW i \in DOMAIN r
               PROVE  r[i].msg \in spoilt' \/ r = Whole(r[i].msg)
    BY DEF TextWhole
  <2>1. CASE r \in reports
    BY <2>1 DEF SmsInv, TextWhole
  <2>2. CASE r = text
    BY <2>2
  <2> QED BY <1>3, <2>1, <2>2
<1>10. NoneWaitsWhole'
  <2> SUFFICES ASSUME NEW m \in Msgs, m \notin spoilt', PartsOf(m) \subseteq Held(lngbuffs)'
               PROVE  Whole(m) \in reports'
    BY DEF NoneWaitsWhole
  <2>1. CASE m = p.msg
    BY <1>3, <2>1
  <2>2. CASE m # p.msg
    <3>1. PartsOf(m) \subseteq Held(lngbuffs)
      BY <1>4, <2>2, PartTypes
    <3> QED BY <1>3, <3>1 DEF SmsInv, NoneWaitsWhole
  <2> QED BY <2>1, <2>2
<1>11. LeftBehindBeyond'
  <2> SUFFICES ASSUME NEW i \in Slots, lngbuffs'[i] # Empty, lngbuffs'[i].msg \notin spoilt',
                      Whole(lngbuffs'[i].msg) \in reports', ~ (i > CLEAN_MAX)
               PROVE  FALSE
    BY DEF LeftBehindBeyond
  <2>1. i \in Nat /\ CLEAN_MAX \in Nat
    BY SmsAssumption DEF Slots
  <2>2. lngbuffs'[i] = t[i] /\ RefOf(t[i]) # RefOf(p) /\ t[i] \in AllParts
    BY <1>2, <2>1
  <2>3. t[i] = lngbuffs[i] /\ t[i].msg # p.msg /\ t[i].msg \in Msgs
    BY <2>2, PartTypes DEF RefOf
  <2>4. Whole(t[i].msg) # text
    BY <1>5, <2>2, <2>3
  <2>5. Whole(lngbuffs[i].msg) \in reports /\ lngbuffs[i].msg \notin spoilt /\ lngbuffs[i] # Empty
    BY <1>3, <2>2, <2>3, <2>4
  <2> QED BY <2>5 DEF SmsInv, LeftBehindBeyond
<1> QED BY <1>6, <1>7, <1>8, <1>9, <1>10, <1>11 DEF SmsInv

\* A short message, or a part while joining is off, is reported as it is.
LEMMA ShortKeepsInv ==
    ASSUME SmsInv, bus # <<>>, bus' = Tail(bus), UNCHANGED <<air, joining>>,
           HandleShort(Head(bus))
    PROVE  SmsInv'
<1> DEFINE p == Head(bus)
<1>1. p \in AllParts /\ p.msg \in Msgs
  BY TakenOnce, PartTypes
<1>2. /\ Report(lngbuffs, p, <<p>>) /\ faults' = faults
      /\ spoilt' = spoilt \cup Rivals(lngbuffs, p.msg)
                          \cup (IF maxNum[p.msg] = 0 THEN {} ELSE {p.msg})
  BY DEF HandleShort, NoFault
<1> HIDE DEF p
<1>3. /\ lngbuffs \in [Slots -> AllParts \cup {Empty}] /\ spoilt \subseteq Msgs
      /\ faults \in 0 .. MaxFaults
      /\ \A i \in Slots : lngbuffs[i] # Empty => maxNum[lngbuffs[i].msg] > 0
  BY DEF SmsInv, SmsTypeOK, StoredLong
<1>4. Rivals(lngbuffs, p.msg) \subseteq Msgs
  BY <1>3, PartTypes DEF Rivals, Held
<1>5. spoilt' \subseteq Msgs /\ spoilt \subseteq spoilt' /\ faults' \in 0 .. MaxFaults
  BY <1>1, <1>2, <1>3, <1>4
<1>6. /\ <<p>> \in Seq(AllParts)
      /\ \A i \in DOMAIN <<p>> : <<p>>[i].msg = p.msg \/ <<p>>[i].msg \in spoilt'
  BY <1>1
<1>7. ASSUME p.msg \notin spoilt'
      PROVE  <<p>> = Whole(p.msg) /\ PartsOf(p.msg) \subseteq Held(lngbuffs) \cup {p}
  <2>1. maxNum[p.msg] = 0
    BY <1>2, <1>7
  <2>2. p = [msg |-> p.msg, seq |-> 0]
    BY <1>1, <2>1, PartTypes
  <2> QED BY <2>1, <2>2 DEF Whole, PartsOf
<1>8. 1 \in Slots
  BY SmsAssumption DEF Slots
<1>9. p = Head(bus) /\ \A i \in Slots : lngbuffs[i] = lngbuffs[i] \/ (i = 1 /\ lngbuffs[i] = p)
  BY DEF p
<1>10. Reporting(p, lngbuffs, 1, <<p>>)
  BY <1>2, <1>3, <1>5, <1>6, <1>7, <1>8, <1>9 DEF Reporting
<1> QED BY <1>10, ReportKeepsInv

\* The part that makes the sum reports what is stored under its reference.
LEMMA JoinedKeepsInv ==
    ASSUME SmsInv, bus # <<>>, bus' = Tail(bus), UNCHANGED <<air, joining>>,
           NEW p, p = Head(bus), maxNum[p.msg] > 0, ~ IsFull(lngbuffs),
           AddsUp(Stored(p), p), Report(Stored(p), p, Text(Stored(p), p)),
           spoilt' = spoilt \cup (IF Rivals(lngbuffs, p.msg) = {} THEN {}
                                  ELSE Rivals(lngbuffs, p.msg) \cup {p.msg}),
           faults' \in 0 .. MaxFaults
    PROVE  SmsInv'
<1> DEFINE k == FreeSlot(lngbuffs)
           t == Stored(p)
           rivals == Rivals(lngbuffs, p.msg)
           text == Text(t, p)
<1>1. p \in AllParts /\ p.msg \in Msgs
  BY TakenOnce, PartTypes
<1>2. /\ t \in [Slots -> AllParts \cup {Empty}] /\ k \in Slots
      /\ \A i \in Slots : t[i] = lngbuffs[i] \/ (i = k /\ t[i] = p)
      /\ Held(t) = Held(lngbuffs) \cup {p}
      /\ \A i \in Slots : t[i] # Empty => maxNum[t[i].msg] > 0
      /\ \A i \in Slots : Holds(t, i, RefOf(p)) => t[i].msg = p.msg \/ t[i].msg \in rivals
      /\ p.msg \notin spoilt /\ rivals = {} => OnlyOnce(t, p)
  BY StoreFacts
<1>3. /\ text \in Seq(AllParts)
      /\ \A i \in DOMAIN text : \E n \in Slots : Holds(t, n, RefOf(p)) /\ text[i] = t[n]
  BY <1>1, <1>2, TextHoldsStored
<1>4. rivals \subseteq Msgs
  <2>1. \A i \in Slots : lngbuffs[i] # Empty => lngbuffs[i].msg \in Msgs
    BY PartTypes DEF SmsInv, SmsTypeOK
  <2> QED BY <2>1 DEF Rivals, Held
<1>5. /\ spoilt' \subseteq Msgs /\ spoilt \subseteq spoilt' /\ rivals \subseteq spoilt'
      /\ p.msg \notin spoilt' => p.msg \notin spoilt /\ rivals = {}
  BY <1>1, <1>4 DEF SmsInv, SmsTypeOK
<1> HIDE DEF k, t, rivals
<1>6. \A i \in DOMAIN text : text[i].msg = p.msg \/ text[i].msg \in spoilt'
  BY <1>2, <1>3, <1>5
<1>7. ASSUME p.msg \notin spoilt'
      PROVE  text = Whole(p.msg) /\ PartsOf(p.msg) \subseteq Held(lngbuffs) \cup {p}
  <2>1. OnlyOnce(t, p) /\ AddsUp(t, p)
    BY <1>2, <1>5, <1>7 DEF t
  <2>2. PartsOf(p.msg) \subseteq Held(t)
    BY <1>1, <1>2, <2>1, AddsUpWhenWhole
  <2>3. text = Whole(p.msg)
    BY <1>1, <1>2, <2>1, <2>2, TextOfAll
  <2> QED BY <1>2, <2>2, <2>3
<1>8. Report(t, p, text)
  BY DEF t
<1> HIDE DEF text
<1>9. /\ \A i \in Slots : t[i] = lngbuffs[i] \/ (i = k /\ t[i] = p)
      /\ \A i \in Slots : t[i] # Empty => maxNum[t[i].msg] > 0
      /\ t \in [Slots -> AllParts \cup {Empty}] /\ k \in Slots /\ text \in Seq(AllParts)
  BY <1>2, <1>3
<1>10. Reporting(p, t, k, text)
  BY <1>5, <1>6, <1>7, <1>8, <1>9 DEF Reporting
<1> QED BY <1>10, ReportKeepsInv

\* Lua takes a part from the bus.
LEMMA RecvHandlerKeepsInv ==
    ASSUME SmsInv, l_sms_recv_handler
    PROVE  SmsInv'
<1> DEFINE p == Head(bus)
<1>1. bus # <<>> /\ bus' = Tail(bus) /\ UNCHANGED <<air, joining>>
  BY DEF l_sms_recv_handler
<1>2. (NoFault \/ Fault) => faults' \in 0 .. MaxFaults
  BY SmsAssumption DEF NoFault, Fault, SmsInv, SmsTypeOK
<1>3. CASE HandleShort(p)
  BY <1>1, <1>3, ShortKeepsInv
<1>4. CASE HandleLong(p)
  <2>1. maxNum[p.msg] > 0
    BY <1>4 DEF HandleLong
  <2>2. CASE Drop /\ spoilt' = spoilt \cup {p.msg} /\ (NoFault \/ Fault)
    BY <1>1, <1>2, <2>2, DropKeepsInv
  <2>3. CASE /\ ~ IsFull(lngbuffs) /\ Join(Stored(p), p) /\ NoFault
             /\ spoilt' = spoilt \cup
                    (IF Rivals(lngbuffs, p.msg) = {} THEN {}
                     ELSE Rivals(lngbuffs, p.msg) \cup {p.msg})
    <3>1. CASE AddsUp(Stored(p), p) /\ Report(Stored(p), p, Text(Stored(p), p))
      BY <1>1, <1>2, <2>1, <2>3, <3>1, JoinedKeepsInv
    <3>2. CASE ~ AddsUp(Stored(p), p) /\ lngbuffs' = Stored(p) /\ UNCHANGED reports
      BY <1>1, <1>2, <2>1, <2>3, <3>2, WaitKeepsInv
    <3> QED BY <2>3, <3>1, <3>2 DEF Join
  <2> QED BY <1>4, <2>2, <2>3 DEF HandleLong, Stored
<1> QED BY <1>3, <1>4 DEF l_sms_recv_handler

\* The invariant holds at first and after every step.
LEMMA InitIsInOrder == Init => SmsInv
<1> SUFFICES ASSUME Init PROVE SmsInv
  OBVIOUS
<1> USE DEF Init
<1>1. SmsTypeOK
  BY SmsAssumption DEF SmsTypeOK
<1>2. (\A i \in Slots : lngbuffs[i] = Empty) /\ Held(lngbuffs) = {}
  BY DEF Held
<1>3. StoredLong /\ TextWhole /\ LeftBehindBeyond
  BY <1>2 DEF StoredLong, TextWhole, LeftBehindBeyond
<1>4. NoneWaitsWhole
  BY <1>2, PartsNotEmpty DEF NoneWaitsWhole
<1>5. PartsInv
  BY <1>2, EmptyAssumption DEF PartsInv, PlacedOnce, OnBus
<1> QED BY <1>1, <1>3, <1>4, <1>5 DEF SmsInv

LEMMA StepKeepsInv == SmsInv /\ [Next]_vars => SmsInv'
<1> SUFFICES ASSUME SmsInv, [Next]_vars PROVE SmsInv'
  OBVIOUS
<1>1. CASE \E p \in air : luat_sms_recv_cb(p, FALSE) \/ luat_sms_recv_cb(p, TRUE)
  BY <1>1, RecvCbKeepsInv
<1>2. CASE \E p \in air : LosePart(p)
  BY <1>2, LosePartKeepsInv
<1>3. CASE l_sms_recv_handler
  BY <1>3, RecvHandlerKeepsInv
<1>4. CASE l_sms_clear_long
  BY <1>4, ClearKeepsInv
<1>5. CASE l_sms_auto_long \/ UNCHANGED vars
  BY <1>5, AutoLongKeepsInv
<1> QED BY <1>1, <1>2, <1>3, <1>4, <1>5 DEF Next, Deliver

(* SmsInv holds in every state.                                            *)
THEOREM TableIsKept == Spec => []SmsInv
<1> QED BY InitIsInOrder, StepKeepsInv, PTL DEF Spec

(* The text of a message is reported whole and in order or not at all,     *)
(* unless the message met a fault or another one under its reference:      *)
(* for any number of messages, parts, slots and faults.                    *)
THEOREM TextsAreWhole == Spec => []TextWhole
<1>1. SmsInv => TextWhole
  BY DEF SmsInv
<1> QED BY <1>1, TableIsKept, PTL

(* The table is of its type, no message waits in it whose parts are all    *)
(* stored, and what a report leaves behind is beyond the slots it looks at.*)
THEOREM TableStaysInOrder == Spec => []TableInOrder
<1>1. SmsInv => TableInOrder
  BY DEF SmsInv, TableInOrder
<1> QED BY <1>1, TableIsKept, PTL
=============================================================================

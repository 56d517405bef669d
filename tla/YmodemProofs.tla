---------------------------- MODULE YmodemProofs ----------------------------
(***************************************************************************)
(* Proofs about Ymodem, for files of any sizes, packets of any length, and *)
(* any number of losses, lost answers, resets, retries and failures of the *)
(* file system.                                                            *)
(*                                                                         *)
(* YmInv is inductive.  It says what is on the line and in packet_data at  *)
(* any time (LineOK, UnderWay, AnswersLate, AcksAlone), what an ACK to an  *)
(* EOT is about (AckMeans), how far the receiver is with the file that is  *)
(* sent (FileOpen, Follows), and what is held (Held).  A piece that is     *)
(* taken for a CAN leaves answers on the line that belong to no packet,    *)
(* but then the receiver is in state 0, where nothing is claimed, until a  *)
(* header comes over a quiet line.                                         *)
(***************************************************************************)
EXTENDS Ymodem, Integers, SequenceTheorems, TLAPS

DataTypes == {"head", "data", "null"}
Packets == [type : DataTypes \cup {"eot", "can"}, kind : {"SOH", "STX", "EOT", "CAN"},
            sn : Nat, file : Nat, from : Nat]
Pieces  == [pk : Packets, part : {"all", "first", "rest"},
            look : {"SOH", "STX", "EOT", "CAN", "other"}, good : BOOLEAN]

Senders == [phase : {"head", "data", "eot", "last", "cancel", "over"}, file : Nat, at : Nat,
            no : Nat, kind : {"SOH", "STX"}, go : BOOLEAN, tries : Nat]

TxTypeOK ==
    /\ tx \in Senders
    /\ tx.phase \in {"head", "data", "eot"} => tx.file \in Files
    /\ tx.phase = "data" => tx.at < Sizes[tx.file]

\* A good piece that begins a packet looks like one, and only packets with
\* data are cut.
WellFormed(c) ==
    /\ c \in Pieces
    /\ c.pk.kind \in {"SOH", "STX"} <=> c.pk.type \in DataTypes
    /\ c.part # "all" => c.pk.type \in DataTypes
    /\ c.good /\ c.part # "rest" => c.look = c.pk.kind

OnLine(s) ==
    /\ s \in Seq(Pieces) /\ Len(s) <= 2
    /\ \A i \in DOMAIN s : WellFormed(s[i])
    /\ Len(s) = 2 => s[1].part = "first" /\ s[2].part = "rest"

LineOK ==
    /\ buf \in Seq(Pieces) /\ \A i \in DOMAIN buf : WellFormed(buf[i])
    /\ OnLine(toRx)
    /\ toTx \in Seq({"ACK", "NAK"})

\* A piece on the line is of the packet the sender waits for an answer to,
\* or it is the second half of one whose first half is gone.
UnderWay ==
    \A i \in DOMAIN toRx :
        \/ toRx[i].pk = Current
        \/ Len(toRx) = 1 /\ toRx[1].part = "rest" /\ buf = <<>>

\* When an answer meets a piece on the line, it was to the first half.
AnswersLate ==
    toRx # <<>> /\ (tx.go \/ toTx # <<>>) =>
        Len(toRx) = 1 /\ toRx[1].part = "rest" /\ buf = <<>>

Acked == toTx = <<"ACK">>

AcksAlone ==
    \/ state = 0
    \/ \A i \in DOMAIN toTx : toTx[i] = "NAK"
    \/ Acked /\ toRx = <<>> /\ ~ tx.go

\* After an ACK to the second EOT the receiver waits for a header.
AckMeans == Acked /\ tx.phase = "eot" => state = 0

FileOpen ==
    /\ state # 1 => fd = None
    /\ stray => fd \notin Files \ spoilt
    /\ state = 1 => /\ write_size <= file_size
                    /\ file_size > 0 => write_size < file_size
    /\ fd \in Files \ spoilt => disk[fd] = UnitsFrom(0, write_size)

Behind == write_size = tx.at /\ next_sn = tx.no % SnMod /\ ~ Acked
Ahead  == /\ write_size = tx.at + DataLen(tx.kind) /\ next_sn = (tx.no + 1) % SnMod
          /\ Acked \/ lostAcks > 0

\* The receiver, if its file was opened by a header, is at the packet under
\* way or one further.
Follows == state = 1 /\ ~ stray =>
    /\ tx.phase \in {"head", "data"} => /\ fd = tx.file \/ (fd = None /\ failed > 0)
                                       /\ file_size = Sizes[tx.file]
    /\ tx.phase = "head" => next_sn = 1 /\ write_size = 0
    /\ tx.phase = "data" => Behind \/ Ahead
    /\ tx.phase # "last"

Held ==
    /\ data_pos = 0 <=> buf = <<>>
    /\ state \in {2, 3} => data_pos = 0
    /\ data_pos > 0 /\ resets = 0 => /\ data_pos < WaitedFor
                                     /\ WaitedFor <= 2 * STX_LEN + OVERHEAD

RxTypeOK ==
    /\ state \in 0 .. 3
    /\ {next_sn, file_size, write_size, data_pos, data_max} \subseteq Nat
    /\ next_sn \in 0 .. SnMod - 1
    /\ fd \in Files \cup {Other, None} /\ file_ok \subseteq Files \cup {Other, None}
    /\ spoilt \subseteq Files /\ stray \in BOOLEAN /\ cancelled \in BOOLEAN
    /\ disk \in [Files -> Seq(Nat)]
    /\ {lost, lostAcks, resets, failed} \subseteq Nat

YmInv == /\ RxTypeOK /\ TxTypeOK /\ LineOK
         /\ UnderWay /\ AnswersLate /\ AcksAlone /\ AckMeans
         /\ FileOpen /\ Follows /\ Held

----------------------------------------------------------------------------
\* Numbers

LEMMA ModOf ==
    ASSUME NEW m \in Nat \ {0}, NEW q \in Nat, NEW r \in 0 .. m - 1
    PROVE  (m * q + r) % m = r
  OBVIOUS

LEMMA ModSucc ==
    ASSUME NEW m \in Nat, m > 1, NEW n \in Nat
    PROVE  /\ n % m \in 0 .. m - 1 /\ (n + 1) % m \in 0 .. m - 1
           /\ ((n % m) + 1) % m = (n + 1) % m
           /\ (n + 1) % m # n % m
<1> DEFINE q == n \div m
           r == n % m
<1>1. q \in Nat /\ r \in 0 .. m - 1 /\ n = m * q + r
  OBVIOUS
<1> HIDE DEF q, r
<1>2. CASE r + 1 < m
  <2>1. n + 1 = m * q + (r + 1) /\ r + 1 \in 0 .. m - 1
    BY <1>1, <1>2
  <2>2. (n + 1) % m = r + 1
    BY <2>1, <1>1, ModOf
  <2>3. (r + 1) % m = r + 1
    BY <2>1
  <2> QED BY <1>1, <2>1, <2>2, <2>3 DEF r
<1>3. CASE r + 1 = m
  <2>1. n + 1 = m * (q + 1) + 0
    BY <1>1, <1>3
  <2>2. (n + 1) % m = 0
    BY <2>1, <1>1, ModOf
  <2>3. m % m = 0
    OBVIOUS
  <2> QED BY <1>1, <1>3, <2>2, <2>3 DEF r
<1> QED BY <1>1, <1>2, <1>3

LEMMA Small ==
    ASSUME NEW m \in Nat, NEW n \in 0 .. m - 1
    PROVE  n % m = n
  OBVIOUS

LEMMA Lengths ==
    /\ DataLen("SOH") \in Nat \ {0} /\ DataLen("STX") \in Nat \ {0}
    /\ \A k \in {"SOH", "STX"} : DataLen(k) \in Nat \ {0} /\ SOH_LEN <= DataLen(k)
                                 /\ DataLen(k) <= STX_LEN
    /\ SOH_LEN \in Nat \ {0} /\ STX_LEN \in Nat /\ SnMod \in Nat /\ SnMod > 1
  BY YmodemAssumption DEF DataLen

LEMMA TailOf ==
    ASSUME NEW S, NEW q \in Seq(S), q # <<>>
    PROVE  /\ Tail(q) \in Seq(S) /\ Len(Tail(q)) = Len(q) - 1 /\ Len(q) \in Nat \ {0}
           /\ 1 \in DOMAIN q /\ Head(q) = q[1] /\ q[1] \in S
           /\ \A i \in DOMAIN Tail(q) : i + 1 \in DOMAIN q /\ Tail(q)[i] = q[i + 1]
           /\ Len(q) = 1 => Tail(q) = <<>>
<1>1. /\ Tail(q) \in Seq(S) /\ Len(Tail(q)) = Len(q) - 1 /\ Len(q) \in Nat \ {0}
  OBVIOUS
<1>2. 1 \in DOMAIN q /\ Head(q) = q[1] /\ q[1] \in S
  OBVIOUS
<1>3. \A i \in DOMAIN Tail(q) : i + 1 \in DOMAIN q /\ Tail(q)[i] = q[i + 1]
  OBVIOUS
<1>4. Len(q) = 1 => Tail(q) = <<>>
  <2> DEFINE r == Tail(q)
  <2>1. r \in Seq(S) /\ Len(r) = Len(q) - 1
    BY <1>1
  <2> HIDE DEF r
  <2>2. Len(q) = 1 => r = <<>>
    BY <2>1
  <2> QED BY <2>2 DEF r
<1> QED BY <1>1, <1>2, <1>3, <1>4

----------------------------------------------------------------------------
\* Packets

LEMMA FilesAre ==
    /\ Files = 1 .. Len(Sizes) /\ Files \subseteq Nat
    /\ \A f \in Files : Sizes[f] \in Nat
    /\ None \notin Files /\ Other \notin Files /\ Other # None
  BY YmodemAssumption DEF Files

LEMMA CurrentOK ==
    ASSUME TxTypeOK
    PROVE  /\ Current \in Packets
           /\ Current.kind \in {"SOH", "STX"} <=> Current.type \in DataTypes
           /\ Current.type \in DataTypes <=> tx.phase \in {"head", "data", "last"}
           /\ Current.type = "null" <=> tx.phase = "last"
           /\ Current.type = "head" <=> tx.phase = "head"
           /\ Current.type = "data" <=> tx.phase = "data"
           /\ Current.kind = "EOT" <=> tx.phase = "eot"
           /\ tx.phase = "head" => Current.sn = 0 /\ Current.file = tx.file
           /\ tx.phase = "data" => /\ Current.sn = tx.no % SnMod /\ Current.kind = tx.kind
                                   /\ Current.from = tx.at
           /\ tx.phase = "last" => Current.sn = 0
<1>1. tx.no % SnMod \in Nat
  BY Lengths, ModSucc DEF TxTypeOK, Senders
<1>2. tx.phase \in {"head", "data", "eot", "last", "cancel", "over"}
  BY DEF TxTypeOK, Senders
<1>3. tx.file \in Nat /\ tx.at \in Nat /\ tx.kind \in {"SOH", "STX"}
  BY DEF TxTypeOK, Senders
<1>4. CASE tx.phase = "head"
  BY <1>1, <1>3, <1>4 DEF Current, Packet, Packets, DataTypes
<1>5. CASE tx.phase = "data"
  BY <1>1, <1>3, <1>5 DEF Current, Packet, Packets, DataTypes
<1>6. CASE tx.phase = "eot"
  BY <1>1, <1>3, <1>6 DEF Current, Packet, Packets, DataTypes
<1>7. CASE tx.phase = "last"
  BY <1>1, <1>3, <1>7 DEF Current, Packet, Packets, DataTypes
<1>8. CASE tx.phase \in {"cancel", "over"}
  BY <1>1, <1>3, <1>8 DEF Current, Packet, Packets, DataTypes
<1> QED BY <1>2, <1>4, <1>5, <1>6, <1>7, <1>8

----------------------------------------------------------------------------
LEMMA InitYmInv == Init => YmInv
<1> SUFFICES ASSUME Init PROVE YmInv
  OBVIOUS
<1> USE DEF Init
<1>1. RxTypeOK
  <2>1. stray \in BOOLEAN /\ cancelled \in BOOLEAN
    BY Zenon
  <2> QED BY <2>1, YmodemAssumption, FilesAre DEF RxTypeOK
<1>2. TxTypeOK
  <2>1. CASE 1 \in Files
    BY <2>1 DEF TxTypeOK, Senders, SenderStart
  <2>2. CASE 1 \notin Files
    BY <2>2 DEF TxTypeOK, Senders, SenderStart
  <2> QED BY <2>1, <2>2
<1>3. LineOK
  BY DEF LineOK, OnLine
<1>4. UnderWay /\ AnswersLate /\ AcksAlone /\ AckMeans
  BY DEF UnderWay, AnswersLate, AcksAlone, AckMeans, Acked
<1>5. FileOpen /\ Follows /\ Held
  BY FilesAre DEF FileOpen, Follows, Held, SenderStart
<1> QED BY <1>1, <1>2, <1>3, <1>4, <1>5 DEF YmInv

----------------------------------------------------------------------------
\* The sender

\* What the receiver has does not change while the sender acts.
LEMMA RxFrame ==
    ASSUME RxTypeOK, FileOpen, Held, UNCHANGED <<rxVars, fileVars, resets, cancelled>>,
           lost' \in Nat, lostAcks' \in Nat
    PROVE  RxTypeOK' /\ FileOpen' /\ Held'
<1> USE DEF rxVars, fileVars
<1>1. RxTypeOK'
  BY DEF RxTypeOK
<1>2. FileOpen'
  BY DEF FileOpen
<1>3. Held'
  BY DEF Held, WaitedFor
<1> QED BY <1>1, <1>2, <1>3

LEMMA SendsInv == YmInv /\ SenderSends => YmInv'
<1> SUFFICES ASSUME YmInv, SenderSends PROVE YmInv'
  OBVIOUS
<1> USE DEF YmInv
<1>1. /\ tx.go /\ toRx = <<>> /\ toTx = <<>> /\ tx' = [tx EXCEPT !.go = FALSE]
      /\ UNCHANGED <<rxVars, fileVars, toTx, lostAcks, resets, cancelled>>
  BY DEF SenderSends
<1>2. /\ TxTypeOK' /\ Current' = Current
      /\ tx'.phase = tx.phase /\ tx'.file = tx.file /\ tx'.at = tx.at /\ tx'.no = tx.no
      /\ tx'.kind = tx.kind /\ ~ tx'.go
  BY <1>1 DEF TxTypeOK, Senders, Current
<1>3. lost' \in Nat
  BY DEF SenderSends, RxTypeOK
<1>4. RxTypeOK' /\ FileOpen' /\ Held'
  BY <1>1, <1>3, RxFrame DEF RxTypeOK
<1>5. OnLine(toRx') /\ \A i \in DOMAIN toRx' : toRx'[i].pk = Current
  <2>1. CASE toRx' = <<Piece(Current, "all", Current.kind)>>
    <3> DEFINE c == Piece(Current, "all", Current.kind)
    <3>1. c \in Pieces
      BY CurrentOK DEF Piece, Pieces, Packets
    <3>2. WellFormed(c) /\ c.pk = Current
      BY <3>1, CurrentOK DEF Piece, WellFormed
    <3>3. toRx' = <<c>>
      BY <2>1
    <3> HIDE DEF c
    <3> QED BY <3>1, <3>2, <3>3 DEF OnLine
  <2>2. ASSUME tx.phase \in {"head", "data", "last"},
               NEW look \in {"other"} \cup Looks,
               toRx' = <<Piece(Current, "first", Current.kind), Piece(Current, "rest", look)>>
        PROVE  OnLine(toRx') /\ \A i \in DOMAIN toRx' : toRx'[i].pk = Current
    <3> DEFINE c == Piece(Current, "first", Current.kind)
               d == Piece(Current, "rest", look)
    <3>1. look \in {"SOH", "STX", "CAN", "EOT", "other"}
      BY DEF Looks
    <3>2. c \in Pieces /\ d \in Pieces
      BY <3>1, CurrentOK DEF Piece, Pieces, Packets
    <3>3. WellFormed(c) /\ WellFormed(d) /\ c.pk = Current /\ d.pk = Current
          /\ c.part = "first" /\ d.part = "rest"
      BY <2>2, <3>1, <3>2, CurrentOK DEF Piece, WellFormed
    <3> HIDE DEF c, d
    <3>4. toRx' = <<c, d>>
      BY <2>2 DEF c, d
    <3> QED BY <3>2, <3>3, <3>4 DEF OnLine
  <2> QED BY <2>1, <2>2 DEF SenderSends
<1>6. LineOK'
  BY <1>1, <1>5 DEF LineOK, rxVars
<1>7. UnderWay'
  BY <1>1, <1>2, <1>5 DEF UnderWay, rxVars
<1>8. AnswersLate' /\ AcksAlone' /\ AckMeans'
  BY <1>1, <1>2 DEF AnswersLate, AcksAlone, AckMeans, Acked
<1>9. Follows'
  BY <1>1, <1>2 DEF Follows, Behind, Ahead, Acked, rxVars, fileVars
<1> QED BY <1>2, <1>4, <1>6, <1>7, <1>8, <1>9

LEMMA Retries ==
    ASSUME NEW t \in Senders,
           NEW u, \/ u = t
                  \/ u = [t EXCEPT !.go = TRUE, !.tries = @ + 1]
                  \/ u = [t EXCEPT !.phase = "over"]
                  \/ u = [t EXCEPT !.phase = "cancel", !.go = TRUE, !.tries = 0]
    PROVE  /\ u \in Senders
           /\ \/ u.phase \in {"cancel", "over"}
              \/ /\ u.phase = t.phase /\ u.file = t.file /\ u.at = t.at
                 /\ u.no = t.no /\ u.kind = t.kind
<1>1. CASE u = t
  BY <1>1
<1>2. CASE u = [t EXCEPT !.go = TRUE, !.tries = @ + 1]
  <2>1. t.tries + 1 \in Nat
    BY DEF Senders
  <2>2. u = [t EXCEPT !.go = TRUE, !.tries = t.tries + 1]
    BY <1>2 DEF Senders
  <2> QED BY <2>1, <2>2 DEF Senders
<1>3. CASE u = [t EXCEPT !.phase = "over"]
  BY <1>3 DEF Senders
<1>4. CASE u = [t EXCEPT !.phase = "cancel", !.go = TRUE, !.tries = 0]
  BY <1>4 DEF Senders
<1> QED BY <1>1, <1>2, <1>3, <1>4

\* The same packet again, or none.
LEMMA RetryInv ==
    ASSUME YmInv, tx' = Retry, state # 0 => ~ Acked /\ ~ Acked',
           toRx # <<>> => Len(toRx) = 1 /\ toRx[1].part = "rest" /\ buf = <<>>,
           UNCHANGED <<state, buf, next_sn, file_size, write_size, fd, stray, failed, toRx,
                       lostAcks>>
    PROVE  TxTypeOK' /\ UnderWay' /\ Follows'
<1> USE DEF YmInv
<1>1. \/ tx' = tx
      \/ tx' = [tx EXCEPT !.go = TRUE, !.tries = @ + 1]
      \/ tx' = [tx EXCEPT !.phase = "over"]
      \/ tx' = [tx EXCEPT !.phase = "cancel", !.go = TRUE, !.tries = 0]
  BY DEF Retry
<1>2. TxTypeOK'
  <2>1. /\ tx' \in Senders
        /\ \/ tx'.phase \in {"cancel", "over"}
           \/ /\ tx'.phase = tx.phase /\ tx'.file = tx.file /\ tx'.at = tx.at
              /\ tx'.no = tx.no /\ tx'.kind = tx.kind
    BY <1>1, Retries DEF TxTypeOK
  <2> QED BY <2>1 DEF TxTypeOK
<1>3. CASE /\ tx'.phase = tx.phase /\ tx'.file = tx.file /\ tx'.at = tx.at
           /\ tx'.no = tx.no /\ tx'.kind = tx.kind
  <2>1. Current' = Current
    BY <1>3 DEF Current
  <2>2. UnderWay'
    BY <2>1 DEF UnderWay
  <2>3. Follows'
    BY <1>3 DEF Follows, Behind, Ahead
  <2> QED BY <1>2, <2>2, <2>3
<1>4. CASE tx'.phase \in {"cancel", "over"}
  BY <1>2, <1>4 DEF UnderWay, Follows
<1>5. \/ tx'.phase \in {"cancel", "over"}
      \/ /\ tx'.phase = tx.phase /\ tx'.file = tx.file /\ tx'.at = tx.at
         /\ tx'.no = tx.no /\ tx'.kind = tx.kind
  BY <1>1, Retries DEF TxTypeOK
<1> QED BY <1>3, <1>4, <1>5

\* The next packet, or the same again, or the end.
LEMMA HearsInv == YmInv /\ SenderHears => YmInv'
<1> SUFFICES ASSUME YmInv, SenderHears PROVE YmInv'
  OBVIOUS
<1> USE DEF YmInv
<1>1. /\ toTx # <<>> /\ toTx' = Tail(toTx)
      /\ UNCHANGED <<rxVars, fileVars, toRx, faultVars>>
  BY DEF SenderHears
<1>2. RxTypeOK' /\ FileOpen' /\ Held'
  BY <1>1, RxFrame DEF RxTypeOK, faultVars
<1>3. /\ toTx \in Seq({"ACK", "NAK"}) /\ toTx' \in Seq({"ACK", "NAK"})
      /\ Len(toTx') = Len(toTx) - 1 /\ 1 \in DOMAIN toTx /\ Head(toTx) = toTx[1]
      /\ \A i \in DOMAIN toTx' : i + 1 \in DOMAIN toTx /\ toTx'[i] = toTx[i + 1]
  BY <1>1 DEF LineOK
<1>4. LineOK'
  BY <1>1, <1>3 DEF LineOK, OnLine, rxVars
<1>5. AnswersLate'
  BY <1>1 DEF AnswersLate, rxVars
<1>6. CASE Head(toTx) = "ACK"
  <2>1. tx' \in Proceed
    BY <1>6 DEF SenderHears
  <2>2. state # 0 => Acked /\ toRx = <<>> /\ ~ tx.go /\ toTx' = <<>>
    BY <1>3, <1>6, <1>1 DEF AcksAlone, Acked
  <2>3. AcksAlone' /\ ~ (state # 0 /\ Acked')
    BY <1>1, <2>2 DEF AcksAlone, Acked, rxVars
  <2>4. UnderWay'
    BY <1>1, <2>2 DEF AnswersLate, UnderWay, rxVars
  <2>5. AckMeans'
    BY <1>1, <2>3 DEF AckMeans, rxVars
  <2>6. CASE tx.phase \in {"head", "data"}
    <3>1. PICK at \in Nat, no \in Nat :
            /\ at = IF tx.phase = "head" THEN 0 ELSE tx.at + DataLen(tx.kind)
            /\ no = IF tx.phase = "head" THEN 1 ELSE tx.no + 1
            /\ tx' \in DataOrEnd(at, no)
      <4>1. tx.at \in Nat /\ tx.no \in Nat /\ DataLen(tx.kind) \in Nat
        BY Lengths DEF TxTypeOK, Senders
      <4>2. CASE tx.phase = "head"
        BY <2>1, <4>2 DEF Proceed
      <4>3. CASE tx.phase = "data"
        BY <2>1, <4>1, <4>3 DEF Proceed
      <4> QED BY <2>6, <4>2, <4>3
    <3>2. CASE at < Sizes[tx.file]
      <4>1. PICK k \in {"SOH", "STX"} :
              tx' = [tx EXCEPT !.phase = "data", !.at = at, !.no = no, !.kind = k,
                               !.go = TRUE, !.tries = 0]
        BY <3>1, <3>2 DEF DataOrEnd
      <4>2. /\ tx'.phase = "data" /\ tx'.at = at /\ tx'.no = no /\ tx'.file = tx.file
            /\ tx' \in Senders
        BY <4>1 DEF TxTypeOK, Senders
      <4>3. TxTypeOK'
        BY <2>6, <3>2, <4>2 DEF TxTypeOK, Senders
      <4>4. state = 1 /\ ~ stray => /\ fd = tx.file \/ (fd = None /\ failed > 0)
                                   /\ file_size = Sizes[tx.file]
                                   /\ write_size = at /\ next_sn = no % SnMod
        <5>1. CASE tx.phase = "head"
          BY <3>1, <5>1, Lengths, Small DEF Follows
        <5>2. CASE tx.phase = "data"
          BY <2>2, <3>1, <5>2 DEF Follows, Behind, Ahead
        <5> QED BY <2>6, <5>1, <5>2
      <4>5. Follows'
        BY <1>1, <2>3, <4>2, <4>4 DEF Follows, Behind, Ahead, rxVars, fileVars, faultVars
      <4> QED BY <1>2, <1>4, <1>5, <2>3, <2>4, <2>5, <4>3, <4>5
    <3>3. CASE ~ (at < Sizes[tx.file])
      <4>1. tx' = [tx EXCEPT !.phase = "eot", !.go = TRUE, !.tries = 0]
        BY <3>1, <3>3 DEF DataOrEnd
      <4>2. tx'.phase = "eot" /\ TxTypeOK'
        BY <2>6, <4>1 DEF TxTypeOK, Senders
      <4>3. Follows'
        BY <4>2 DEF Follows
      <4> QED BY <1>2, <1>4, <1>5, <2>3, <2>4, <2>5, <4>2, <4>3
    <3> QED BY <3>2, <3>3
  <2>7. CASE tx.phase = "eot"
    <3>1. tx' = SenderStart(tx.file + 1)
      BY <2>1, <2>7 DEF Proceed
    <3>2. TxTypeOK'
      BY <3>1, FilesAre DEF SenderStart, TxTypeOK, Senders
    <3>3. state' = 0
      BY <1>1, <2>2, <2>7 DEF AckMeans, rxVars
    <3>4. Follows'
      BY <3>3 DEF Follows
    <3> QED BY <1>2, <1>4, <1>5, <2>3, <2>4, <2>5, <3>2, <3>4
  <2>8. CASE tx.phase \notin {"head", "data", "eot"}
    <3>1. tx' = [tx EXCEPT !.phase = "over", !.go = FALSE]
      BY <2>1, <2>8 DEF Proceed
    <3>2. TxTypeOK' /\ tx'.phase = "over"
      BY <3>1 DEF TxTypeOK, Senders
    <3>3. Follows'
      BY <3>2 DEF Follows
    <3> QED BY <1>2, <1>4, <1>5, <2>3, <2>4, <2>5, <3>2, <3>3
  <2> QED BY <2>6, <2>7, <2>8
<1>7. CASE Head(toTx) # "ACK"
  <2>1. tx' = Retry
    BY <1>7 DEF SenderHears
  <2>2. CASE state = 0
    <3>1. AcksAlone' /\ AckMeans'
      BY <1>1, <2>2 DEF AcksAlone, AckMeans, rxVars
    <3>2. TxTypeOK' /\ UnderWay' /\ Follows'
      BY <1>1, <2>1, <2>2, RetryInv DEF AnswersLate, rxVars, fileVars, faultVars
    <3> QED BY <1>2, <1>4, <1>5, <3>1, <3>2
  <2>3. CASE state # 0
    <3>1. \A i \in DOMAIN toTx' : toTx'[i] = "NAK"
      BY <1>3, <1>7, <2>3 DEF AcksAlone, Acked
    <3>2. ~ Acked /\ ~ Acked'
      BY <1>3, <1>7, <3>1 DEF Acked
    <3>3. toRx # <<>> => Len(toRx) = 1 /\ toRx[1].part = "rest" /\ buf = <<>>
      BY <1>1 DEF AnswersLate
    <3>4. TxTypeOK' /\ UnderWay' /\ Follows'
      BY <1>1, <2>1, <3>2, <3>3, RetryInv DEF rxVars, fileVars, faultVars
    <3> QED BY <1>2, <1>4, <1>5, <3>1, <3>2, <3>4 DEF AcksAlone, AckMeans
  <2> QED BY <2>2, <2>3
<1> QED BY <1>6, <1>7

LEMMA TimesOutInv == YmInv /\ SenderTimesOut => YmInv'
<1> SUFFICES ASSUME YmInv, SenderTimesOut PROVE YmInv'
  OBVIOUS
<1> USE DEF YmInv
<1>1. /\ toRx = <<>> /\ toTx = <<>> /\ tx' = Retry
      /\ UNCHANGED <<rxVars, fileVars, toRx, toTx, faultVars>>
  BY DEF SenderTimesOut
<1>2. RxTypeOK' /\ FileOpen' /\ Held'
  BY <1>1, RxFrame DEF RxTypeOK, faultVars
<1>3. LineOK' /\ AnswersLate' /\ AcksAlone' /\ AckMeans'
  BY <1>1 DEF LineOK, AnswersLate, AcksAlone, AckMeans, Acked, rxVars
<1>4. ~ Acked /\ ~ Acked'
  BY <1>1 DEF Acked
<1>5. TxTypeOK' /\ UnderWay' /\ Follows'
  BY <1>1, <1>4, RetryInv DEF rxVars, fileVars, faultVars
<1> QED BY <1>2, <1>3, <1>5

----------------------------------------------------------------------------
\* The line and the application

LEMMA LosePieceInv == YmInv /\ LosePiece => YmInv'
<1> SUFFICES ASSUME YmInv, LosePiece PROVE YmInv'
  OBVIOUS
<1> USE DEF YmInv
<1>1. /\ toRx # <<>> /\ toRx' = Tail(toRx) /\ lost' = lost + 1
      /\ UNCHANGED <<rxVars, fileVars, tx, toTx, lostAcks, resets, cancelled>>
  BY DEF LosePiece
<1>2. RxTypeOK' /\ FileOpen' /\ Held'
  BY <1>1, RxFrame, SMTT(30) DEF RxTypeOK
<1>3. TxTypeOK' /\ Current' = Current
  BY <1>1 DEF TxTypeOK, Current
<1>4. /\ OnLine(toRx') /\ Len(toRx') = Len(toRx) - 1 /\ Len(toRx) \in {1, 2}
      /\ \A i \in DOMAIN toRx' : i + 1 \in DOMAIN toRx /\ toRx'[i] = toRx[i + 1]
  <2>1. toRx \in Seq(Pieces) /\ toRx # <<>> /\ Len(toRx) <= 2
    BY <1>1 DEF LineOK, OnLine
  <2>2. /\ toRx' \in Seq(Pieces)
        /\ \A i \in DOMAIN toRx' : i + 1 \in DOMAIN toRx /\ toRx'[i] = toRx[i + 1]
    BY <1>1, <2>1, TailOf
  <2>3. Len(toRx) \in Nat \ {0} /\ Len(toRx') = Len(toRx) - 1
    BY <1>1, <2>1, TailOf
  <2>4. Len(toRx) = 1 \/ Len(toRx) = 2
    BY <2>1, <2>3
  <2>5. Len(toRx') = 0 \/ Len(toRx') = 1
    BY <2>3, <2>4
  <2>6. \A i \in DOMAIN toRx' : WellFormed(toRx'[i])
    BY <2>2 DEF LineOK, OnLine
  <2>7. OnLine(toRx')
    BY <2>2, <2>5, <2>6 DEF OnLine
  <2> HIDE DEF YmInv
  <2> QED BY <2>2, <2>3, <2>4, <2>7
<1>5. LineOK'
  BY <1>1, <1>4 DEF LineOK, rxVars
<1>6. Len(toRx) = 1 => toRx' = <<>>
  BY <1>4 DEF OnLine
<1>7. UnderWay'
  BY <1>1, <1>3, <1>4 DEF UnderWay, rxVars
<1>8. AnswersLate'
  BY <1>1, <1>6 DEF AnswersLate, rxVars
<1>9. AcksAlone' /\ AckMeans' /\ (Acked' <=> Acked)
  BY <1>1 DEF AcksAlone, AckMeans, Acked, rxVars
<1>10. Follows'
  BY <1>1, <1>9 DEF Follows, Behind, Ahead, rxVars, fileVars
<1> QED BY <1>2, <1>3, <1>5, <1>7, <1>8, <1>9, <1>10

LEMMA CorruptPieceInv == YmInv /\ CorruptPiece => YmInv'
<1> SUFFICES ASSUME YmInv, CorruptPiece PROVE YmInv'
  OBVIOUS
<1> USE DEF YmInv
<1>1. PICK look \in Looks \cup {Head(toRx).look, "other"} :
        /\ toRx # <<>> /\ Head(toRx).good /\ lost' = lost + 1
        /\ toRx' = [toRx EXCEPT ![1].good = FALSE, ![1].look = look]
        /\ UNCHANGED <<rxVars, fileVars, tx, toTx, lostAcks, resets, cancelled>>
  BY DEF CorruptPiece
<1>2. RxTypeOK' /\ FileOpen' /\ Held'
  BY <1>1, RxFrame, SMTT(30) DEF RxTypeOK
<1>3. TxTypeOK' /\ Current' = Current
  BY <1>1 DEF TxTypeOK, Current
<1>4. /\ toRx \in Seq(Pieces) /\ 1 \in DOMAIN toRx /\ Head(toRx) = toRx[1]
      /\ WellFormed(toRx[1]) /\ toRx[1] \in Pieces
  BY <1>1 DEF LineOK, OnLine, WellFormed
<1> DEFINE d == [toRx[1] EXCEPT !.good = FALSE, !.look = look]
<1>5. /\ d \in Pieces /\ WellFormed(d) /\ d.part = toRx[1].part /\ d.pk = toRx[1].pk
  <2>1. look \in {"SOH", "STX", "CAN", "EOT", "other"}
    BY <1>4 DEF Looks, Pieces
  <2>2. d \in Pieces /\ d.part = toRx[1].part /\ d.pk = toRx[1].pk /\ d.look = look /\ ~ d.good
    BY <1>4, <2>1 DEF Pieces
  <2> QED BY <1>4, <2>1, <2>2 DEF WellFormed
<1>6. toRx' = [toRx EXCEPT ![1] = d]
  BY <1>1, <1>4
<1> HIDE DEF d
<1>7. /\ toRx' \in Seq(Pieces) /\ Len(toRx') = Len(toRx) /\ DOMAIN toRx' = DOMAIN toRx
      /\ toRx'[1] = d /\ \A i \in DOMAIN toRx : i # 1 => toRx'[i] = toRx[i]
  BY <1>4, <1>5, <1>6
<1>8. LineOK'
  <2>1. \A i \in DOMAIN toRx' : WellFormed(toRx'[i])
    BY <1>5, <1>7 DEF LineOK, OnLine
  <2>2. Len(toRx') = 2 => toRx'[1].part = "first" /\ toRx'[2].part = "rest"
    BY <1>4, <1>5, <1>7 DEF LineOK, OnLine
  <2>3. OnLine(toRx')
    BY <1>7, <2>1, <2>2 DEF LineOK, OnLine
  <2> QED BY <1>1, <2>3 DEF LineOK, rxVars
<1>9. UnderWay'
  BY <1>1, <1>3, <1>4, <1>5, <1>7 DEF UnderWay, rxVars
<1>10. AnswersLate'
  BY <1>1, <1>4, <1>5, <1>7 DEF AnswersLate, rxVars
<1>11. AcksAlone' /\ AckMeans' /\ (Acked' <=> Acked)
  BY <1>1 DEF AcksAlone, AckMeans, Acked, rxVars
<1>12. Follows'
  BY <1>1, <1>11 DEF Follows, Behind, Ahead, rxVars, fileVars
<1> QED BY <1>2, <1>3, <1>8, <1>9, <1>10, <1>11, <1>12

LEMMA LoseAnswerInv == YmInv /\ LoseAnswer => YmInv'
<1> SUFFICES ASSUME YmInv, LoseAnswer PROVE YmInv'
  OBVIOUS
<1> USE DEF YmInv
<1>1. /\ toTx # <<>> /\ toTx' = Tail(toTx) /\ lostAcks' = lostAcks + 1
      /\ UNCHANGED <<rxVars, fileVars, tx, toRx, lost, resets, cancelled>>
  BY DEF LoseAnswer
<1>2. RxTypeOK' /\ FileOpen' /\ Held'
  BY <1>1, RxFrame, SMTT(30) DEF RxTypeOK
<1>3. TxTypeOK' /\ Current' = Current
  BY <1>1 DEF TxTypeOK, Current
<1>4. /\ toTx \in Seq({"ACK", "NAK"}) /\ toTx' \in Seq({"ACK", "NAK"})
      /\ Len(toTx') = Len(toTx) - 1
      /\ \A i \in DOMAIN toTx' : i + 1 \in DOMAIN toTx /\ toTx'[i] = toTx[i + 1]
  BY <1>1 DEF LineOK
<1>5. LineOK' /\ UnderWay' /\ AnswersLate'
  BY <1>1, <1>3, <1>4 DEF LineOK, OnLine, UnderWay, AnswersLate, rxVars
<1>6. state # 0 => (\A i \in DOMAIN toTx' : toTx'[i] = "NAK") /\ ~ Acked'
  <2>1. CASE \A i \in DOMAIN toTx : toTx[i] = "NAK"
    <3>1. \A i \in DOMAIN toTx' : toTx'[i] = "NAK"
      BY <1>4, <2>1
    <3> QED BY <3>1 DEF Acked
  <2>2. CASE Acked
    BY <1>1, <2>2 DEF Acked
  <2> QED BY <2>1, <2>2 DEF AcksAlone
<1>7. Follows'
  BY <1>1, <1>6 DEF Follows, Behind, Ahead, rxVars, fileVars, RxTypeOK
<1>8. AcksAlone' /\ AckMeans'
  BY <1>1, <1>6 DEF AcksAlone, AckMeans, rxVars
<1> QED BY <1>2, <1>3, <1>5, <1>7, <1>8

LEMMA ResetYmInv == YmInv /\ luat_ymodem_reset => YmInv'
<1> SUFFICES ASSUME YmInv, luat_ymodem_reset PROVE YmInv'
  OBVIOUS
<1> USE DEF YmInv
<1>1. /\ state' = 0 /\ next_sn' = 0 /\ file_size' = 0 /\ fd' = None /\ stray' = FALSE
      /\ resets' = resets + 1
      /\ UNCHANGED <<buf, data_pos, data_max, write_size, fileVars, tx, toRx, toTx, lost,
                     lostAcks, cancelled>>
  BY DEF luat_ymodem_reset, ResetHandler
<1>2. RxTypeOK'
  <2>1. stray' \in BOOLEAN /\ cancelled' \in BOOLEAN
    BY <1>1, Zenon DEF RxTypeOK
  <2>2. /\ {next_sn', file_size', write_size', data_pos', data_max'} \subseteq Nat
        /\ next_sn' \in 0 .. SnMod - 1 /\ state' \in 0 .. 3
        /\ {lost', lostAcks', resets', failed'} \subseteq Nat
    BY <1>1, Lengths DEF RxTypeOK, fileVars
  <2> QED BY <1>1, <2>1, <2>2 DEF RxTypeOK, fileVars
<1>3. TxTypeOK' /\ Current' = Current
  BY <1>1 DEF TxTypeOK, Current
<1>4. LineOK' /\ UnderWay' /\ AnswersLate' /\ AcksAlone'
  BY <1>1, <1>3 DEF LineOK, UnderWay, AnswersLate, AcksAlone, Acked
<1>5. AckMeans' /\ FileOpen'
  BY <1>1, FilesAre DEF AckMeans, FileOpen
<1>6. resets' > 0
  BY <1>1 DEF RxTypeOK
<1>7. Follows' /\ Held'
  BY <1>1, <1>6 DEF Follows, Held
<1> QED BY <1>2, <1>3, <1>4, <1>5, <1>7

----------------------------------------------------------------------------
\* The receiver: what a call of luat_ymodem_receive finds

\* One piece leaves the line.
Receives == /\ toRx # <<>> /\ toRx' = Tail(toRx)
            /\ UNCHANGED <<tx, lost, lostAcks, resets>> /\ cancelled' \in BOOLEAN

LEMMA Received ==
    ASSUME YmInv, Receives
    PROVE  /\ Head(toRx) \in Pieces /\ WellFormed(Head(toRx))
           /\ \/ Head(toRx).pk = Current
              \/ Head(toRx).part = "rest" /\ buf = <<>>
           /\ OnLine(toRx')
           /\ \/ toRx' = <<>>
              \/ /\ Head(toRx).part = "first" /\ ~ tx.go /\ toTx = <<>>
                 /\ Len(toRx') = 1 /\ toRx'[1].part = "rest" /\ toRx'[1].pk = Current
           /\ \/ Head(toRx).part = "rest" /\ buf = <<>>
              \/ ~ tx.go /\ toTx = <<>>
           /\ state # 0 => (\A i \in DOMAIN toTx : toTx[i] = "NAK") /\ ~ Acked
           /\ toTx \in Seq({"ACK", "NAK"})
           /\ TxTypeOK' /\ Current' = Current
<1> USE DEF YmInv
<1>1. /\ toRx \in Seq(Pieces) /\ Len(toRx) <= 2 /\ toRx # <<>>
      /\ \A i \in DOMAIN toRx : WellFormed(toRx[i])
      /\ Len(toRx) = 2 => toRx[1].part = "first" /\ toRx[2].part = "rest"
  BY DEF LineOK, OnLine, Receives
<1>2. /\ toRx' \in Seq(Pieces) /\ 1 \in DOMAIN toRx /\ Head(toRx) = toRx[1]
      /\ \A i \in DOMAIN toRx' : i + 1 \in DOMAIN toRx /\ toRx'[i] = toRx[i + 1]
      /\ Len(toRx) = 1 => toRx' = <<>>
  BY <1>1, TailOf DEF Receives
<1>3. Len(toRx') = Len(toRx) - 1 /\ Len(toRx) \in Nat \ {0}
  BY <1>1, TailOf DEF Receives
<1>4. Len(toRx) = 1 \/ Len(toRx) = 2
  BY <1>1, <1>3
<1>5. Head(toRx) \in Pieces /\ WellFormed(Head(toRx))
  BY <1>1, <1>2 DEF WellFormed
<1>6. \/ Head(toRx).pk = Current
      \/ Head(toRx).part = "rest" /\ buf = <<>>
  BY <1>2 DEF UnderWay
<1>7. \/ Head(toRx).part = "rest" /\ buf = <<>>
      \/ ~ tx.go /\ toTx = <<>>
  BY <1>1, <1>2 DEF AnswersLate
<1>8. OnLine(toRx')
  <2>1. Len(toRx') = 0 \/ Len(toRx') = 1
    BY <1>3, <1>4
  <2>2. \A i \in DOMAIN toRx' : WellFormed(toRx'[i])
    BY <1>1, <1>2
  <2> QED BY <1>2, <2>1, <2>2 DEF OnLine
<1>9. \/ toRx' = <<>>
      \/ /\ Head(toRx).part = "first" /\ ~ tx.go /\ toTx = <<>>
         /\ Len(toRx') = 1 /\ toRx'[1].part = "rest" /\ toRx'[1].pk = Current
  <2>1. CASE Len(toRx) = 1
    BY <1>2, <2>1
  <2>2. CASE Len(toRx) = 2
    <3>1. Len(toRx') = 1 /\ 1 \in DOMAIN toRx' /\ toRx'[1] = toRx[2] /\ 2 \in DOMAIN toRx
      BY <1>2, <1>3, <2>2
    <3>2. toRx[2].pk = Current
      BY <3>1, <2>2 DEF UnderWay
    <3>3. Head(toRx).part = "first"
      BY <1>1, <1>2, <2>2
    <3> QED BY <1>1, <1>7, <2>2, <3>1, <3>2, <3>3
  <2> QED BY <1>4, <2>1, <2>2
<1>10. /\ state # 0 => (\A i \in DOMAIN toTx : toTx[i] = "NAK") /\ ~ Acked
       /\ toTx \in Seq({"ACK", "NAK"})
  BY <1>1 DEF AcksAlone, Acked, LineOK
<1>11. TxTypeOK' /\ Current' = Current
  BY DEF Receives, TxTypeOK, Current
<1> QED BY <1>5, <1>6, <1>7, <1>8, <1>9, <1>10, <1>11

\* A refusal empties packet_data.
LEMMA AfterNak ==
    ASSUME YmInv, Receives, buf' = <<>>, Answer("NAK"), state = 0 => state' = 0
    PROVE  /\ LineOK' /\ UnderWay' /\ AnswersLate' /\ AcksAlone' /\ AckMeans'
           /\ state # 0 => ~ Acked'
<1>1. /\ toTx' \in Seq({"ACK", "NAK"})
      /\ state # 0 => (\A i \in DOMAIN toTx' : toTx'[i] = "NAK") /\ ~ Acked'
  <2>1. toTx' = Append(toTx, "NAK") /\ toTx \in Seq({"ACK", "NAK"})
    BY Received DEF Answer
  <2>2. toTx' \in Seq({"ACK", "NAK"})
    BY <2>1
  <2>3. state # 0 => \A i \in DOMAIN toTx' : toTx'[i] = "NAK"
    BY <2>1, Received
  <2> QED BY <2>2, <2>3 DEF Acked
<1>2. LineOK'
  BY <1>1, Received DEF LineOK
<1>3. UnderWay'
  <2>1. toRx' = <<>> \/ (Len(toRx') = 1 /\ toRx'[1].pk = Current')
    BY Received
  <2> QED BY <2>1, Received DEF UnderWay, OnLine
<1>4. AnswersLate'
  BY Received DEF AnswersLate
<1> QED BY <1>1, <1>2, <1>3, <1>4 DEF AcksAlone, AckMeans

\* An acceptance is the only answer.
LEMMA AfterAck ==
    ASSUME YmInv, Receives, ~ tx.go, toTx = <<>>, toRx' = <<>>, buf' = <<>>, Answer("ACK")
    PROVE  /\ LineOK' /\ UnderWay' /\ AnswersLate' /\ AcksAlone' /\ Acked'
<1>1. toTx' = <<"ACK">> /\ Acked' /\ toTx' \in Seq({"ACK", "NAK"})
  BY DEF Answer, Acked
<1>2. LineOK'
  BY <1>1, Received DEF LineOK
<1>3. UnderWay' /\ AnswersLate' /\ AcksAlone'
  BY <1>1 DEF UnderWay, AnswersLate, AcksAlone, Receives
<1> QED BY <1>1, <1>2, <1>3

\* A packet that passes the checks is the one under way.
LEMMA Accepted ==
    ASSUME YmInv, Receives, Intact(Append(buf, Head(toRx))),
           buf # <<>> \/ Head(toRx).look \in {"STX", "SOH"}
    PROVE  /\ Append(buf, Head(toRx))[1].pk = Current
           /\ tx.phase \in {"head", "data", "last"}
           /\ ~ tx.go /\ toTx = <<>> /\ toRx' = <<>>
<1> DEFINE c == Head(toRx)
           b == Append(buf, c)
<1>1. c \in Pieces /\ WellFormed(c) /\ buf \in Seq(Pieces)
      /\ \A i \in DOMAIN buf : WellFormed(buf[i])
  BY Received DEF YmInv, LineOK
<1>2. /\ b \in Seq(Pieces) /\ Len(b) = Len(buf) + 1 /\ b[Len(b)] = c /\ Len(buf) \in Nat
      /\ \A i \in DOMAIN buf : i \in DOMAIN b /\ b[i] = buf[i]
      /\ DOMAIN b = 1 .. Len(b)
  BY <1>1
<1>3. /\ \A i \in DOMAIN b : b[i].good /\ b[i].pk = b[1].pk
      /\ [i \in DOMAIN b |-> b[i].part] \in {<<"all">>, <<"first", "rest">>}
  BY DEF Intact
<1> HIDE DEF b, c
<1>4. CASE [i \in DOMAIN b |-> b[i].part] = <<"all">>
  <2>1. DOMAIN b = 1 .. 1
    BY <1>4
  <2>2. Len(b) = 1 /\ b[1].part = "all" /\ b[1] = c
    <3>1. Len(b) = 1
      BY <1>2, <2>1
    <3>2. [i \in DOMAIN b |-> b[i].part][1] = "all" /\ 1 \in DOMAIN b
      BY <1>4, <2>1
    <3> QED BY <1>2, <3>1, <3>2
  <2>3. buf = <<>>
    BY <1>1, <1>2, <2>2
  <2>4. c.good /\ c.look \in {"STX", "SOH"}
    BY <1>3, <2>1, <2>2, <2>3 DEF c
  <2>5. c.pk.kind \in {"STX", "SOH"} /\ c.pk.type \in DataTypes
    BY <1>1, <2>2, <2>4 DEF WellFormed
  <2>6. c.pk = Current /\ ~ tx.go /\ toTx = <<>> /\ toRx' = <<>>
    BY <2>2, Received DEF c
  <2>7. tx.phase \in {"head", "data", "last"}
    BY <2>5, <2>6, CurrentOK DEF YmInv
  <2> QED BY <2>2, <2>6, <2>7 DEF b, c
<1>5. CASE [i \in DOMAIN b |-> b[i].part] = <<"first", "rest">>
  <2>1. DOMAIN b = 1 .. 2
    BY <1>5
  <2>2. Len(b) = 2 /\ b[1].part = "first" /\ b[2].part = "rest" /\ b[2] = c
    <3>1. Len(b) = 2
      <4>1. 2 \in DOMAIN b /\ 3 \notin DOMAIN b
        BY <2>1
      <4> QED BY <1>2, <4>1
    <3>2. /\ [i \in DOMAIN b |-> b[i].part][1] = "first" /\ 1 \in DOMAIN b
          /\ [i \in DOMAIN b |-> b[i].part][2] = "rest" /\ 2 \in DOMAIN b
      BY <1>5, <2>1
    <3> QED BY <1>2, <3>1, <3>2
  <2>3. buf # <<>> /\ 1 \in DOMAIN buf /\ b[1] = buf[1]
    BY <1>1, <1>2, <2>2
  <2>4. b[1].pk = c.pk /\ c.pk.type \in DataTypes
    BY <1>1, <1>3, <2>1, <2>2, <2>3 DEF WellFormed
  <2>5. c.pk = Current /\ ~ tx.go /\ toTx = <<>> /\ toRx' = <<>>
    BY <2>2, <2>3, Received DEF c
  <2>6. tx.phase \in {"head", "data", "last"}
    BY <2>4, <2>5, CurrentOK DEF YmInv
  <2> QED BY <2>4, <2>5, <2>6 DEF b, c
<1> QED BY <1>3, <1>4, <1>5

LEMMA PieceLenOK == ASSUME NEW c, WellFormed(c) PROVE PieceLen(c) \in Nat \ {0}
<1>1. /\ c.pk.kind \in {"SOH", "STX", "EOT", "CAN"} /\ c.part \in {"all", "first", "rest"}
      /\ c.part # "all" => c.pk.kind \in {"SOH", "STX"}
  BY DEF WellFormed, Pieces, Packets
<1>2. CASE c.pk.kind \in {"SOH", "STX"}
  BY <1>1, <1>2, Lengths DEF PieceLen, PacketLen, OVERHEAD
<1>3. CASE c.pk.kind \notin {"SOH", "STX"}
  BY <1>1, <1>3 DEF PieceLen, PacketLen
<1> QED BY <1>2, <1>3

----------------------------------------------------------------------------
\* The receiver: what it does

LEMMA RefuseInv ==
    ASSUME YmInv, Receives, NEW max \in Nat, Refuse(max)
    PROVE  YmInv'
<1>1. /\ buf' = <<>> /\ data_pos' = 0 /\ data_max' = max /\ Answer("NAK")
      /\ UNCHANGED <<state, next_sn, file_size, write_size, fd, stray, disk, file_ok, spoilt,
                     failed, tx, lost, lostAcks, resets>>
      /\ cancelled' \in BOOLEAN
  BY DEF Refuse, Receives, fileVars
<1>2. /\ LineOK' /\ UnderWay' /\ AnswersLate' /\ AcksAlone' /\ AckMeans'
      /\ state # 0 => ~ Acked'
  BY <1>1, AfterNak
<1>3. RxTypeOK' /\ TxTypeOK'
  BY <1>1, Received DEF YmInv, RxTypeOK
<1>4. FileOpen' /\ Held'
  BY <1>1 DEF YmInv, FileOpen, Held
<1>5. Follows'
  BY <1>1, <1>2, Received DEF YmInv, Follows, Behind, Ahead
<1> QED BY <1>2, <1>3, <1>4, <1>5 DEF YmInv

\* A piece begins a packet or goes on with it.
MayTake(c, max) == \/ data_pos > 0 /\ max = data_max
                   \/ data_pos = 0 /\ c.look \in {"STX", "SOH"} /\ max = Expected(c.look)

LEMMA KeepInv ==
    ASSUME YmInv, Receives, state \in {0, 1}, NEW max \in Nat, MayTake(Head(toRx), max),
           ~ Complete(Head(toRx), max), Keep(Head(toRx), max)
    PROVE  YmInv'
<1> DEFINE c == Head(toRx)
<1>1. /\ buf' = Append(buf, c) /\ data_pos' = data_pos + PieceLen(c) /\ data_max' = max
      /\ UNCHANGED <<state, next_sn, file_size, write_size, fd, stray, disk, file_ok, spoilt,
                     failed, tx, toTx, lost, lostAcks, resets>>
      /\ cancelled' \in BOOLEAN
  BY DEF Keep, Receives, fileVars
<1>2. c \in Pieces /\ WellFormed(c) /\ PieceLen(c) \in Nat \ {0} /\ data_pos \in Nat
  BY Received, PieceLenOK DEF YmInv, RxTypeOK
<1>3. /\ buf \in Seq(Pieces) /\ \A i \in DOMAIN buf : WellFormed(buf[i])
  BY DEF YmInv, LineOK
<1>4. ~ (data_pos + PieceLen(c) >= IF state = 0 THEN max + OVERHEAD ELSE max)
  BY DEF Complete
<1>5. MayTake(c, max)
  OBVIOUS
<1> HIDE DEF c
<1>6. /\ buf' \in Seq(Pieces) /\ buf' # <<>>
      /\ \A i \in DOMAIN buf' : buf'[i] = c \/ (i \in DOMAIN buf /\ buf'[i] = buf[i])
  BY <1>1, <1>2, <1>3
<1>7. RxTypeOK' /\ TxTypeOK'
  BY <1>1, <1>2, Received, SMTT(30) DEF YmInv, RxTypeOK
<1>8. LineOK'
  BY <1>1, <1>2, <1>3, <1>6, Received DEF LineOK
<1>9. UnderWay'
  <2>1. toRx' = <<>> \/ (Len(toRx') = 1 /\ toRx'[1].pk = Current')
    BY Received
  <2> QED BY <2>1, Received DEF UnderWay, OnLine
<1>10. AnswersLate'
  BY <1>1, Received DEF AnswersLate
<1>11. AcksAlone' /\ AckMeans' /\ (Acked' <=> Acked)
  BY <1>1 DEF YmInv, AcksAlone, AckMeans, Acked, Receives
<1>12. FileOpen' /\ Follows'
  BY <1>1, <1>11 DEF YmInv, FileOpen, Follows, Behind, Ahead
<1>13. Held'
  <2>1. data_pos' > 0 /\ data_pos' < WaitedFor'
    BY <1>1, <1>2, <1>4 DEF WaitedFor, OVERHEAD
  <2>2. resets = 0 => WaitedFor' <= 2 * STX_LEN + OVERHEAD
    <3>1. CASE data_pos > 0
      BY <1>1, <1>5, <3>1 DEF MayTake, YmInv, Held, WaitedFor
    <3>2. CASE data_pos = 0
      BY <1>1, <1>5, <3>2, Lengths DEF MayTake, Expected, WaitedFor, OVERHEAD
    <3> QED BY <1>2, <3>1, <3>2
  <2> QED BY <1>1, <1>6, <2>1, <2>2 DEF Held
<1> QED BY <1>7, <1>8, <1>9, <1>10, <1>11, <1>12, <1>13 DEF YmInv

\* The receiver goes back to state 0 with an ACK.
LEMMA AfterEnd ==
    ASSUME YmInv, Receives, state' = 0, buf' = buf, toRx' = <<>> \/ buf = <<>>, Answer("ACK")
    PROVE  LineOK' /\ UnderWay' /\ AnswersLate' /\ AcksAlone' /\ AckMeans' /\ Follows'
<1>1. LineOK'
  <2>1. toTx' \in Seq({"ACK", "NAK"})
    BY Received DEF Answer
  <2> QED BY <2>1, Received DEF YmInv, LineOK
<1>2. UnderWay'
  <2>1. toRx' = <<>> \/ (Len(toRx') = 1 /\ toRx'[1].pk = Current')
    BY Received
  <2> QED BY <2>1, Received DEF UnderWay, OnLine
<1>3. AnswersLate'
  BY Received DEF AnswersLate
<1> QED BY <1>1, <1>2, <1>3 DEF AcksAlone, AckMeans, Follows

\* The batch ends, for the receiver.
LEMMA EndSessionInv ==
    ASSUME YmInv, Receives, NEW max \in Nat, EndSession(max), toRx' = <<>> \/ buf = <<>>,
           data_pos = 0 \/ (state = 0 /\ max = data_max)
    PROVE  YmInv'
<1>1. /\ state' = 0 /\ next_sn' = 0 /\ file_size' = 0 /\ fd' = None /\ stray' = FALSE
      /\ data_max' = max /\ Answer("ACK")
      /\ UNCHANGED <<buf, data_pos, write_size, disk, file_ok, spoilt, failed, tx, lost,
                     lostAcks, resets>>
      /\ cancelled' \in BOOLEAN
  BY DEF EndSession, ResetHandler, Receives, fileVars
<1>2. RxTypeOK' /\ TxTypeOK'
  <2>1. stray' \in BOOLEAN
    BY <1>1, Zenon
  <2>2. /\ {next_sn', file_size', write_size', data_pos', data_max'} \subseteq Nat
        /\ next_sn' \in 0 .. SnMod - 1 /\ state' \in 0 .. 3
        /\ {lost', lostAcks', resets', failed'} \subseteq Nat
    BY <1>1, Lengths, Received DEF YmInv, RxTypeOK
  <2> QED BY <1>1, <2>1, <2>2, Received DEF YmInv, RxTypeOK
<1>3. LineOK' /\ UnderWay' /\ AnswersLate' /\ AcksAlone' /\ AckMeans' /\ Follows'
  BY <1>1, AfterEnd
<1>4. FileOpen'
  BY <1>1, FilesAre DEF FileOpen
<1>5. Held'
  BY <1>1 DEF YmInv, Held, WaitedFor
<1> QED BY <1>2, <1>3, <1>4, <1>5 DEF YmInv

LEMMA StoredIs ==
    ASSUME RxTypeOK, NEW f \in Files, NEW s \in Seq(Nat)
    PROVE  /\ Stored(f, s) \in [Files -> Seq(Nat)] /\ Stored(f, s)[f] = s
           /\ \A g \in Files : g # f => Stored(f, s)[g] = disk[g]
  BY DEF RxTypeOK, Stored

\* What Open does to the files.
LEMMA OpenFiles ==
    ASSUME YmInv, NEW f \in Files \cup {Other}, NEW size \in Nat, stray' \in BOOLEAN,
           Open(f, size)
    PROVE  /\ disk' \in [Files -> Seq(Nat)] /\ spoilt' \subseteq Files
           /\ file_ok' \subseteq Files \cup {Other, None} /\ failed' \in Nat
           /\ \/ /\ fd' = f
                 /\ f \in Files => disk'[f] = <<>>
                 /\ stray' /\ f \in Files => f \in spoilt'
              \/ fd' = None /\ failed' > 0
<1>1. disk \in [Files -> Seq(Nat)] /\ spoilt \subseteq Files /\ failed \in Nat
      /\ file_ok \subseteq Files \cup {Other, None} /\ <<>> \in Seq(Nat) /\ RxTypeOK
  BY DEF YmInv, RxTypeOK
<1>2. CASE /\ fd' = f /\ disk' = Stored(f, <<>>) /\ file_ok' = file_ok \ {f}
           /\ spoilt' = IF stray' THEN spoilt \cup ({f} \cap Files) ELSE spoilt \ {f}
           /\ failed' = failed
  <2>1. disk' \in [Files -> Seq(Nat)] /\ (f \in Files => disk'[f] = <<>>)
    <3>1. CASE f \in Files
      BY <1>1, <1>2, <3>1, StoredIs
    <3>2. CASE f \notin Files
      BY <1>1, <1>2, <3>2 DEF Stored
    <3> QED BY <3>1, <3>2
  <2>2. spoilt' \subseteq Files /\ (stray' /\ f \in Files => f \in spoilt')
    BY <1>1, <1>2
  <2> QED BY <1>1, <1>2, <2>1, <2>2
<1>3. CASE fd' = None /\ failed' = failed + 1 /\ UNCHANGED <<disk, file_ok, spoilt>>
  BY <1>1, <1>3
<1> QED BY <1>2, <1>3 DEF Open

\* A file is opened: the one of the header, or what a data block says.
LEMMA OpenInv ==
    ASSUME YmInv, Receives, state = 0, ~ tx.go, toTx = <<>>, toRx' = <<>>,
           tx.phase \in {"head", "data"},
           NEW f \in Files \cup {Other}, NEW size \in Nat, stray' \in BOOLEAN, Open(f, size),
           Accept(1, 2 * STX_LEN + OVERHEAD),
           ~ stray' => tx.phase = "head" /\ f = tx.file /\ f \in Files /\ size = Sizes[f]
    PROVE  YmInv'
<1>1. /\ file_size' = size /\ write_size' = 0 /\ state' = 1
      /\ next_sn' = 1 % SnMod /\ data_max' = 2 * STX_LEN + OVERHEAD
      /\ buf' = <<>> /\ data_pos' = 0 /\ Answer("ACK")
      /\ UNCHANGED <<tx, lost, lostAcks, resets>> /\ cancelled' \in BOOLEAN
  BY DEF Open, Accept, Receives
<1>2. next_sn' = 1 /\ 1 \in 0 .. SnMod - 1 /\ data_max' \in Nat
  BY <1>1, Lengths, Small DEF OVERHEAD
<1>3. LineOK' /\ UnderWay' /\ AnswersLate' /\ AcksAlone'
  BY <1>1, AfterAck
<1>4. /\ disk' \in [Files -> Seq(Nat)] /\ spoilt' \subseteq Files
      /\ file_ok' \subseteq Files \cup {Other, None} /\ failed' \in Nat
      /\ \/ /\ fd' = f
            /\ f \in Files => disk'[f] = <<>>
            /\ stray' /\ f \in Files => f \in spoilt'
         \/ fd' = None /\ failed' > 0
  BY OpenFiles
<1>5. RxTypeOK' /\ TxTypeOK'
  <2>1. stray' \in BOOLEAN
    BY <1>1, <1>4, Zenon DEF YmInv, RxTypeOK
  <2>2. {next_sn', file_size', write_size', data_pos', data_max'} \subseteq Nat
    BY <1>1, <1>2, Received, SMTT(30) DEF YmInv, RxTypeOK
  <2>3. {lost', lostAcks', resets', failed'} \subseteq Nat
    BY <1>1, <1>4, SMTT(30) DEF YmInv, RxTypeOK
  <2>4. next_sn' \in 0 .. SnMod - 1 /\ state' \in 0 .. 3
    BY <1>1, <1>2
  <2> QED BY <1>1, <1>4, <2>1, <2>2, <2>3, <2>4, Received, SMTT(30) DEF YmInv, RxTypeOK
<1>6. FileOpen'
  <2>1. UnitsFrom(0, 0) = <<>>
    BY DEF UnitsFrom
  <2> QED BY <1>1, <1>4, <2>1, FilesAre DEF FileOpen
<1>7. AckMeans' /\ Follows' /\ Held'
  BY <1>1, <1>2, <1>4 DEF AckMeans, Follows, Held
<1> QED BY <1>3, <1>5, <1>6, <1>7 DEF YmInv

\* What is read as a header is the header of the file under way, the end of
\* the batch, or a data block.
LEMMA HeaderOfFile ==
    ASSUME YmInv, Receives, state = 0, NEW max \in Nat, MayTake(Head(toRx), max),
           Intact(Append(buf, Head(toRx)))
    PROVE  /\ Append(buf, Head(toRx))[1].pk = Current
           /\ ~ tx.go /\ toTx = <<>> /\ toRx' = <<>>
           /\ Current.type = "head" => /\ tx.phase = "head" /\ tx.file \in Files
                                       /\ Current.file = tx.file /\ Sizes[tx.file] \in Nat
           /\ Current.type = "data" => tx.phase = "data"
<1>1. /\ Append(buf, Head(toRx))[1].pk = Current
      /\ ~ tx.go /\ toTx = <<>> /\ toRx' = <<>>
  BY Accepted DEF MayTake, YmInv, Held
<1> QED BY <1>1, CurrentOK, FilesAre DEF YmInv, TxTypeOK

LEMMA TakeHeaderInv ==
    ASSUME YmInv, Receives, state = 0, NEW max \in Nat, MayTake(Head(toRx), max),
           TakeHeader(Append(buf, Head(toRx)), max)
    PROVE  YmInv'
<1> DEFINE b == Append(buf, Head(toRx))
<1>1. CASE Refuse(max)
  BY <1>1, RefuseInv
<1>2. CASE Intact(b) /\ ReadHeader(b[1].pk, max)
  <2>1. /\ ReadHeader(Current, max) /\ ~ tx.go /\ toTx = <<>> /\ toRx' = <<>>
        /\ Current.type = "head" => /\ tx.phase = "head" /\ tx.file \in Files
                                    /\ Current.file = tx.file /\ Sizes[tx.file] \in Nat
        /\ Current.type = "data" => tx.phase = "data"
    BY <1>2, HeaderOfFile
  <2>2. data_pos = 0 \/ max = data_max
    BY DEF MayTake
  <2>3. CASE EndSession(max)
    BY <2>1, <2>2, <2>3, EndSessionInv
  <2>4. CASE Refuse(max)
    BY <2>4, RefuseInv
  <2>5. CASE /\ Current.type = "head" /\ stray' = FALSE
             /\ Open(Current.file, Sizes[Current.file])
             /\ Accept(1, 2 * STX_LEN + OVERHEAD)
    <3>1. Open(tx.file, Sizes[tx.file])
      BY <2>1, <2>5
    <3> QED BY <2>1, <2>5, <3>1, OpenInv
  <2>6. CASE /\ Current.type = "data" /\ stray' = TRUE
             /\ \E f \in Files \cup {Other}, size \in Garbage : Open(f, size)
             /\ Accept(1, 2 * STX_LEN + OVERHEAD)
    <3>1. PICK f \in Files \cup {Other}, size \in Garbage : Open(f, size)
      BY <2>6
    <3>2. size \in Nat
      BY YmodemAssumption
    <3> QED BY <2>1, <2>6, <3>1, <3>2, OpenInv
  <2> QED BY <2>1, <2>3, <2>4, <2>5, <2>6 DEF ReadHeader
<1> QED BY <1>1, <1>2 DEF TakeHeader

LEMMA Units ==
    ASSUME NEW w \in Nat, NEW n \in Nat
    PROVE  /\ UnitsFrom(w, n) \in Seq(Nat) /\ Len(UnitsFrom(0, w)) = w
           /\ UnitsFrom(0, w) \o UnitsFrom(w, n) = UnitsFrom(0, w + n)
<1>1. \A from, k \in Nat : /\ UnitsFrom(from, k) \in Seq(Nat)
                           /\ Len(UnitsFrom(from, k)) = k
                           /\ \A i \in 1 .. k : UnitsFrom(from, k)[i] = from + i
  BY DEF UnitsFrom
<1> DEFINE s == UnitsFrom(0, w)
           t == UnitsFrom(w, n)
           u == UnitsFrom(0, w + n)
<1>2. /\ s \in Seq(Nat) /\ t \in Seq(Nat) /\ u \in Seq(Nat)
      /\ Len(s) = w /\ Len(t) = n /\ Len(u) = w + n
      /\ \A i \in 1 .. w : s[i] = i
      /\ \A i \in 1 .. n : t[i] = w + i
      /\ \A i \in 1 .. w + n : u[i] = i
  <2>1. s \in Seq(Nat) /\ Len(s) = w /\ \A i \in 1 .. w : s[i] = 0 + i
    BY <1>1
  <2>2. t \in Seq(Nat) /\ Len(t) = n /\ \A i \in 1 .. n : t[i] = w + i
    BY <1>1
  <2>3. u \in Seq(Nat) /\ Len(u) = w + n /\ \A i \in 1 .. w + n : u[i] = 0 + i
    <3>1. w + n \in Nat
      OBVIOUS
    <3> QED BY <1>1, <3>1
  <2> HIDE DEF s, t, u
  <2> QED BY <2>1, <2>2, <2>3
<1> HIDE DEF s, t, u
<1>3. /\ s \o t \in Seq(Nat) /\ Len(s \o t) = w + n
      /\ \A i \in 1 .. w : (s \o t)[i] = s[i]
      /\ \A i \in w + 1 .. w + n : (s \o t)[i] = t[i - w]
  BY <1>2
<1>4. \A i \in 1 .. w + n : (s \o t)[i] = u[i]
  <2> SUFFICES ASSUME NEW i \in 1 .. w + n PROVE (s \o t)[i] = u[i]
    OBVIOUS
  <2>1. CASE i \in 1 .. w
    BY <1>2, <1>3, <2>1
  <2>2. CASE i \in w + 1 .. w + n
    BY <1>2, <1>3, <2>2
  <2>3. i \in 1 .. w \/ i \in w + 1 .. w + n
    OBVIOUS
  <2> QED BY <2>1, <2>2, <2>3
<1>5. s \o t = u
  BY <1>2, <1>3, <1>4, SeqEqual
<1> QED BY <1>2, <1>5 DEF s, t, u

\* What is accepted as data is the next packet of the file that is open, if
\* its header opened it.
LEMMA NextOfFile ==
    ASSUME YmInv, Receives, state = 1, NEW max \in Nat, MayTake(Head(toRx), max),
           Intact(Append(buf, Head(toRx))), Append(buf, Head(toRx))[1].pk.sn = next_sn
    PROVE  /\ Append(buf, Head(toRx))[1].pk = Current
           /\ ~ tx.go /\ toTx = <<>> /\ toRx' = <<>>
           /\ tx.phase \in {"head", "data", "last"} /\ Current.kind \in {"SOH", "STX"}
           /\ Current.from \in Nat
           /\ ~ stray => /\ tx.phase = "data" /\ write_size = tx.at
                         /\ next_sn = tx.no % SnMod /\ Current.from = write_size
                         /\ Current.kind = tx.kind /\ file_size = Sizes[tx.file]
                         /\ file_size > 0 /\ (fd = tx.file \/ (fd = None /\ failed > 0))
<1>1. /\ Append(buf, Head(toRx))[1].pk = Current /\ tx.phase \in {"head", "data", "last"}
      /\ ~ tx.go /\ toTx = <<>> /\ toRx' = <<>>
  BY Accepted DEF MayTake, YmInv, Held
<1>2. Current.kind \in {"SOH", "STX"} /\ Current.from \in Nat
  BY <1>1, CurrentOK DEF YmInv, Packets
<1>3. ASSUME ~ stray
      PROVE  /\ tx.phase = "data" /\ write_size = tx.at
             /\ next_sn = tx.no % SnMod /\ Current.from = write_size
             /\ Current.kind = tx.kind /\ file_size = Sizes[tx.file]
             /\ file_size > 0 /\ (fd = tx.file \/ (fd = None /\ failed > 0))
  <2>1. tx.phase # "last"
    BY <1>3 DEF YmInv, Follows
  <2>2. tx.phase # "head"
    BY <1>1, <1>3, CurrentOK DEF YmInv, Follows
  <2>3. tx.phase = "data" /\ Current.sn = tx.no % SnMod /\ Current.kind = tx.kind
        /\ Current.from = tx.at
    BY <1>1, <2>1, <2>2, CurrentOK DEF YmInv
  <2>4. next_sn # (tx.no + 1) % SnMod
    <3>1. next_sn = tx.no % SnMod /\ tx.no \in Nat /\ SnMod \in Nat /\ SnMod > 1
      BY <1>1, <2>3, Lengths DEF YmInv, TxTypeOK, Senders
    <3>2. (tx.no + 1) % SnMod # tx.no % SnMod
      BY <3>1, ModSucc
    <3> QED BY <3>1, <3>2, Zenon
  <2>5. Behind /\ file_size = Sizes[tx.file] /\ (fd = tx.file \/ (fd = None /\ failed > 0))
    BY <1>3, <2>3, <2>4 DEF YmInv, Follows, Ahead
  <2>6. file_size > 0
    BY <2>3, <2>5 DEF YmInv, TxTypeOK, Senders, RxTypeOK
  <2> QED BY <2>3, <2>5, <2>6 DEF Behind
<1> QED BY <1>1, <1>2, <1>3

\* How much of it is written.
LEMMA UsedLenOK ==
    ASSUME YmInv, state = 1, NEW p, p.kind \in {"SOH", "STX"}
    PROVE  /\ UsedLen(p) \in Nat /\ write_size \in Nat /\ file_size \in Nat
           /\ write_size + UsedLen(p) <= file_size
           /\ write_size + UsedLen(p) < file_size => UsedLen(p) = DataLen(p.kind)
           /\ file_size > 0 => UsedLen(p) > 0
<1>1. /\ write_size \in Nat /\ file_size \in Nat /\ write_size <= file_size
      /\ file_size > 0 => write_size < file_size
  BY DEF YmInv, FileOpen, RxTypeOK
<1>2. DataLen(p.kind) \in Nat \ {0}
  BY Lengths
<1> QED BY <1>1, <1>2 DEF UsedLen

\* What Write does to the files.
LEMMA WriteFiles ==
    ASSUME YmInv, state = 1, NEW from \in Nat, NEW n \in Nat, Write(from, n)
    PROVE  /\ disk' \in [Files -> Seq(Nat)] /\ spoilt' \subseteq Files
           /\ spoilt \subseteq spoilt'
           /\ file_ok' \subseteq Files \cup {Other, None}
           /\ failed' \in Nat /\ failed <= failed'
           /\ fd \in Files \ spoilt' => disk' = Stored(fd, disk[fd] \o UnitsFrom(from, n))
           /\ fd \in Files \ spoilt' => disk'[fd] = disk[fd] \o UnitsFrom(from, n)
           /\ \A g \in Files : g # fd => disk'[g] = disk[g]
<1>1. /\ disk \in [Files -> Seq(Nat)] /\ spoilt \subseteq Files /\ failed \in Nat
      /\ file_ok \subseteq Files \cup {Other, None} /\ fd \in Files \cup {Other, None}
      /\ RxTypeOK
  BY DEF YmInv, RxTypeOK
<1>2. file_ok' \subseteq Files \cup {Other, None}
  BY <1>1 DEF Write
<1>3. CASE /\ disk' = IF fd \in Files THEN Stored(fd, disk[fd] \o UnitsFrom(from, n))
                       ELSE disk
           /\ UNCHANGED <<spoilt, failed>>
  <2>1. CASE fd \in Files
    <3>1. UnitsFrom(from, n) \in Seq(Nat) /\ disk[fd] \in Seq(Nat)
      BY <1>1, <2>1, Units
    <3>2. disk[fd] \o UnitsFrom(from, n) \in Seq(Nat)
      BY <3>1
    <3> DEFINE s == disk[fd] \o UnitsFrom(from, n)
    <3>3. disk' = Stored(fd, s) /\ s \in Seq(Nat)
      BY <1>3, <2>1, <3>2
    <3> HIDE DEF s
    <3>4. disk' \in [Files -> Seq(Nat)] /\ disk'[fd] = s
          /\ \A g \in Files : g # fd => disk'[g] = disk[g]
      BY <1>1, <2>1, <3>3, StoredIs
    <3> QED BY <1>1, <1>2, <1>3, <3>3, <3>4 DEF s
  <2>2. CASE fd \notin Files
    BY <1>1, <1>2, <1>3, <2>2
  <2> QED BY <2>1, <2>2
<1>4. CASE /\ failed' = failed + 1 /\ spoilt' = spoilt \cup ({fd} \cap Files)
           /\ disk' = disk
  BY <1>1, <1>2, <1>4
<1> QED BY <1>3, <1>4 DEF Write

LEMMA TakeDataInv ==
    ASSUME YmInv, Receives, state = 1, NEW max \in Nat, MayTake(Head(toRx), max),
           TakeData(Append(buf, Head(toRx)), max)
    PROVE  YmInv'
<1> DEFINE b == Append(buf, Head(toRx))
<1>1. CASE Refuse(max)
  BY <1>1, RefuseInv
<1>2. CASE /\ Intact(b) /\ b[1].pk.sn = next_sn
           /\ Write(b[1].pk.from, UsedLen(b[1].pk)) /\ Accept(next_sn + 1, max)
  <2>1. /\ b[1].pk = Current /\ ~ tx.go /\ toTx = <<>> /\ toRx' = <<>>
        /\ tx.phase \in {"head", "data", "last"} /\ Current.kind \in {"SOH", "STX"}
        /\ Current.from \in Nat
        /\ ~ stray => /\ tx.phase = "data" /\ write_size = tx.at
                      /\ next_sn = tx.no % SnMod /\ Current.from = write_size
                      /\ Current.kind = tx.kind /\ file_size = Sizes[tx.file]
                      /\ file_size > 0 /\ (fd = tx.file \/ (fd = None /\ failed > 0))
    BY <1>2, NextOfFile
  <2> DEFINE n == UsedLen(Current)
  <2>2. Write(Current.from, n) /\ Accept(next_sn + 1, max)
    BY <1>2, <2>1
  <2>3. /\ n \in Nat /\ write_size \in Nat /\ file_size \in Nat
        /\ write_size + n <= file_size
        /\ write_size + n < file_size => n = DataLen(Current.kind)
    BY <2>1, UsedLenOK
  <2> HIDE DEF n
  <2>4. /\ disk' \in [Files -> Seq(Nat)] /\ spoilt' \subseteq Files /\ spoilt \subseteq spoilt'
        /\ file_ok' \subseteq Files \cup {Other, None} /\ failed' \in Nat /\ failed <= failed'
        /\ fd \in Files \ spoilt' => disk'[fd] = disk[fd] \o UnitsFrom(Current.from, n)
    BY <2>1, <2>2, <2>3, WriteFiles
  <2>5. /\ write_size' = write_size + n /\ UNCHANGED <<file_size, stray>>
        /\ next_sn' = (next_sn + 1) % SnMod /\ data_max' = max /\ buf' = <<>>
        /\ data_pos' = 0 /\ Answer("ACK")
        /\ UNCHANGED <<tx, lost, lostAcks, resets>> /\ cancelled' \in BOOLEAN
        /\ \/ file_size > 0 /\ write_size + n >= file_size /\ state' = 2 /\ fd' = None
           \/ (file_size = 0 \/ write_size + n < file_size) /\ UNCHANGED <<state, fd>>
    BY <2>2 DEF Write, Accept, Receives
  <2>6. next_sn' \in 0 .. SnMod - 1 /\ (~ stray => next_sn' = (tx.no + 1) % SnMod)
    <3>1. next_sn \in Nat /\ tx.no \in Nat /\ SnMod \in Nat /\ SnMod > 1
      BY Lengths DEF YmInv, TxTypeOK, Senders, RxTypeOK
    <3>2. (next_sn + 1) % SnMod \in 0 .. SnMod - 1
      BY <3>1, ModSucc
    <3>3. ~ stray => (next_sn + 1) % SnMod = (tx.no + 1) % SnMod
      <4>1. ((tx.no % SnMod) + 1) % SnMod = (tx.no + 1) % SnMod
        BY <3>1, ModSucc
      <4> QED BY <2>1, <4>1, Zenon
    <3> QED BY <2>5, <3>2, <3>3
  <2>7. LineOK' /\ UnderWay' /\ AnswersLate' /\ AcksAlone' /\ Acked'
    BY <2>1, <2>5, AfterAck
  <2>8. AckMeans' /\ Held'
    BY <2>1, <2>5 DEF AckMeans, Held
  <2>9. RxTypeOK' /\ TxTypeOK'
    BY <2>3, <2>4, <2>5, <2>6, Received, SMTT(30) DEF YmInv, RxTypeOK
  <2>10. CASE state' = 2 /\ fd' = None
    BY <2>5, <2>7, <2>8, <2>9, <2>10, FilesAre DEF YmInv, FileOpen, Follows
  <2>11. CASE (file_size = 0 \/ write_size + n < file_size) /\ UNCHANGED <<state, fd>>
    <3>1. Follows'
      <4> SUFFICES ASSUME ~ stray PROVE Follows'
        BY <2>5 DEF Follows
      <4>1. write_size' = tx.at + DataLen(tx.kind)
        BY <2>1, <2>3, <2>5, <2>11
      <4> QED BY <2>1, <2>4, <2>5, <2>6, <2>7, <4>1, SMTT(60) DEF Follows, Ahead, YmInv, RxTypeOK
    <3>2. fd \in Files \ spoilt' => disk'[fd] = UnitsFrom(0, write_size')
      <4> SUFFICES ASSUME fd \in Files \ spoilt' PROVE disk'[fd] = UnitsFrom(0, write_size')
        OBVIOUS
      <4>1. ~ stray /\ disk[fd] = UnitsFrom(0, write_size)
        BY <2>4 DEF YmInv, FileOpen
      <4> QED BY <2>1, <2>3, <2>4, <2>5, <4>1, Units
    <3>3. FileOpen'
      BY <2>3, <2>4, <2>5, <2>11, <3>2 DEF YmInv, FileOpen
    <3> QED BY <2>7, <2>8, <2>9, <3>1, <3>3 DEF YmInv
  <2> QED BY <2>5, <2>10, <2>11
<1> QED BY <1>1, <1>2 DEF TakeData

----------------------------------------------------------------------------
\* A call of luat_ymodem_receive
LEMMA ReceivePieceInv ==
    ASSUME YmInv, Receives, ReceivePiece(Head(toRx))
    PROVE  YmInv'
<1> DEFINE c == Head(toRx)
<1>1. state \in {0, 1} /\ data_max \in Nat /\ data_pos \in Nat
  BY DEF ReceivePiece, YmInv, RxTypeOK
<1>2. ASSUME NEW max \in Nat, MayTake(c, max), TakePiece(c, max) PROVE YmInv'
  <2>1. CASE ~ Complete(c, max)
    BY <1>1, <1>2, <2>1, KeepInv DEF TakePiece
  <2>2. CASE Complete(c, max) /\ state = 0
    BY <1>2, <2>2, TakeHeaderInv DEF TakePiece
  <2>3. CASE Complete(c, max) /\ state = 1
    BY <1>2, <2>3, TakeDataInv DEF TakePiece
  <2> QED BY <1>1, <2>1, <2>2, <2>3
<1>3. CASE data_pos > 0 /\ TakePiece(c, data_max)
  BY <1>1, <1>2, <1>3 DEF MayTake
<1>4. CASE data_pos = 0 /\ c.look \in {"STX", "SOH"} /\ TakePiece(c, Expected(c.look))
  <2>1. Expected(c.look) \in Nat
    BY <1>4, Lengths DEF Expected, OVERHEAD
  <2> QED BY <1>2, <1>4, <2>1 DEF MayTake
<1>5. CASE data_pos = 0 /\ c.look = "CAN" /\ EndSession(data_max)
  BY <1>1, <1>5, EndSessionInv DEF YmInv, Held
<1>6. CASE Refuse(data_max)
  BY <1>1, <1>6, RefuseInv
<1> QED BY <1>3, <1>4, <1>5, <1>6 DEF ReceivePiece

LEMMA ReceiveEndsInv ==
    ASSUME YmInv, Receives, ReceiveEnd(Head(toRx)) \/ ReceiveEndAgain(Head(toRx))
    PROVE  YmInv'
<1> DEFINE c == Head(toRx)
<1>1. data_max \in Nat /\ state \in {2, 3} /\ data_pos = 0 /\ buf = <<>>
  BY DEF ReceiveEnd, ReceiveEndAgain, YmInv, RxTypeOK, Held
<1>2. CASE Refuse(data_max)
  BY <1>1, <1>2, RefuseInv
<1>3. CASE EndSession(data_max)
  BY <1>1, <1>3, EndSessionInv
<1>4. CASE /\ state = 2 /\ state' = 3 /\ buf' = <<>> /\ data_pos' = 0 /\ fd' = None
           /\ Answer("NAK")
           /\ UNCHANGED <<data_max, next_sn, file_size, write_size, stray, fileVars>>
  <2>1. /\ UNCHANGED <<disk, file_ok, spoilt, failed, tx, lost, lostAcks, resets>>
        /\ cancelled' \in BOOLEAN
    BY <1>4 DEF Receives, fileVars
  <2>2. LineOK' /\ UnderWay' /\ AnswersLate' /\ AcksAlone' /\ AckMeans'
    BY <1>4, AfterNak
  <2>3. RxTypeOK' /\ TxTypeOK'
    BY <1>4, <2>1, Received DEF YmInv, RxTypeOK
  <2>4. FileOpen' /\ Follows' /\ Held'
    BY <1>4, <2>1, FilesAre DEF FileOpen, Follows, Held
  <2> QED BY <2>2, <2>3, <2>4 DEF YmInv
<1>5. CASE /\ state = 3 /\ state' = 0 /\ Answer("ACK")
           /\ UNCHANGED <<buf, data_pos, data_max, next_sn, file_size, write_size, fd, stray,
                          fileVars>>
  <2>1. /\ UNCHANGED <<disk, file_ok, spoilt, failed, tx, lost, lostAcks, resets>>
        /\ cancelled' \in BOOLEAN
    BY <1>5 DEF Receives, fileVars
  <2>2. LineOK' /\ UnderWay' /\ AnswersLate' /\ AcksAlone' /\ AckMeans' /\ Follows'
    BY <1>1, <1>5, AfterEnd
  <2>3. RxTypeOK' /\ TxTypeOK'
    BY <1>5, <2>1, Received DEF YmInv, RxTypeOK
  <2>4. FileOpen' /\ Held'
    BY <1>1, <1>5, <2>1, FilesAre DEF YmInv, FileOpen, Held
  <2> QED BY <2>2, <2>3, <2>4 DEF YmInv
<1> QED BY <1>2, <1>3, <1>4, <1>5 DEF ReceiveEnd, ReceiveEndAgain

----------------------------------------------------------------------------
LEMMA YmInvNext == YmInv /\ [Next]_vars => YmInv'
<1> SUFFICES ASSUME YmInv, [Next]_vars PROVE YmInv'
  OBVIOUS
<1>1. CASE UNCHANGED vars
  <2>1. UNCHANGED <<rxVars, fileVars, tx, toRx, toTx, lost, lostAcks, resets, cancelled>>
    BY <1>1 DEF vars, faultVars
  <2>2. RxTypeOK' /\ FileOpen' /\ Held'
    BY <2>1, RxFrame DEF YmInv, RxTypeOK
  <2>3. TxTypeOK' /\ Current' = Current /\ (Acked' <=> Acked)
    BY <2>1 DEF YmInv, TxTypeOK, Current, Acked
  <2>4. LineOK' /\ UnderWay' /\ AnswersLate' /\ AcksAlone'
    BY <2>1, <2>3 DEF YmInv, LineOK, UnderWay, AnswersLate, AcksAlone, rxVars
  <2>5. AckMeans' /\ Follows'
    BY <2>1, <2>3 DEF YmInv, AckMeans, Follows, Behind, Ahead, rxVars, fileVars
  <2> QED BY <2>2, <2>3, <2>4, <2>5 DEF YmInv
<1>2. CASE luat_ymodem_receive
  <2>1. Receives
    BY <1>2 DEF luat_ymodem_receive, Receives, FalseCancel
  <2> QED BY <1>2, <2>1, ReceivePieceInv, ReceiveEndsInv DEF luat_ymodem_receive
<1> QED BY <1>1, <1>2, SendsInv, HearsInv, TimesOutInv, LosePieceInv, CorruptPieceInv,
           LoseAnswerInv, ResetYmInv DEF Next, Sender

LEMMA YmInvariance == Spec => []YmInv
  BY InitYmInv, YmInvNext, PTL DEF Spec

----------------------------------------------------------------------------
\* A packet that is put together never outgrows the room for the longest one.
THEOREM PacketsFit == Spec => []HeldFits
<1>1. YmInv => HeldFits
  <2> SUFFICES ASSUME YmInv PROVE HeldFits
    OBVIOUS
  <2>1. \A i \in DOMAIN buf : buf[i].part \in {"all", "first", "rest"}
    BY DEF YmInv, LineOK, WellFormed, Pieces
  <2>2. \A f \in Files : \A i \in DOMAIN disk[f] : disk[f][i] \in Nat
    BY DEF YmInv, RxTypeOK
  <2> QED BY <2>1, <2>2 DEF YmInv, RxTypeOK, Held, HeldFits, YmodemTypeOK
<1> QED BY <1>1, YmInvariance, PTL

\* The receiver is at the packet under way, or one further and its ACK is on
\* the line.
THEOREM NeverOutOfStep == Spec => []InStep
<1>1. YmInv => InStep
  <2> SUFFICES ASSUME YmInv, state = 1, tx.phase = "data", lostAcks = 0, ~ stray PROVE InStep
    BY DEF InStep
  <2>1. tx.at \in Nat /\ DataLen(tx.kind) \in Nat \ {0}
    BY Lengths DEF YmInv, TxTypeOK, Senders
  <2>2. (fd = tx.file \/ (fd = None /\ failed > 0)) /\ (Behind \/ Ahead)
    BY DEF YmInv, Follows
  <2>3. CASE Behind
    BY <2>2, <2>3 DEF Behind, InStep
  <2>4. CASE Ahead
    <3>1. write_size > tx.at /\ next_sn = (tx.no + 1) % SnMod
      BY <2>1, <2>4 DEF Ahead
    <3>2. toTx # <<>>
      <4>1. toTx = <<"ACK">>
        BY <2>4 DEF Ahead, Acked
      <4>2. 1 \in DOMAIN toTx
        BY <4>1
      <4> QED BY <4>2
    <3> QED BY <2>2, <3>1, <3>2 DEF InStep
  <2> QED BY <2>2, <2>3, <2>4
<1> QED BY <1>1, YmInvariance, PTL

----------------------------------------------------------------------------
\* Ymodem implements FileCopy.

LEMMA UpToIs == ASSUME NEW n \in Nat PROVE Copy!UpTo(n) = UnitsFrom(0, n)
<1>1. \A i \in 1 .. n : i = 0 + i
  OBVIOUS
<1> QED BY <1>1 DEF Copy!UpTo, UnitsFrom

\* What the mapping makes of the state.
CDisk == [f \in Files |-> IF f \in spoilt THEN <<>> ELSE disk[f]]
COpen == IF stray \/ fd \in spoilt THEN None ELSE fd
CDone == (file_ok \cap Files) \ spoilt
Copies == Copy!CopyNext \/ UNCHANGED <<CDisk, COpen, CDone>>

LEMMA ByCopy ==
    ASSUME \/ UNCHANGED <<CDisk, COpen, CDone>>
           \/ \E f \in Files : /\ COpen = None /\ COpen' = f
                               /\ CDisk' = [CDisk EXCEPT ![f] = <<>>]
                               /\ CDone' = CDone \ {f}
           \/ \E f \in Files : /\ COpen \in {None, f} /\ COpen' = None
                               /\ CDisk' = [CDisk EXCEPT ![f] = <<>>]
                               /\ CDone' = CDone \ {f}
           \/ /\ COpen # None
              /\ \E n \in Len(CDisk[COpen]) + 1 .. Sizes[COpen] :
                    /\ CDisk' = [CDisk EXCEPT ![COpen] = Copy!UpTo(n)]
                    /\ IF n = Sizes[COpen]
                       THEN COpen' = None /\ CDone' = CDone \cup {COpen}
                       ELSE UNCHANGED <<COpen, CDone>>
           \/ COpen # None /\ COpen' = None /\ UNCHANGED <<CDisk, CDone>>
    PROVE  Copies
  BY DEF Copies, CDisk, COpen, CDone, Copy!CopyNext, Copy!Begin, Copy!Ruin, Copy!Store,
         Copy!Abandon, Copy!Files, Files

LEMMA ResetCopies ==
    ASSUME YmInv, NEW max, ResetHandler(max)
    PROVE  Copies
<1>1. fd' = None /\ stray' = FALSE /\ UNCHANGED <<disk, file_ok, spoilt>>
  BY DEF ResetHandler, fileVars
<1>2. CDisk' = CDisk /\ CDone' = CDone /\ COpen' = None
  BY <1>1, FilesAre DEF CDisk, CDone, COpen, YmInv, RxTypeOK
<1> QED BY <1>2, ByCopy

LEMMA OpenCopies ==
    ASSUME YmInv, state = 0, NEW f \in Files \cup {Other}, NEW size \in Nat, stray' \in BOOLEAN,
           Open(f, size), ~ stray' => f \in Files
    PROVE  Copies
<1>1. fd = None /\ COpen = None /\ spoilt \subseteq Files /\ disk \in [Files -> Seq(Nat)]
      /\ None \notin Files /\ Other \notin Files /\ Other # None
      /\ file_ok \subseteq Files \cup {Other, None}
  BY FilesAre DEF YmInv, FileOpen, COpen, RxTypeOK
<1>2. CASE fd' = None /\ UNCHANGED <<disk, file_ok, spoilt>>
  <2>1. CDisk' = CDisk /\ CDone' = CDone /\ COpen' = None
    BY <1>2 DEF CDisk, CDone, COpen
  <2> QED BY <1>1, <2>1, ByCopy
<1>3. CASE /\ fd' = f /\ disk' = Stored(f, <<>>) /\ file_ok' = file_ok \ {f}
           /\ spoilt' = IF stray' THEN spoilt \cup ({f} \cap Files) ELSE spoilt \ {f}
  <2>1. CASE f \in Files
    <3>1. COpen' = IF stray' THEN None ELSE f
      BY <1>1, <1>3, <2>1 DEF COpen
    <3>2. CDone' = CDone \ {f}
      BY <1>1, <1>3, <2>1 DEF CDone
    <3>3. CDisk' = [CDisk EXCEPT ![f] = <<>>]
      BY <1>1, <1>3, <2>1 DEF CDisk, Stored
    <3> QED BY <1>1, <2>1, <3>1, <3>2, <3>3, ByCopy
  <2>2. CASE f \notin Files
    <3>1. stray' /\ COpen' = None
      BY <2>2 DEF COpen
    <3>2. CDone' = CDone
      BY <1>1, <1>3, <2>2, <3>1 DEF CDone
    <3>3. CDisk' = CDisk
      BY <1>1, <1>3, <2>2, <3>1 DEF CDisk, Stored
    <3> QED BY <1>1, <3>1, <3>2, <3>3, ByCopy
  <2> QED BY <2>1, <2>2
<1> QED BY <1>2, <1>3 DEF Open

LEMMA SameFiles ==
    ASSUME UNCHANGED <<disk, fd, stray, file_ok, spoilt>>
    PROVE  Copies
  BY DEF Copies, CDisk, COpen, CDone

LEMMA RefuseCopies == ASSUME NEW max, Refuse(max) PROVE Copies
  BY SameFiles DEF Refuse, fileVars

LEMMA HeaderCopies ==
    ASSUME YmInv, Receives, state = 0, NEW max \in Nat, MayTake(Head(toRx), max),
           TakeHeader(Append(buf, Head(toRx)), max)
    PROVE  Copies
<1> DEFINE b == Append(buf, Head(toRx))
<1>1. CASE Refuse(max)
  BY <1>1, RefuseCopies
<1>2. CASE Intact(b) /\ ReadHeader(b[1].pk, max)
  <2>1. /\ ReadHeader(Current, max)
        /\ Current.type = "head" => /\ tx.phase = "head" /\ tx.file \in Files
                                    /\ Current.file = tx.file /\ Sizes[tx.file] \in Nat
    BY <1>2, HeaderOfFile
  <2>2. CASE EndSession(max)
    BY <2>2, ResetCopies DEF EndSession
  <2>3. CASE Refuse(max)
    BY <2>3, RefuseCopies
  <2>4. CASE /\ Current.type = "head" /\ stray' = FALSE
             /\ Open(Current.file, Sizes[Current.file])
    <3>1. Open(tx.file, Sizes[tx.file])
      BY <2>1, <2>4
    <3> QED BY <2>1, <2>4, <3>1, OpenCopies
  <2>5. CASE /\ Current.type = "data" /\ stray' = TRUE
             /\ \E f \in Files \cup {Other}, size \in Garbage : Open(f, size)
    <3>1. PICK f \in Files \cup {Other}, size \in Garbage : Open(f, size)
      BY <2>5
    <3>2. size \in Nat
      BY YmodemAssumption
    <3> QED BY <2>5, <3>1, <3>2, OpenCopies
  <2> QED BY <2>1, <2>2, <2>3, <2>4, <2>5 DEF ReadHeader
<1> QED BY <1>1, <1>2 DEF TakeHeader

\* The next units of the file that is open are written.
LEMMA WriteCopies ==
    ASSUME YmInv, state = 1, ~ stray, fd \in Files \ spoilt, NEW n \in Nat \ {0},
           Write(write_size, n), file_size = Sizes[fd], write_size + n <= file_size,
           disk' = Stored(fd, disk[fd] \o UnitsFrom(write_size, n)),
           UNCHANGED <<stray, spoilt>>
    PROVE  Copies
<1> DEFINE m == write_size + n
<1>1. /\ write_size \in Nat /\ file_size \in Nat /\ m \in Nat /\ file_size > 0
      /\ disk[fd] = UnitsFrom(0, write_size) /\ disk \in [Files -> Seq(Nat)]
      /\ spoilt \subseteq Files /\ None \notin Files
  BY FilesAre, SMTT(60) DEF YmInv, FileOpen, RxTypeOK
<1>2. UnitsFrom(0, write_size) \o UnitsFrom(write_size, n) = UnitsFrom(0, m)
      /\ Len(UnitsFrom(0, write_size)) = write_size
  BY <1>1, Units
<1>3. disk' = Stored(fd, UnitsFrom(0, m))
  BY <1>1, <1>2
<1>4. \/ m = Sizes[fd] /\ fd' = None /\ file_ok' = file_ok \cup {fd}
      \/ m # Sizes[fd] /\ UNCHANGED <<fd, file_ok>>
  <2>1. \/ m >= file_size /\ fd' = None /\ file_ok' = file_ok \cup {fd}
        \/ m < file_size /\ UNCHANGED <<fd, file_ok>>
    BY <1>1 DEF Write
  <2> HIDE DEF m
  <2>2. m <= file_size /\ file_size = Sizes[fd]
    BY DEF m
  <2> QED BY <1>1, <2>1, <2>2
<1>5. COpen = fd /\ fd # None /\ CDisk[fd] = disk[fd]
  BY <1>1 DEF COpen, CDisk
<1>6. m \in Len(CDisk[COpen]) + 1 .. Sizes[COpen]
  BY <1>1, <1>2, <1>5
<1> HIDE DEF m
<1>7. CDisk' = [CDisk EXCEPT ![fd] = UnitsFrom(0, m)]
  BY <1>1, <1>3 DEF CDisk, Stored
<1>8. CDisk' = [CDisk EXCEPT ![COpen] = Copy!UpTo(m)]
  BY <1>1, <1>5, <1>7, UpToIs
<1>9. IF m = Sizes[COpen] THEN COpen' = None /\ CDone' = CDone \cup {COpen}
                          ELSE UNCHANGED <<COpen, CDone>>
  <2>1. CASE m = Sizes[fd]
    <3>1. COpen' = None
      BY <1>1, <1>4, <2>1 DEF COpen
    <3>2. CDone' = CDone \cup {fd}
      BY <1>1, <1>4, <2>1 DEF CDone
    <3> QED BY <1>5, <2>1, <3>1, <3>2
  <2>2. CASE m # Sizes[fd]
    <3>1. COpen' = COpen /\ CDone' = CDone
      BY <1>4, <2>2 DEF COpen, CDone
    <3> QED BY <1>5, <2>2, <3>1
  <2> QED BY <2>1, <2>2
<1> QED BY <1>5, <1>6, <1>8, <1>9, ByCopy

LEMMA DataCopies ==
    ASSUME YmInv, Receives, state = 1, NEW max \in Nat,
           MayTake(Head(toRx), max), TakeData(Append(buf, Head(toRx)), max)
    PROVE  Copies
<1> DEFINE b == Append(buf, Head(toRx))
<1>1. CASE Refuse(max)
  BY <1>1, RefuseCopies
<1>2. CASE /\ Intact(b) /\ b[1].pk.sn = next_sn
           /\ Write(b[1].pk.from, UsedLen(b[1].pk))
  <2>1. /\ b[1].pk = Current /\ Current.kind \in {"SOH", "STX"} /\ Current.from \in Nat
        /\ ~ stray => /\ Current.from = write_size /\ file_size = Sizes[tx.file]
                      /\ file_size > 0 /\ (fd = tx.file \/ (fd = None /\ failed > 0))
    BY <1>2, NextOfFile
  <2> DEFINE n == UsedLen(Current)
  <2>2. /\ n \in Nat /\ (file_size > 0 => n > 0)
        /\ write_size + n <= file_size
    BY <2>1, UsedLenOK
  <2>3. Write(Current.from, n)
    BY <1>2, <2>1
  <2> HIDE DEF n
  <2>4. /\ spoilt \subseteq Files /\ disk \in [Files -> Seq(Nat)] /\ None \notin Files
        /\ Other \notin Files /\ fd \in Files \cup {Other, None}
        /\ stray => fd \notin Files \ spoilt
    BY FilesAre DEF YmInv, FileOpen, RxTypeOK
  <2>5. /\ disk' \in [Files -> Seq(Nat)] /\ \A g \in Files : g # fd => disk'[g] = disk[g]
        /\ fd \in Files \ spoilt' => disk' = Stored(fd, disk[fd] \o UnitsFrom(Current.from, n))
    BY <2>1, <2>2, <2>3, WriteFiles
  <2>6. /\ stray' = stray
        /\ \/ spoilt' = spoilt
           \/ spoilt' = spoilt \cup ({fd} \cap Files) /\ disk' = disk
        /\ \/ fd' = None /\ file_ok' = file_ok \cup {fd}
           \/ UNCHANGED <<fd, file_ok>>
    BY <2>3 DEF Write
  <2>7. CASE fd \in Files \ spoilt'
    <3>1. spoilt' = spoilt /\ ~ stray /\ fd \in Files \ spoilt
      BY <2>4, <2>6, <2>7
    <3>2. Current.from = write_size /\ file_size = Sizes[fd] /\ n \in Nat \ {0}
      BY <2>1, <2>2, <2>4, <3>1
    <3>3. Write(write_size, n)
          /\ disk' = Stored(fd, disk[fd] \o UnitsFrom(write_size, n))
      BY <2>3, <2>5, <2>7, <3>2
    <3> QED BY <2>2, <2>6, <3>1, <3>2, <3>3, WriteCopies
  <2>8. CASE fd \notin Files \ spoilt /\ spoilt' = spoilt
    <3>1. COpen = None \/ COpen = Other
      BY <2>4, <2>8 DEF COpen
    <3>2. CDisk' = CDisk
      BY <2>4, <2>5, <2>8 DEF CDisk
    <3>3. CDone' = CDone
      BY <2>4, <2>6, <2>8 DEF CDone
    <3>4. COpen' = None \/ COpen' = COpen
      BY <2>4, <2>6, <2>8 DEF COpen
    <3> QED BY <3>1, <3>2, <3>3, <3>4, FilesAre, ByCopy
  <2>9. CASE fd \in Files \ spoilt /\ spoilt' = spoilt \cup {fd} /\ disk' = disk
    <3>1. COpen = fd /\ COpen' = None
      BY <2>4, <2>6, <2>9 DEF COpen
    <3>2. CDisk' = [CDisk EXCEPT ![fd] = <<>>]
      BY <2>4, <2>9 DEF CDisk
    <3>3. CDone' = CDone \ {fd}
      BY <2>4, <2>6, <2>9 DEF CDone
    <3> QED BY <2>9, <3>1, <3>2, <3>3, ByCopy
  <2>10. \/ fd \in Files \ spoilt'
         \/ fd \notin Files \ spoilt /\ spoilt' = spoilt
         \/ fd \in Files \ spoilt /\ spoilt' = spoilt \cup {fd} /\ disk' = disk
    BY <2>4, <2>6
  <2> QED BY <2>7, <2>8, <2>9, <2>10
<1> QED BY <1>1, <1>2 DEF TakeData

LEMMA ReceiveCopies ==
    ASSUME YmInv, luat_ymodem_receive
    PROVE  Copies
<1> DEFINE c == Head(toRx)
<1>1. Receives /\ data_max \in Nat
  BY DEF luat_ymodem_receive, Receives, FalseCancel, YmInv, RxTypeOK
<1>2. ASSUME NEW max \in Nat, MayTake(c, max), state \in {0, 1}, TakePiece(c, max)
      PROVE  Copies
  <2>1. CASE ~ Complete(c, max)
    BY <1>2, <2>1, SameFiles DEF TakePiece, Keep, fileVars
  <2>2. CASE Complete(c, max) /\ state = 0
    BY <1>1, <1>2, <2>2, HeaderCopies DEF TakePiece
  <2>3. CASE Complete(c, max) /\ state = 1
    BY <1>1, <1>2, <2>3, DataCopies DEF TakePiece
  <2> QED BY <1>2, <2>1, <2>2, <2>3
<1>3. CASE ReceivePiece(c)
  <2>1. CASE data_pos > 0 /\ TakePiece(c, data_max)
    BY <1>1, <1>2, <1>3, <2>1 DEF MayTake, ReceivePiece
  <2>2. CASE data_pos = 0 /\ c.look \in {"STX", "SOH"} /\ TakePiece(c, Expected(c.look))
    <3>1. Expected(c.look) \in Nat
      BY <2>2, Lengths DEF Expected, OVERHEAD
    <3> QED BY <1>2, <1>3, <2>2, <3>1 DEF MayTake, ReceivePiece
  <2>3. CASE EndSession(data_max)
    BY <2>3, ResetCopies DEF EndSession
  <2>4. CASE Refuse(data_max)
    BY <2>4, RefuseCopies
  <2> QED BY <1>3, <2>1, <2>2, <2>3, <2>4 DEF ReceivePiece
<1>4. CASE ReceiveEnd(c)
  <2>1. fd = None
    BY <1>4 DEF ReceiveEnd, YmInv, FileOpen
  <2>2. CASE EndSession(data_max)
    BY <2>2, ResetCopies DEF EndSession
  <2>3. CASE Refuse(data_max)
    BY <2>3, RefuseCopies
  <2>4. CASE fd' = None /\ UNCHANGED <<stray, fileVars>>
    BY <2>1, <2>4, SameFiles DEF fileVars
  <2> QED BY <1>4, <2>2, <2>3, <2>4 DEF ReceiveEnd
<1>5. CASE ReceiveEndAgain(c)
  <2>1. CASE Refuse(data_max)
    BY <2>1, RefuseCopies
  <2>2. CASE UNCHANGED <<fd, stray, fileVars>>
    BY <2>2, SameFiles DEF fileVars
  <2> QED BY <1>5, <2>1, <2>2 DEF ReceiveEndAgain
<1> QED BY <1>3, <1>4, <1>5 DEF luat_ymodem_receive

\* Whatever the line, the application and the file system do, every file on
\* disk is a beginning of the file sent and is reported complete only when
\* whole, but for files begun by a data block that luat_ymodem_receive took
\* for a header, and files of which a write failed.
THEOREM TransferKeepsCopy == Spec => KeepsCopy
<1>1. Init => Copy!CopyInit
  BY DEF Init, Copy!CopyInit, Copy!Files, Files
<1>2. YmInv /\ [Next]_vars => [Copy!CopyNext]_(Copy!copyVars)
  <2> SUFFICES ASSUME YmInv, [Next]_vars PROVE Copies
    BY DEF Copies, CDisk, COpen, CDone, Copy!copyVars
  <2>1. CASE luat_ymodem_receive
    BY <2>1, ReceiveCopies
  <2>2. CASE luat_ymodem_reset
    BY <2>2, ResetCopies DEF luat_ymodem_reset
  <2>3. CASE UNCHANGED <<disk, fd, stray, file_ok, spoilt>>
    BY <2>3, SameFiles
  <2>4. Sender \/ LosePiece \/ CorruptPiece \/ LoseAnswer \/ UNCHANGED vars
        => UNCHANGED <<disk, fd, stray, file_ok, spoilt>>
    BY DEF Sender, SenderSends, SenderHears, SenderTimesOut, LosePiece, CorruptPiece,
           LoseAnswer, vars, rxVars, fileVars
  <2> QED BY <2>1, <2>2, <2>3, <2>4 DEF Next
<1> QED BY <1>1, <1>2, YmInvariance, PTL DEF Spec, KeepsCopy, Copy!CopySpec
=============================================================================

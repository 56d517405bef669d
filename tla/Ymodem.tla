------------------------------- MODULE Ymodem -------------------------------
(***************************************************************************)
(* The ymodem receiver (components/ymodem/luat_ymodem.c) at the end of a    *)
(* serial line that cuts packets in two, loses and corrupts them, against  *)
(* a standard sender that waits for the answer to each packet and sends it *)
(* again when told to or when none comes.                                  *)
(*                                                                         *)
(* A packet stands for its bytes: type and sequence number, which file or  *)
(* which units of a file it carries, and whether its checksum is right.    *)
(* A piece of it is what one luat_ymodem_receive call is given.  Sequence  *)
(* numbers are a byte: a long file has blocks with the number of a header, *)
(* and a receiver that was reset in mid file takes such a block for one.   *)
(***************************************************************************)
EXTENDS Naturals, Sequences

CONSTANTS
    Sizes,          \* sizes of the files sent, one after the other
    None,           \* no file
    Other,          \* a file that is none of those sent
    SOH_LEN,        \* units of data in a short packet (128 bytes)
    STX_LEN,        \* units of data in a long packet (1024 bytes)
    SnMod,          \* sequence numbers are a byte: 256
    Garbage,        \* sizes that file data may give when read as a header
    MaxFaults,      \* bound: losses, resets and failures of all kinds
    MaxTries        \* the sender cancels after that many failures in a row

Files == DOMAIN Sizes
DataLen(kind) == IF kind = "STX" THEN STX_LEN ELSE SOH_LEN

(* What the first byte of a piece may look like when it is damaged, or is  *)
(* in the middle of a packet; all other values are "other".                *)
Looks == {"STX", "SOH", "CAN", "EOT"}

ASSUME YmodemAssumption ==
    /\ Sizes \in Seq(Nat)
    /\ None \notin Files /\ Other \notin Files /\ Other # None
    /\ SOH_LEN \in Nat \ {0} /\ STX_LEN \in Nat /\ SOH_LEN < STX_LEN
    /\ SnMod \in Nat /\ SnMod > 1
    /\ Garbage \subseteq Nat
    /\ {MaxFaults, MaxTries} \subseteq Nat

VARIABLES
    state,      \* 0 header, 1 data, 2 and 3 first and second end of file
    buf,        \* packet_data[0..data_pos-1]: the pieces held
    data_pos,   \* their length
    data_max,   \* the length that is waited for (in state 0 without OVERHEAD)
    next_sn,
    file_size,
    write_size,
    fd,         \* the open file, or None (none open, or it did not open)
    stray,      \* history: a data block was taken for the header of this file
    disk,       \* what luat_fs_fwrite stored, per file
    file_ok,    \* history: files reported complete; None: one that did not open
    spoilt,     \* history: files begun by a data block, or with a failed write
    failed,     \* calls of the file system that failed so far
    tx,         \* the sender
    toRx,       \* pieces on the line
    toTx,       \* answers on the line
    lost,       \* pieces lost, corrupted or cut at a byte of Looks so far
    lostAcks,   \* answers the line lost so far
    resets,     \* calls of ymodem.reset by the application so far
    cancelled   \* history: a piece was taken for a CAN that was not sent

rxVars    == <<state, buf, data_pos, data_max, next_sn, file_size, write_size, fd, stray>>
fileVars  == <<disk, file_ok, spoilt, failed>>
faultVars == <<lost, lostAcks, resets, cancelled>>
vars      == <<rxVars, fileVars, tx, toRx, toTx, faultVars>>

MayFail == lost + lostAcks + resets + failed < MaxFaults
-----------------------------------------------------------------------------
(* Packets and their pieces                                                *)

Packet(type, kind, sn, f, from) ==
    [type |-> type, kind |-> kind, sn |-> sn, file |-> f, from |-> from]

(* look is what its first byte would mean as the first of a packet.        *)
Piece(p, part, look) == [pk |-> p, part |-> part, look |-> look, good |-> TRUE]

(* Lengths in half units; the five bytes around the data are OVERHEAD.     *)
OVERHEAD == 2
PacketLen(kind) ==
    IF kind \in {"STX", "SOH"} THEN 2 * DataLen(kind) + OVERHEAD ELSE 1
PieceLen(c) ==
    IF c.part = "all" THEN PacketLen(c.pk.kind) ELSE PacketLen(c.pk.kind) \div 2

(* The pieces are those of one packet, whole and uncorrupted: the checksum *)
(* is right.                                                               *)
Intact(b) ==
    /\ b # <<>>
    /\ \A i \in DOMAIN b : b[i].good /\ b[i].pk = b[1].pk
    /\ [i \in DOMAIN b |-> b[i].part] \in {<<"all">>, <<"first", "rest">>}
-----------------------------------------------------------------------------
(* The receiver: luat_ymodem_receive and luat_ymodem_reset                 *)

Answer(a) == toTx' = Append(toTx, a)

(* DATA_RECIEVE_ERROR                                                      *)
Refuse(max) ==
    /\ buf' = <<>> /\ data_pos' = 0
    /\ data_max' = max
    /\ Answer("NAK")
    /\ UNCHANGED <<state, next_sn, file_size, write_size, fd, stray, fileVars>>

(* luat_ymodem_reset: all but the bytes held and their number.             *)
ResetHandler(max) ==
    /\ state' = 0 /\ next_sn' = 0 /\ file_size' = 0 /\ fd' = None
    /\ stray' = FALSE
    /\ data_max' = max
    /\ UNCHANGED <<buf, data_pos, write_size, fileVars>>

(* A cancel, or the empty header that ends the batch: reset, all_done.     *)
EndSession(max) == ResetHandler(max) /\ Answer("ACK")

(* The piece is kept until the rest of its packet is here.                 *)
Keep(c, max) ==
    /\ buf' = Append(buf, c) /\ data_pos' = data_pos + PieceLen(c)
    /\ data_max' = max
    /\ UNCHANGED <<state, next_sn, file_size, write_size, fd, stray, fileVars, toTx>>

(* The next packet is waited for: DATA_RECIEVE_OK.                         *)
Accept(sn, max) ==
    /\ next_sn' = sn % SnMod
    /\ data_max' = max
    /\ buf' = <<>> /\ data_pos' = 0
    /\ Answer("ACK")

(* disk with s as the contents of f.                                       *)
Stored(f, s) == [g \in Files |-> IF g = f THEN s ELSE disk[g]]

(* A file of that size is opened for writing, or the code goes on without  *)
(* one.  stray' says that a data block gave the name and the size.         *)
Open(f, size) ==
    /\ \/ /\ fd' = f
          /\ disk' = Stored(f, <<>>)
          /\ file_ok' = file_ok \ {f}
          /\ spoilt' = IF stray' THEN spoilt \cup ({f} \cap Files) ELSE spoilt \ {f}
          /\ failed' = failed
       \/ /\ MayFail /\ failed' = failed + 1
          /\ fd' = None
          /\ UNCHANGED <<disk, file_ok, spoilt>>
    /\ file_size' = size /\ write_size' = 0
    /\ state' = 1

BugReadHeader(p, max) == \* mutant: the header itself is not counted
    \/ p.type \in {"null", "data"} /\ EndSession(max)
    \/ p.type = "data" /\ Refuse(max)
    \/ /\ p.type = "head" /\ stray' = FALSE /\ Open(p.file, Sizes[p.file])
       /\ Accept(0, 2 * STX_LEN + OVERHEAD)
    \/ /\ p.type = "data" /\ stray' = TRUE
       /\ \E f \in Files \cup {Other}, size \in Garbage : Open(f, size)
       /\ Accept(0, 2 * STX_LEN + OVERHEAD)

(* What a header says, and what the bytes of a data block may say: that    *)
(* the batch ends, nothing that makes sense, or the name and the size of   *)
(* any file; with force_save_path, the file that was open before.          *)
ReadHeader(p, max) ==
    \/ p.type \in {"null", "data"} /\ EndSession(max)
    \/ p.type = "data" /\ Refuse(max)
    \/ /\ p.type = "head" /\ stray' = FALSE /\ Open(p.file, Sizes[p.file])
       /\ Accept(1, 2 * STX_LEN + OVERHEAD)
    \/ /\ p.type = "data" /\ stray' = TRUE
       /\ \E f \in Files \cup {Other}, size \in Garbage : Open(f, size)
       /\ Accept(1, 2 * STX_LEN + OVERHEAD)

(* State 0 with all bytes of a packet that has the number of a header.     *)
TakeHeader(b, max) ==
    \/ (~Intact(b) \/ b[1].pk.sn # 0) /\ Refuse(max)
    \/ Intact(b) /\ b[1].pk.sn = 0 /\ ReadHeader(b[1].pk, max)

(* Units of the packet that belong to the file, the rest is padding.       *)
UsedLen(p) ==
    IF file_size - write_size > DataLen(p.kind)
    THEN DataLen(p.kind) ELSE file_size - write_size

UnitsFrom(from, n) == [i \in 1..n |-> from + i]

(* The units are written to the open file, if there is one and the file    *)
(* system can; with the last, the file is closed and reported complete.    *)
Write(from, n) ==
    /\ \/ /\ disk' = IF fd \in Files THEN Stored(fd, disk[fd] \o UnitsFrom(from, n))
                     ELSE disk
          /\ UNCHANGED <<spoilt, failed>>
       \/ /\ MayFail /\ failed' = failed + 1
          /\ spoilt' = spoilt \cup ({fd} \cap Files)
          /\ disk' = disk
    /\ write_size' = write_size + n
    /\ \/ /\ file_size > 0 /\ write_size + n >= file_size
          /\ state' = 2 /\ fd' = None /\ file_ok' = file_ok \cup {fd}
       \/ /\ file_size = 0 \/ write_size + n < file_size
          /\ UNCHANGED <<state, fd, file_ok>>
    /\ UNCHANGED <<file_size, stray>>

BugAnySn(b, max) ==      \* mutant: the sequence number is not compared
    \/ ~Intact(b) /\ Refuse(max)
    \/ /\ Intact(b)
       /\ Write(b[1].pk.from, UsedLen(b[1].pk))
       /\ Accept(next_sn + 1, max)

(* State 1 with all bytes of a data packet: write it, close after the last.*)
TakeData(b, max) ==
    \/ (~Intact(b) \/ b[1].pk.sn # next_sn) /\ Refuse(max)
    \/ /\ Intact(b) /\ b[1].pk.sn = next_sn
       /\ Write(b[1].pk.from, UsedLen(b[1].pk))
       /\ Accept(next_sn + 1, max)

(* What is waited for once the first piece, which looks like lead, is here. *)
Expected(lead) == IF state = 0 THEN 2 * DataLen(lead)
                  ELSE 2 * DataLen(lead) + OVERHEAD
Complete(c, max) ==
    data_pos + PieceLen(c) >= IF state = 0 THEN max + OVERHEAD ELSE max

(* States 0 and 1: a piece begins a packet or goes on with it.             *)
TakePiece(c, max) ==
    IF ~Complete(c, max) THEN Keep(c, max)
    ELSE IF state = 0 THEN TakeHeader(Append(buf, c), max)
    ELSE TakeData(Append(buf, c), max)

BugReceivePiece(c) ==    \* mutant: CAN is looked for in mid packet too
    /\ state \in {0, 1}
    /\ \/ data_pos > 0 /\ c.look # "CAN" /\ TakePiece(c, data_max)
       \/ /\ data_pos = 0 /\ c.look \in {"STX", "SOH"}
          /\ TakePiece(c, Expected(c.look))
       \/ c.look = "CAN" /\ EndSession(data_max)
       \/ data_pos = 0 /\ c.look \notin {"STX", "SOH", "CAN"} /\ Refuse(data_max)

ReceivePiece(c) ==
    /\ state \in {0, 1}
    /\ \/ data_pos > 0 /\ TakePiece(c, data_max)
       \/ /\ data_pos = 0 /\ c.look \in {"STX", "SOH"}
          /\ TakePiece(c, Expected(c.look))
       \/ data_pos = 0 /\ c.look = "CAN" /\ EndSession(data_max)
       \/ data_pos = 0 /\ c.look \notin {"STX", "SOH", "CAN"} /\ Refuse(data_max)

(* State 2: the file is complete, EOT is refused once.                     *)
ReceiveEnd(c) ==
    /\ state = 2
    /\ \/ /\ c.look = "EOT"
          /\ state' = 3 /\ buf' = <<>> /\ data_pos' = 0 /\ fd' = None
          /\ Answer("NAK")
          /\ UNCHANGED <<data_max, next_sn, file_size, write_size, stray, fileVars>>
       \/ c.look = "CAN" /\ EndSession(data_max)
       \/ c.look \notin {"EOT", "CAN"} /\ Refuse(data_max)

(* State 3: the second EOT is accepted, the next header may come.          *)
ReceiveEndAgain(c) ==
    /\ state = 3
    /\ \/ /\ c.look = "EOT"
          /\ state' = 0
          /\ Answer("ACK")
          /\ UNCHANGED <<buf, data_pos, data_max, next_sn, file_size,
                         write_size, fd, stray, fileVars>>
       \/ c.look # "EOT" /\ Refuse(data_max)

(* A piece of another packet is taken for a CAN.                           *)
FalseCancel(c) ==
    c.look = "CAN" /\ c.pk.kind # "CAN" /\ data_pos = 0 /\ state # 3

luat_ymodem_receive ==
    /\ toRx # <<>>
    /\ \/ ReceivePiece(Head(toRx))
       \/ ReceiveEnd(Head(toRx))
       \/ ReceiveEndAgain(Head(toRx))
    /\ toRx' = Tail(toRx)
    /\ cancelled' = (cancelled \/ FalseCancel(Head(toRx)))
    /\ UNCHANGED <<tx, lost, lostAcks, resets>>

(* ymodem.reset by the application, at any time                            *)
luat_ymodem_reset ==
    /\ MayFail
    /\ ResetHandler(data_max)
    /\ resets' = resets + 1
    /\ UNCHANGED <<tx, toRx, toTx, lost, lostAcks, cancelled>>
-----------------------------------------------------------------------------
(* The sender, external: a file is a header, its data and two EOT, the     *)
(* batch ends with an empty header.  at counts units acknowledged, no the  *)
(* data packets, kind is that of the packet under way.                     *)

SenderStart(f) ==
    IF f \in Files
    THEN [phase |-> "head", file |-> f, at |-> 0, no |-> 1, kind |-> "SOH",
          go |-> TRUE, tries |-> 0]
    ELSE [phase |-> "last", file |-> 0, at |-> 0, no |-> 1, kind |-> "SOH",
          go |-> TRUE, tries |-> 0]

Current ==
    CASE tx.phase = "head"   -> Packet("head", "SOH", 0, tx.file, 0)
      [] tx.phase = "data"   -> Packet("data", tx.kind, tx.no % SnMod, tx.file, tx.at)
      [] tx.phase = "eot"    -> Packet("eot", "EOT", 0, 0, 0)
      [] tx.phase = "last"   -> Packet("null", "SOH", 0, 0, 0)
      [] OTHER               -> Packet("can", "CAN", 0, 0, 0)

(* The packet goes out in one piece or in two; the second of these may, if *)
(* the line is unlucky, begin with a byte that means something as a first. *)
SenderSends ==
    /\ tx.go /\ toRx = <<>> /\ toTx = <<>>
    /\ tx' = [tx EXCEPT !.go = FALSE]
    /\ \/ toRx' = <<Piece(Current, "all", Current.kind)>> /\ lost' = lost
       \/ /\ tx.phase \in {"head", "data", "last"}
          /\ \E look \in {"other"} \cup (IF MayFail THEN Looks ELSE {}) :
                /\ toRx' = <<Piece(Current, "first", Current.kind),
                             Piece(Current, "rest", look)>>
                /\ lost' = IF look = "other" THEN lost ELSE lost + 1
    /\ UNCHANGED <<rxVars, fileVars, toTx, lostAcks, resets, cancelled>>

(* After data of length n: more data of either kind, or the end.           *)
DataOrEnd(at, no) ==
    IF at < Sizes[tx.file]
    THEN {[tx EXCEPT !.phase = "data", !.at = at, !.no = no, !.kind = k,
                     !.go = TRUE, !.tries = 0] : k \in {"SOH", "STX"}}
    ELSE {[tx EXCEPT !.phase = "eot", !.go = TRUE, !.tries = 0]}

Proceed ==
    CASE tx.phase = "head" -> DataOrEnd(0, 1)
      [] tx.phase = "data" -> DataOrEnd(tx.at + DataLen(tx.kind), tx.no + 1)
      [] tx.phase = "eot"  -> {SenderStart(tx.file + 1)}
      [] OTHER             -> {[tx EXCEPT !.phase = "over", !.go = FALSE]}

(* One more failure: send it again, or cancel after too many.              *)
Retry ==
    IF tx.phase = "over" THEN tx
    ELSE IF tx.tries < MaxTries THEN [tx EXCEPT !.go = TRUE, !.tries = @ + 1]
    ELSE IF tx.phase = "cancel" THEN [tx EXCEPT !.phase = "over"]
    ELSE [tx EXCEPT !.phase = "cancel", !.go = TRUE, !.tries = 0]

SenderHears ==
    /\ toTx # <<>>
    /\ toTx' = Tail(toTx)
    /\ IF Head(toTx) = "ACK" THEN tx' \in Proceed ELSE tx' = Retry
    /\ UNCHANGED <<rxVars, fileVars, toRx, faultVars>>

(* No answer came, and nothing is on the line any more.                    *)
SenderTimesOut ==
    /\ ~tx.go /\ tx.phase # "over" /\ toRx = <<>> /\ toTx = <<>>
    /\ tx' = Retry
    /\ UNCHANGED <<rxVars, fileVars, toRx, toTx, faultVars>>
-----------------------------------------------------------------------------
(* The line, external                                                      *)

LosePiece ==
    /\ toRx # <<>> /\ MayFail
    /\ toRx' = Tail(toRx)
    /\ lost' = lost + 1
    /\ UNCHANGED <<rxVars, fileVars, tx, toTx, lostAcks, resets, cancelled>>

CorruptPiece ==
    /\ toRx # <<>> /\ Head(toRx).good /\ MayFail
    /\ \E look \in Looks \cup {Head(toRx).look, "other"} :
          toRx' = [toRx EXCEPT ![1].good = FALSE, ![1].look = look]
    /\ lost' = lost + 1
    /\ UNCHANGED <<rxVars, fileVars, tx, toTx, lostAcks, resets, cancelled>>

LoseAnswer ==
    /\ toTx # <<>> /\ MayFail
    /\ toTx' = Tail(toTx)
    /\ lostAcks' = lostAcks + 1
    /\ UNCHANGED <<rxVars, fileVars, tx, toRx, lost, resets, cancelled>>
-----------------------------------------------------------------------------
Init ==
    /\ state = 0 /\ buf = <<>> /\ data_pos = 0 /\ data_max = 0 /\ next_sn = 0
    /\ file_size = 0 /\ write_size = 0 /\ fd = None /\ stray = FALSE
    /\ disk = [f \in Files |-> <<>>] /\ file_ok = {} /\ spoilt = {} /\ failed = 0
    /\ tx = SenderStart(1)
    /\ toRx = <<>> /\ toTx = <<>>
    /\ lost = 0 /\ lostAcks = 0 /\ resets = 0 /\ cancelled = FALSE

Sender == SenderSends \/ SenderHears \/ SenderTimesOut
Next ==
    \/ luat_ymodem_receive \/ luat_ymodem_reset
    \/ Sender
    \/ LosePiece \/ CorruptPiece \/ LoseAnswer

Spec == Init /\ [][Next]_vars

(* What is on the line arrives unless it is lost, and the sender goes on.  *)
FairSpec == Spec /\ WF_vars(luat_ymodem_receive) /\ WF_vars(Sender)
-----------------------------------------------------------------------------
(* Properties                                                              *)

(* Type invariant.                                                         *)
YmodemTypeOK ==
    /\ state \in 0..3
    /\ \A i \in DOMAIN buf : buf[i].part \in {"all", "first", "rest"}
    /\ next_sn \in 0..SnMod - 1
    /\ {file_size, write_size, data_pos, data_max, failed} \subseteq Nat
    /\ fd \in Files \cup {Other, None}
    /\ file_ok \subseteq Files \cup {Other, None} /\ spoilt \subseteq Files
    /\ stray \in BOOLEAN /\ cancelled \in BOOLEAN
    /\ \A f \in Files : \A i \in DOMAIN disk[f] : disk[f][i] \in Nat

(* What is waited for before the bytes held are taken for a packet.        *)
WaitedFor == IF state = 0 THEN data_max + OVERHEAD ELSE data_max

(* A packet that is being put together never has to become longer than a   *)
(* long packet, for which packet_data has room (the copies of              *)
(* luat_ymodem.c:157, 187 and 283 rely on it).  A reset by the application *)
(* that finds a part of a long packet held breaks this: state goes back to *)
(* 0, where data_max is read without its five bytes, but data_max and      *)
(* data_pos are left as they are.                                          *)
HeldFits ==
    /\ YmodemTypeOK
    /\ (data_pos > 0 /\ resets = 0) =>
           /\ data_pos < WaitedFor
           /\ WaitedFor <= 2 * STX_LEN + OVERHEAD

(* Sender and receiver never disagree by more than the packet under way,   *)
(* also after a reset or a cancel, unless an answer was lost or the        *)
(* receiver took a data block for the header of the file it writes.        *)
InStep ==
    (state = 1 /\ tx.phase = "data" /\ lostAcks = 0 /\ ~stray) =>
        /\ fd = tx.file \/ (fd = None /\ failed > 0)
        /\ \/ write_size = tx.at /\ next_sn = tx.no % SnMod
           \/ /\ write_size > tx.at /\ next_sn = (tx.no + 1) % SnMod
              /\ toTx # <<>>

(* What a transfer promises says nothing of files that are spoilt and of   *)
(* files opened by data blocks.                                            *)
Copy == INSTANCE FileCopy
    WITH disk     <- [f \in Files |-> IF f \in spoilt THEN <<>> ELSE disk[f]],
         open     <- IF stray \/ fd \in spoilt THEN None ELSE fd,
         complete <- (file_ok \cap Files) \ spoilt

(* Whatever is lost, corrupted, cut, repeated, taken for something else or *)
(* reset, a file on disk is a beginning of the file sent and file_ok is    *)
(* reported for whole ones, unless a write failed or a data block with the *)
(* number of a header came after a reset or a cancel and opened that file. *)
KeepsCopy == Copy!CopySpec

(* Every file that is not empty arrives in spite of pieces lost and        *)
(* corrupted, as long as the answers get through, no damaged piece looks   *)
(* like a CAN where one is looked for, and the file opens.                 *)
FilesArrive ==
    \A f \in Files : Sizes[f] > 0 =>
        ((tx.file = f /\ tx.phase = "head")
            ~> (f \in file_ok \/ lostAcks > 0 \/ resets > 0 \/ cancelled \/ failed > 0))
=============================================================================

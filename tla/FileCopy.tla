------------------------------ MODULE FileCopy ------------------------------
(***************************************************************************)
(* What a file transfer promises, whatever its line does: a file on disk   *)
(* is always a beginning of the file sent, in order and without gaps, and  *)
(* it is reported complete only when it is whole.                          *)
(* Ymodem.tla is shown to implement this specification.                    *)
(***************************************************************************)
EXTENDS Naturals, Sequences

CONSTANTS
    Sizes,      \* sequence of the sizes of the files, in units of data
    None        \* no file is open

Files == DOMAIN Sizes

VARIABLES
    disk,       \* what is stored of each file: the units, by position
    open,       \* the file that is being written, or None
    complete    \* files that were reported complete

copyVars == <<disk, open, complete>>

UpTo(n) == [i \in 1..n |-> i]

CopyInit ==
    /\ disk = [f \in Files |-> <<>>]
    /\ open = None
    /\ complete = {}

(* A file is begun, again if it was there before.                          *)
Begin(f) ==
    /\ open = None
    /\ open' = f
    /\ disk' = [disk EXCEPT ![f] = <<>>]
    /\ complete' = complete \ {f}

(* Its next units are stored, at least one; with the last it is complete.  *)
Store ==
    /\ open # None
    /\ \E n \in Len(disk[open]) + 1..Sizes[open] :
          /\ disk' = [disk EXCEPT ![open] = UpTo(n)]
          /\ IF n = Sizes[open]
             THEN open' = None /\ complete' = complete \cup {open}
             ELSE UNCHANGED <<open, complete>>

(* The file is given up as far as it got.                                  *)
Abandon ==
    /\ open # None
    /\ open' = None
    /\ UNCHANGED <<disk, complete>>

(* A file is no longer a copy, and does not count as complete: a write     *)
(* failed, or what is not its header opened it.                            *)
Ruin(f) ==
    /\ open \in {None, f}
    /\ open' = None
    /\ disk' = [disk EXCEPT ![f] = <<>>]
    /\ complete' = complete \ {f}

CopyNext == (\E f \in Files : Begin(f) \/ Ruin(f)) \/ Store \/ Abandon

CopySpec == CopyInit /\ [][CopyNext]_copyVars
=============================================================================

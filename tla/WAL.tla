-------------------------------- MODULE WAL --------------------------------
(***************************************************************************)
(* The write-ahead log of a data node (src/internal/wal/wal.go): numbered  *)
(* files in a directory, the highest of them open for appending, each a    *)
(* sequence of records written in two calls (the length, the JSON data)    *)
(* and synced before the append is answered.  Every public method holds    *)
(* the mutex of the log from its first to its last line, so there is one   *)
(* of them at work at any time and only the end of the process, or of the  *)
(* machine, comes between two steps of it.                                 *)
(*                                                                         *)
(* The n-th call of Append writes the record with the number n.  Within a  *)
(* file the records lie in the order of their numbers (O_APPEND); the size *)
(* of records and files is left out: any append may find that its record   *)
(* does not fit in the open file.                                          *)
(*                                                                         *)
(* SyncedNothing, TruncateAbove and OpenFirst are mutants that             *)
(* PROJECT.json puts in the place of what follows them.                    *)
(***************************************************************************)
EXTENDS Naturals

CONSTANTS
    MaxAppends,   \* bound: calls of Append
    MaxFiles,     \* bound: the highest number a file gets
    KeepOpen      \* TRUE: nobody asks Truncate to remove the open file

ASSUME BoundsAssumption == MaxAppends \in Nat /\ MaxFiles \in Nat
ASSUME KeepOpenAssumption == KeepOpen \in BOOLEAN

VARIABLES
    disk,       \* the records in the files, torn ones included
    newest,     \* the highest number of a file in the directory, 0 for none
    sequence,   \* WAL.sequence
    fd,         \* WAL.file: "open", "closed", "unlinked" (open but removed),
                \* or "none" while the process is not running
    phase,      \* how far the append at work has come
    next,       \* the number of the append at work, or of the next one
    promised    \* appends answered with success and not truncated since

vars == <<disk, newest, sequence, fd, phase, next, promised>>

Record == [file : Nat, number : Nat, whole : BOOLEAN, synced : BOOLEAN]

TypeOK ==
    /\ disk \in SUBSET Record
    /\ newest \in Nat
    /\ sequence \in Nat
    /\ fd \in {"open", "closed", "unlinked", "none"}
    /\ phase \in {"idle", "room", "length", "data"}
    /\ next \in Nat
    /\ promised \in SUBSET Nat

\* The first start of the node, in an empty directory.
Init ==
    /\ disk = {}
    /\ newest = 1
    /\ sequence = 1
    /\ fd = "open"
    /\ phase = "idle"
    /\ next = 1
    /\ promised = {}

SyncedNothing(d) == d

\* The records a sync of the open file makes durable: all that it holds.
Synced(d) ==
    {[r EXCEPT !.synced = @ \/ (fd = "open" /\ r.file = sequence)] : r \in d}

----------------------------------------------------------------------------
\* Append, step by step.

\* The append at work ends with an error.
Fail ==
    /\ phase' = "idle"
    /\ next' = next + 1
    /\ UNCHANGED promised

\* maybeRotate when the record fits: Stat of the file, which must be open.
AppendInPlace ==
    /\ phase = "idle" /\ next <= MaxAppends
    /\ fd \in {"open", "unlinked"}
    /\ phase' = "room"
    /\ UNCHANGED <<disk, newest, sequence, fd, next, promised>>

\* maybeRotate when it does not: close, count, create the next file.
AppendRotates ==
    /\ phase = "idle" /\ next <= MaxAppends
    /\ fd \in {"open", "unlinked"}
    /\ sequence < MaxFiles
    /\ sequence' = sequence + 1
    /\ newest' = sequence + 1
    /\ fd' = "open"
    /\ phase' = "room"
    /\ UNCHANGED <<disk, next, promised>>

\* The close fails, or the next file cannot be created: the log keeps a
\* closed file and the append ends.
RotationFails ==
    /\ phase = "idle" /\ next <= MaxAppends
    /\ fd \in {"open", "unlinked"}
    /\ sequence < MaxFiles
    /\ sequence' \in {sequence, sequence + 1}
    /\ fd' = "closed"
    /\ Fail
    /\ UNCHANGED <<disk, newest>>

\* Stat of a closed file fails.
AppendRefused ==
    /\ phase = "idle" /\ next <= MaxAppends
    /\ fd = "closed"
    /\ Fail
    /\ UNCHANGED <<disk, newest, sequence, fd>>

Piece(w) == [file |-> sequence, number |-> next, whole |-> w, synced |-> FALSE]

\* What is written to a file that has been removed is in no directory.
Written(r) == IF fd = "open" THEN {r} ELSE {}

WriteLength ==
    /\ phase = "room"
    /\ disk' = disk \union Written(Piece(FALSE))
    /\ phase' = "length"
    /\ UNCHANGED <<newest, sequence, fd, next, promised>>

WriteData ==
    /\ phase = "length"
    /\ disk' = (disk \ {Piece(FALSE)}) \union Written(Piece(TRUE))
    /\ phase' = "data"
    /\ UNCHANGED <<newest, sequence, fd, next, promised>>

\* A write fails; what it has written of the record stays in the file.
WriteFails ==
    /\ \/ /\ phase = "room"
          /\ disk' \in {disk, disk \union Written(Piece(FALSE))}
       \/ /\ phase = "length"
          /\ UNCHANGED disk
    /\ Fail
    /\ UNCHANGED <<newest, sequence, fd>>

SyncAnswers ==
    /\ phase = "data"
    /\ disk' = Synced(disk)
    /\ promised' = promised \union {next}
    /\ phase' = "idle"
    /\ next' = next + 1
    /\ UNCHANGED <<newest, sequence, fd>>

SyncFails ==
    /\ phase = "data"
    /\ Fail
    /\ UNCHANGED <<disk, newest, sequence, fd>>

----------------------------------------------------------------------------
\* The other methods, and what happens to the process and the machine.

\* Sync.
SyncCall ==
    /\ fd # "none" /\ phase = "idle"
    /\ disk' = Synced(disk)
    /\ UNCHANGED <<newest, sequence, fd, phase, next, promised>>

\* Close, at the orderly end of the node.
Close ==
    /\ fd # "none" /\ phase = "idle"
    /\ disk' = Synced(disk)
    /\ fd' = "none"
    /\ UNCHANGED <<newest, sequence, phase, next, promised>>

TruncateAbove(before) ==
    /\ fd # "none" /\ phase = "idle"
    /\ disk' = {r \in disk : r.file < before}
    /\ promised' = promised \ {r.number : r \in disk \ disk'}
    /\ UNCHANGED <<newest, sequence, fd, phase, next>>

\* Truncate: the files below a number go, the open one with them if it is.
Truncate(before) ==
    /\ fd # "none" /\ phase = "idle"
    /\ KeepOpen => before <= sequence
    /\ disk' = {r \in disk : r.file >= before}
    /\ newest' = IF newest < before THEN 0 ELSE newest
    /\ fd' = IF fd = "open" /\ sequence < before THEN "unlinked" ELSE fd
    /\ promised' = promised \ {r.number : r \in disk \ disk'}
    /\ UNCHANGED <<sequence, phase, next>>

\* The process ends; what it wrote stays with the operating system.
Crash ==
    /\ fd # "none"
    /\ fd' = "none"
    /\ phase' = "idle"
    /\ next' = IF phase = "idle" THEN next ELSE next + 1
    /\ UNCHANGED <<disk, newest, sequence, promised>>

\* The machine loses its power: of every file, the unsynced records go from
\* some place on, and the record at that place may be cut in two.
PowerLoss ==
    LET unsynced == {r \in disk : ~r.synced}
    IN /\ fd' = "none"
       /\ phase' = "idle"
       /\ next' = IF phase = "idle" THEN next ELSE next + 1
       /\ \E kept \in SUBSET unsynced : \E cut \in SUBSET kept :
              /\ \A k \in kept, r \in unsynced :
                     r.file = k.file /\ r.number < k.number => r \in kept \ cut
              /\ disk' = ((disk \ unsynced) \union (kept \ cut))
                             \union {[r EXCEPT !.whole = FALSE] : r \in cut}
       /\ UNCHANGED <<newest, sequence, promised>>

OpenFirst ==
    /\ fd = "none"
    /\ sequence' = 1
    /\ newest' = IF newest = 0 THEN 1 ELSE newest
    /\ fd' = "open"
    /\ UNCHANGED <<disk, phase, next, promised>>

\* NewWAL, openCurrentFile: the last file of the directory, or a first one.
Open ==
    /\ fd = "none"
    /\ sequence' = IF newest = 0 THEN 1 ELSE newest
    /\ newest' = sequence'
    /\ fd' = "open"
    /\ UNCHANGED <<disk, phase, next, promised>>

Next ==
    \/ AppendInPlace \/ AppendRotates \/ RotationFails \/ AppendRefused
    \/ WriteLength \/ WriteData \/ WriteFails
    \/ SyncAnswers \/ SyncFails
    \/ SyncCall \/ Close \/ Crash \/ PowerLoss \/ Open
    \/ \E before \in 1 .. MaxFiles + 1 : Truncate(before)

Spec == Init /\ [][Next]_vars

----------------------------------------------------------------------------
\* What a reader gets.

\* ReadAll and readFile: the records in the order of the files, and an error
\* when one of them is torn, unless it is the one being written (the mutex).
InProgress(r) == phase = "length" /\ r.number = next
Torn == {r \in disk : ~r.whole /\ ~InProgress(r)}
Readable == Torn = {}
Entries == {r.number : r \in {x \in disk : x.whole}}

\* Append answers with success only for a record that is whole on the disk,
\* synced, in a file a reader opens, and it stays so through crashes, power
\* losses, rotations and restarts until it is truncated.
PromisedSynced ==
    \A n \in promised :
        \E r \in disk : r.number = n /\ r.whole /\ r.synced

\* The order of the files is the order of the appends, so ReadAll, which goes
\* by the files' names, replays in the order of the appends: over rotations,
\* rotations that fail, restarts that continue the last file and truncations.
InOrder ==
    \A r, s \in disk : r.file < s.file => r.number < s.number

\* The files implement the durable log.
Durable == INSTANCE DurableLog WITH
    Numbers <- 1 .. MaxAppends,
    log <- Entries, promised <- promised, readable <- Readable
ImplementsDurableLog == Durable!Spec
=============================================================================

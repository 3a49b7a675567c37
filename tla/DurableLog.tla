----------------------------- MODULE DurableLog -----------------------------
(***************************************************************************)
(* What the write-ahead log of a data node promises                        *)
(* (src/internal/wal/wal.go), without files, records and sync calls: a log *)
(* of numbered entries, read in the order of their numbers, that grows at  *)
(* its end only and keeps every entry whose append was answered, whatever  *)
(* the machine does, until the log's owner removes it.  An entry whose     *)
(* append was not answered may be there or not.  readable is FALSE when a  *)
(* reader gets an error in place of the entries.                           *)
(***************************************************************************)
EXTENDS Naturals

CONSTANT Numbers   \* the natural numbers the entries are numbered with

VARIABLES
    log,        \* the numbers of the entries that are in the log
    promised,   \* those of them whose append was answered with success
    readable    \* a reader gets the entries, not an error

vars == <<log, promised, readable>>

Init ==
    /\ log = {}
    /\ promised = {}
    /\ readable = TRUE

\* An entry comes to the end of the log.
Append ==
    /\ \E n \in Numbers :
           /\ \A m \in log : m < n
           /\ log' = log \union {n}
    /\ UNCHANGED <<promised, readable>>

\* The append of an entry in the log is answered.
Promise ==
    /\ \E n \in log : promised' = promised \union {n}
    /\ UNCHANGED <<log, readable>>

\* Something that is not an entry gets into the log.
Spoil ==
    /\ readable' = FALSE
    /\ UNCHANGED <<log, promised>>

\* The machine stops: only entries that were promised to nobody may go.
Lose ==
    /\ log' \in SUBSET log
    /\ promised \subseteq log'
    /\ readable' \in BOOLEAN
    /\ UNCHANGED promised

\* The owner removes the beginning of the log.
Truncate ==
    /\ log' \in SUBSET log
    /\ \A gone \in log \ log', kept \in log' : gone < kept
    /\ promised' = promised \intersect log'
    /\ readable => readable'
    /\ readable' \in BOOLEAN

Next == Append \/ Promise \/ Spoil \/ Lose \/ Truncate

Spec == Init /\ [][Next]_vars
=============================================================================

--------------------------- MODULE ReplicatedLog ---------------------------
(***************************************************************************)
(* What the Raft nodes of the masters (src/internal/raft/raft.go) promise  *)
(* together, without terms, votes, logs and messages: there is one log of  *)
(* decided entries, which grows at its end only; every node knows a part   *)
(* of it from its beginning and never less of it than before; and a state  *)
(* machine is given nothing but entries of the part its node knows, again  *)
(* perhaps, and in whatever order.  MetadataLog, on which ClusterMaster is *)
(* built, has this log as committed.                                       *)
(*                                                                         *)
(* The promise ends when broken becomes TRUE.                              *)
(***************************************************************************)
EXTENDS Naturals, Sequences

CONSTANTS
    Node,
    Entry

VARIABLES
    decided,   \* the entries decided so far
    known,     \* per node, how many of them it knows to be decided
    handed,    \* per node, the entries given to its state machine, in order
    broken     \* nothing is promised any more

vars == <<decided, known, handed, broken>>

Init ==
    /\ decided = <<>>
    /\ known   = [i \in Node |-> 0]
    /\ handed  = [i \in Node |-> <<>>]
    /\ broken  = FALSE

\* A node learns that more entries are decided.  Those that no node knew of are
\* decided by this.
Learn(i) ==
    /\ known'[i] > known[i]
    /\ known' = [known EXCEPT ![i] = known'[i]]
    /\ decided' \in Seq(Entry)
    /\ Len(decided') = IF known'[i] > Len(decided) THEN known'[i] ELSE Len(decided)
    /\ SubSeq(decided', 1, Len(decided)) = decided

\* A node's state machine is given an entry that the node knows to be decided.
Hand(i) ==
    \E k \in 1..known'[i] : handed' = [handed EXCEPT ![i] = Append(@, decided'[k])]

Break == broken'

Next ==
    \/ Break
    \/ /\ UNCHANGED broken
       /\ \E i \in Node :
            \/ Learn(i) /\ (Hand(i) \/ UNCHANGED handed)
            \/ Hand(i) /\ UNCHANGED <<decided, known>>

Spec == Init /\ [][Next]_vars
=============================================================================

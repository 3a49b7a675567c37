---------------------------- MODULE MCStaleAck ----------------------------
(***************************************************************************)
(* An instance of LumeoRaft narrowed to the behaviours around one late     *)
(* answer.  Two nodes take turns as leader, A in terms 1, 3 and 5 and C in *)
(* terms 2 and 4, and win every poll.  Heartbeats are sent in terms 3 and  *)
(* 4, and calls are completed at once, except that an answer to A in term  *)
(* 3 may be delayed; requests carry what was read.  Every behaviour of the *)
(* instance is one of LumeoRaft: the constraint only leaves others out.    *)
(***************************************************************************)
EXTENDS LumeoRaft, TLC

CONSTANTS A, C

Turns == <<A, C, A, C, A>>

\* Two commands for A in term 1, one for C in term 2 and one for A in term 5.
ProposalsOf(term) == CASE term = 1 -> 2 [] term \in {2, 5} -> 1 [] OTHER -> 0

OwnEntries(lg, term) == {n \in 1..Len(lg) : lg[n].term = term}

Delayed(c) == c.phase = "replied" /\ c.src = A /\ c.term = 3

Hurried == {c \in DOMAIN appendCalls : ~Delayed(c)}

Scenario ==
    /\ ~overwritten'
    /\ \A e \in elections' \ elections :
         e.waiting = Peers(e.node) => e.node = Turns[e.term]
    /\ \A i \in Server : log'[i] # log[i] /\ state[i] = Leader =>
         Cardinality(OwnEntries(log'[i], currentTerm[i])) <= ProposalsOf(currentTerm[i])
    /\ elections # {} => voteVars' # voteVars
    /\ \A m \in voteRequests' : \E e \in elections' : e.node = m.cand /\ m.to \in e.waiting
    /\ \A c \in Hurried : c.phase # "spawned" => c \notin DOMAIN appendCalls'
    /\ Hurried # {} => appendCalls' # appendCalls
    /\ elections # {} => appendCalls' = appendCalls
    /\ Cardinality(elections') < Cardinality(elections) => winners' # winners
    /\ BagCardinality(appendCalls') > BagCardinality(appendCalls) =>
         \E i \in Server : state[i] = Leader /\ currentTerm[i] \in {3, 4}
=============================================================================

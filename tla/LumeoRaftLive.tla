--------------------------- MODULE LumeoRaftLive ---------------------------
(***************************************************************************)
(* Progress of elections.  startElection counts its votes only when every  *)
(* peer's goroutine has put a value in voteCh (raft.go:405-409), and the   *)
(* goroutine waits for the answer in Decode, on a connection that has a    *)
(* dial timeout but no read deadline (raft.go:811-834).                    *)
(*                                                                         *)
(* A peer that is down refuses the connection or lets the dial time out,   *)
(* so a call to it errs.  A peer in Hung is one that accepts connections   *)
(* and does not answer: its process is stopped, its node is waiting for    *)
(* rn.mu, or the network has dropped the connection without a reset.       *)
(***************************************************************************)
EXTENDS LumeoRaft

CONSTANT Hung       \* the nodes of Server that accept calls and never answer

\* Hung nodes take no step at all; a call to one of them does not err.
LiveNext ==
    \/ \E i \in Server \ Hung : StartElection(i)
    \/ \E m \in voteRequests : m.to \notin Hung /\ HandleRequestVote(m)
    \/ \E e \in elections :
         \/ \E r \in voteReplies : HandleVoteReply(e, r)
         \/ \E p \in e.waiting \ Hung : VoteCallFails(e, p)
         \/ TallyVotes(e)

CallEnds(i, p) ==
    \E e \in elections :
        /\ e.node = i
        /\ \/ \E r \in voteReplies : r.from = p /\ HandleVoteReply(e, r)
           \/ p \in e.waiting /\ VoteCallFails(e, p)

PollCloses(i) == \E e \in elections : e.node = i /\ TallyVotes(e)

\* Goroutines that can run do run: election timers fire (each poll resets the
\* node's own), a call to a node that is not hung ends, by an answer or by an
\* error, and a poll with no call left is tallied.
PollFairness ==
    /\ \A i \in Server \ Hung : WF_vars(StartElection(i))
    /\ \A i \in Server : \A p \in Peers(i) \ Hung : WF_vars(CallEnds(i, p))
    /\ \A i \in Server : WF_vars(PollCloses(i))

LiveSpec == Init /\ [][LiveNext]_vars /\ PollFairness

(***************************************************************************)
(* What the README promises of one failed node (src/README.md:286): the    *)
(* others elect a leader.                                                  *)
(***************************************************************************)
Polls(i, term) == {e \in elections : e.node = i /\ e.term = term}

HasMajority(i, term) ==
    \E e \in Polls(i, term) : Cardinality(e.granted) + 1 >= Majority

\* Once a candidate has the votes of a majority, a leader is elected, or at least
\* the candidate's poll ends, as a later term may have overtaken it: one silent
\* peer cannot hold up what the others have decided (the wait for voteCh in
\* startElection).
MajorityElects ==
    \A i \in Server : \A term \in 1..MaxTerm :
        HasMajority(i, term) ~> (winners # {} \/ Polls(i, term) = {})

=============================================================================

---------------------------- MODULE MCLumeoRaft ----------------------------
(***************************************************************************)
(* Instances of LumeoRaft for TLC.  The nodes are interchangeable, and so  *)
(* are the commands: no definition compares them with anything but         *)
(* equality.                                                               *)
(***************************************************************************)
EXTENDS LumeoRaft, TLC

Symmetry == Permutations(Server) \cup Permutations(Command)

\* No vote request is handled after its sender has given the call up.
NoLateVotes ==
    \A m \in voteRequests' : \E e \in elections' :
        e.node = m.cand /\ e.term = m.term /\ m.to \in e.waiting

\* Nor does an answer to one wait while anything else happens.  Polls are won, and
\* while one is open calls are read and handled, but none begins or ends.
PromptVotes ==
    /\ NoLateVotes
    /\ voteReplies # {} => voteReplies' # voteReplies
    /\ Cardinality(elections') < Cardinality(elections) => winners' # winners
    /\ elections # {} => BagCardinality(appendCalls') = BagCardinality(appendCalls)

\* The same, and while two calls or more are in progress nothing happens but that
\* one of them is read, handled or answered.  The last one may then lag behind, or
\* fail, while the nodes go on to another term and another heartbeat round, whose
\* calls overtake it.
OneLate ==
    /\ PromptVotes
    /\ BagCardinality(appendCalls) > 1 =>
         /\ appendCalls' # appendCalls
         /\ BagCardinality(appendCalls') <= BagCardinality(appendCalls)
         /\ \A c \in DOMAIN appendCalls : c.phase # "replied" => appendCalls' # Without(c)

\* One thing at a time: a poll, which is won, and a heartbeat round, once begun, run
\* to their end, by answers or by failures, before anything else happens.
OneAtATime ==
    /\ NoLateVotes
    /\ elections # {} => voteVars' # voteVars
    /\ Cardinality(elections') < Cardinality(elections) => winners' # winners
    /\ appendCalls # EmptyBag =>
         /\ appendCalls' # appendCalls
         /\ BagCardinality(appendCalls') <= BagCardinality(appendCalls)
    /\ \A c \in DOMAIN appendCalls : c.phase # "spawned" => c \notin DOMAIN appendCalls'

\* applyLoop records an entry as soon as it can once it has applied it, and between
\* two rounds or polls the entries of one node at a time wait in applyC, for as long
\* as they like.
PromptApplier ==
    LET waiting == {i \in Server : applyC[i] # <<>>}
    IN  (Cardinality(waiting) > 1 \/ \E i \in Server : applying[i] # 0) /\ appendCalls = EmptyBag
            => applyVars' # applyVars
=============================================================================

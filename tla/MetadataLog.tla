---------------------------- MODULE MetadataLog ----------------------------
(***************************************************************************)
(* What the masters' Raft nodes do for their state machines, seen from     *)
(* above: LumeoRaft without its messages.                                  *)
(*                                                                         *)
(* Every term of leadership has a branch, the log of its leader.  A leader *)
(* starts from some part of an earlier branch that has all that is         *)
(* committed, which is what LeaderCompleteness of LumeoRaft leaves it, and *)
(* only what the newest branch has is committed.  A deposed leader that    *)
(* has not heard of it believes that it leads, and goes on accepting       *)
(* commands on a branch that nobody will see.  What is committed is the    *)
(* log of ReplicatedLog, which LumeoRaft implements.                       *)
(*                                                                         *)
(* A node knows how much is committed when it has counted the answers as   *)
(* leader, or when a leader's heartbeat has told it: nothing says that one *)
(* comes, and a new leader, which appends nothing of its own, may not      *)
(* learn it until a client proposes again.                                 *)
(*                                                                         *)
(* Commands known to be committed reach each state machine in order, but   *)
(* not once:                                                               *)
(* commands that wait in applyC are queued again (MCApplyTwice), so after  *)
(* some of them the state machine is fed again from an earlier one on, and *)
(* never from a later one (AppliedWithoutGap of LumeoRaft).  Terms are     *)
(* counted by elections; restarts and stale answers, in which Raft itself  *)
(* fails here, are left to LumeoRaft.                                      *)
(*                                                                         *)
(* DeliverAllButLast and RequeueFromLastApplied are mutants, see           *)
(* PROJECT.json.                                                           *)
(***************************************************************************)
EXTENDS MetadataStateMachine

CONSTANTS
    Master,
    MaxElections,   \* bound: terms of leadership
    MaxRequeues     \* bound: times a master's queue is fed again

ASSUME MasterAssumption == Master # {} /\ {MaxElections, MaxRequeues} \subseteq Nat

VARIABLES
    branches,    \* per term of leadership, the log of its leader
    committed,   \* the commands committed so far
    known,       \* per master, how many of them its own node knows of
    leading,     \* per master, the term it believes to lead, or 0
    cursor,      \* per master, the index of the command to apply next
    requeues,    \* per master, how often it has been fed again
    sm           \* per master, its metadata

logVars == <<branches, committed, known, leading>>
smVars  == <<cursor, requeues, sm>>

IsLeader(m) == leading[m] # 0

LogInit ==
    /\ branches  = <<>>
    /\ committed = <<>>
    /\ known     = [m \in Master |-> 0]
    /\ leading   = [m \in Master |-> 0]
    /\ cursor    = [m \in Master |-> 1]
    /\ requeues  = [m \in Master |-> 0]
    /\ sm        = [m \in Master |-> NoMetadata]

HasCommitted(lg) ==
    /\ Len(committed) <= Len(lg)
    /\ SubSeq(lg, 1, Len(committed)) = committed

Inherited ==
    {committed} \cup
    UNION {{SubSeq(branches[t], 1, n) : n \in Len(committed)..Len(branches[t])} :
             t \in {t \in 1..Len(branches) : HasCommitted(branches[t])}}

Elect(m) ==
    /\ Len(branches) < MaxElections
    /\ \E lg \in Inherited : branches' = Append(branches, lg)
    /\ leading' = [leading EXCEPT ![m] = Len(branches')]
    /\ UNCHANGED <<committed, known, smVars>>

StepDown(m) ==
    /\ IsLeader(m)
    /\ leading' = [leading EXCEPT ![m] = 0]
    /\ UNCHANGED <<branches, committed, known, smVars>>

\* RaftNode.Propose: success is "IsLeader(m)", with the log that has the command.
Proposed(m, cmd) ==
    IF IsLeader(m) THEN [branches EXCEPT ![leading[m]] = Append(@, cmd)] ELSE branches

\* The first n commands of a log are those of the branch m believes to lead.
Leads(m, n, lg) ==
    /\ n <= Len(branches[leading[m]])
    /\ SubSeq(branches[leading[m]], 1, n) = SubSeq(lg, 1, n)

\* updateCommitIndex.  A leader that has been deposed may still count the answers to
\* what the newest leader has from it.
Commit(m) ==
    /\ IsLeader(m)
    /\ LET newest == branches[Len(branches)]
       IN  \E n \in (Len(committed) + 1)..Len(newest) :
             /\ Leads(m, n, newest)
             /\ committed' = SubSeq(newest, 1, n)
             /\ known'     = [known EXCEPT ![m] = n]
    /\ UNCHANGED <<branches, leading, smVars>>

\* A heartbeat tells a node that more is committed, or it finds so as the leader.
Learn(m) ==
    /\ \E n \in (known[m] + 1)..Len(committed) :
         /\ IsLeader(m) => Leads(m, n, committed)
         /\ known' = [known EXCEPT ![m] = n]
    /\ UNCHANGED <<branches, committed, leading, smVars>>

DeliverAllButLast(m) ==
    /\ cursor[m] < known[m]
    /\ sm'     = [sm EXCEPT ![m] = Apply(@, committed[cursor[m]])]
    /\ cursor' = [cursor EXCEPT ![m] = @ + 1]
    /\ UNCHANGED <<logVars, requeues>>

Deliver(m) ==
    /\ cursor[m] <= known[m]
    /\ sm'     = [sm EXCEPT ![m] = Apply(@, committed[cursor[m]])]
    /\ cursor' = [cursor EXCEPT ![m] = @ + 1]
    /\ UNCHANGED <<logVars, requeues>>

RequeueFromLastApplied(m) ==
    /\ requeues[m] < MaxRequeues
    /\ \E n \in 0..(cursor[m] - 1) : cursor' = [cursor EXCEPT ![m] = n]
    /\ requeues' = [requeues EXCEPT ![m] = @ + 1]
    /\ UNCHANGED <<logVars, sm>>

Requeue(m) ==
    /\ requeues[m] < MaxRequeues
    /\ \E n \in 1..(cursor[m] - 1) : cursor' = [cursor EXCEPT ![m] = n]
    /\ requeues' = [requeues EXCEPT ![m] = @ + 1]
    /\ UNCHANGED <<logVars, sm>>
=============================================================================

----------------------- MODULE LumeoRaftCommitProofs -----------------------
(***************************************************************************)
(* Theorems about what LumeoRaft replicates, commits and applies, for any  *)
(* finite set of nodes and any bounds.                                     *)
(*                                                                         *)
(*   LeadersKnowPeers       Spec => []MatchIndexTrue                       *)
(*   CommittedIsReplicated  Spec => []CommittedOnMajority                  *)
(*   LeadersComplete        Spec => []LeaderCompleteness                   *)
(*   CommitsMonotonic       Spec => CommitMonotonic                        *)
(*   AppliedIsCommitted     Spec => []AppliedCommitted                     *)
(*   NoEntrySkipped         Spec /\ []QueueHasRoom => []AppliedWithoutGap  *)
(*   RaftIsOneLog           Spec => ImplementsReplicatedLog                *)
(*   StateMachinesAgree     Spec => []AppliedSame                          *)
(***************************************************************************)
EXTENDS LumeoRaftLogProofs

-----------------------------------------------------------------------------
(***************************************************************************)
(* What a log keeps.                                                       *)
(***************************************************************************)
\* The log has the first n entries of another one.
HasUpTo(lg, n, mg) == n <= Len(lg) /\ n <= Len(mg) /\ \A k \in 1..n : lg[k] = mg[k]

\* The entries sent do not contradict the first n entries of a log.
KeepsUpTo(prev, es, n, mg) == \A k \in 1..Len(es) : prev + k <= n => es[k] = mg[prev + k]

\* The append loop cuts only at an entry that differs in term from the one sent:
\* entries that agree with the first n of the log leave them alone.
LEMMA MergeKeeps ==
    ASSUME NEW lg \in Seq(Entry), NEW mg \in Seq(Entry), NEW n \in Nat, HasUpTo(lg, n, mg),
           NEW es \in Seq(Entry), NEW prev \in Nat, prev <= Len(lg), KeepsUpTo(prev, es, n, mg)
    PROVE  HasUpTo(Merge(lg, prev, es), n, mg)
<1>1. Len(lg) \in Nat /\ Len(es) \in Nat
    BY LogType
<1>2. CASE KeptWhole(lg, prev, es)
    BY <1>2 DEF KeptWhole
<1>3. ASSUME NEW k \in 1..Len(es), CutAt(lg, prev, es, k)
      PROVE  HasUpTo(Merge(lg, prev, es), n, mg)
  <2> DEFINE new == Merge(lg, prev, es)
  <2>1. /\ Len(new) = prev + Len(es) /\ \A x \in 1..(prev + k - 1) : new[x] = lg[x]
        /\ TermAt(lg, prev + k) # es[k].term \/ prev + k > Len(lg)
    BY <1>3 DEF CutAt
  <2> HIDE DEF new
  <2>2. ASSUME prev + k <= n PROVE FALSE
    <3>1. es[k] = mg[prev + k] /\ prev + k \in 1..n
      BY <1>1, <2>2 DEF KeepsUpTo
    <3>2. lg[prev + k] = mg[prev + k] /\ prev + k \in 1..Len(lg)
      BY <1>1, <3>1 DEF HasUpTo
    <3>3. TermAt(lg, prev + k) = lg[prev + k].term
      BY <3>2, LogType
    <3>4. ~(prev + k > Len(lg))
      BY <1>1, <3>2
    <3>5. QED
      BY <2>1, <3>1, <3>2, <3>3, <3>4
  <2>3. n <= prev + k - 1 /\ n <= prev + Len(es)
    BY <1>1, <2>2
  <2>4. \A x \in 1..n : x \in 1..(prev + k - 1)
    BY <1>1, <2>3
  <2>5. QED
    BY <2>1, <2>3, <2>4 DEF HasUpTo, new
<1>4. QED
    BY <1>2, <1>3, MergeShape

\* After the append loop the last entry sent is in its place, in term.
LEMMA MergeReaches ==
    ASSUME NEW lg \in Seq(Entry), NEW es \in Seq(Entry), NEW prev \in Nat, prev <= Len(lg),
           NEW k \in 1..Len(es)
    PROVE  /\ prev + k <= Len(Merge(lg, prev, es))
           /\ Merge(lg, prev, es)[prev + k].term = es[k].term
<1>1. Len(lg) \in Nat /\ Len(es) \in Nat
    BY LogType
<1>2. CASE KeptWhole(lg, prev, es)
    BY <1>2 DEF KeptWhole
<1>3. ASSUME NEW j \in 1..Len(es), CutAt(lg, prev, es, j)
      PROVE  /\ prev + k <= Len(Merge(lg, prev, es))
             /\ Merge(lg, prev, es)[prev + k].term = es[k].term
  <2> DEFINE new == Merge(lg, prev, es)
  <2>1. /\ Len(new) = prev + Len(es) /\ \A x \in 1..(prev + j - 1) : new[x] = lg[x]
        /\ \A x \in j..Len(es) : new[prev + x] = es[x]
        /\ \A x \in 1..(j - 1) : lg[prev + x].term = es[x].term
    BY <1>3 DEF CutAt
  <2> HIDE DEF new
  <2>2. prev + k <= Len(new)
    BY <1>1, <2>1
  <2>3. CASE k < j
    <3>1. k \in 1..(j - 1) /\ prev + k \in 1..(prev + j - 1)
      BY <1>1, <2>3
    <3>2. QED
      BY <2>1, <2>2, <3>1 DEF new
  <2>4. CASE k >= j
    <3>1. k \in j..Len(es)
      BY <1>1, <2>4
    <3>2. QED
      BY <2>1, <2>2, <3>1 DEF new
  <2>5. QED
    BY <1>1, <2>3, <2>4
<1>4. QED
    BY <1>2, <1>3, MergeShape

-----------------------------------------------------------------------------
(***************************************************************************)
(* Steps of a leader: it keeps its term, and its log only grows.           *)
(***************************************************************************)
LEMMA NodeTypes ==
    ASSUME TypeOK, NEW i \in Server
    PROVE  /\ log[i] \in Seq(Entry) /\ Len(log[i]) \in Nat /\ currentTerm[i] \in Nat
           /\ commitIndex[i] \in Nat /\ lastApplied[i] \in Nat /\ applying[i] \in Nat
           /\ applyC[i] \in Seq(Entry) /\ applied[i] \in Seq(Entry)
           /\ matchIndex[i] \in [Server -> Nat] /\ nextIndex[i] \in [Server -> Nat]
    BY LogType DEF TypeOK

LogGrows(i) == Len(log'[i]) >= Len(log[i]) /\ \A k \in 1..Len(log[i]) : log'[i][k] = log[i][k]

\* A node that stays leader stays in its term and only adds to its log.
LEMMA LeaderLogGrows ==
    ASSUME LogInv, [NodeStep]_vars, NEW i \in Server, state[i] = Leader, state'[i] = Leader
    PROVE  currentTerm'[i] = currentTerm[i] /\ LogGrows(i)
<1>1. Len(log[i]) \in Nat /\ TypeOK
    BY StepFacts, NodeTypes
<1>2. CASE log'[i] = log[i]
    BY <1>1, <1>2, LeaderLogKept DEF LogGrows
<1>3. ASSUME NEW cmd \in Command, Propose(i, cmd) PROVE LogGrows(i)
    BY <1>1, <1>3, ProposeLinks DEF LogGrows
<1>4. QED
    BY <1>2, <1>3, LeaderLogKept

\* The winner of a term that is still in it after a step led it before the step.
LEMMA LedBefore ==
    ASSUME LogInv, [NodeStep]_vars, NEW w \in winners, currentTerm'[w.node] = w.term
    PROVE  /\ w.node \in Server /\ currentTerm[w.node] = w.term
           /\ state[w.node] = Leader /\ state'[w.node] = Leader
           /\ LogGrows(w.node)
<1>1. w.node \in Server /\ w.term \in Nat /\ TypeOK
    BY StepFacts DEF TypeOK
<1>2. /\ currentTerm[w.node] \in Nat /\ currentTerm'[w.node] >= currentTerm[w.node]
      /\ w \in winners'
    BY <1>1, StepFacts
<1>3. w.term <= currentTerm[w.node] /\ (w.term = currentTerm[w.node] => state[w.node] = Leader)
    BY DEF LogInv, WinnersLead
<1>4. currentTerm[w.node] = w.term
    BY <1>1, <1>2, <1>3
<1>5. state'[w.node] = Leader
    BY <1>2, WinnersLeadStep DEF WinnersLead
<1>6. QED
    BY <1>1, <1>3, <1>4, <1>5, LeaderLogGrows

\* The same for the sender of a call.
LEMMA SenderLed ==
    ASSUME LogInv, [NodeStep]_vars, NEW c \in DOMAIN appendCalls, currentTerm'[c.src] = c.term
    PROVE  /\ c.src \in Server /\ c.dst \in Server /\ c.dst # c.src /\ currentTerm[c.src] = c.term
           /\ state[c.src] = Leader /\ state'[c.src] = Leader
           /\ LogGrows(c.src)
<1> DEFINE w == [node |-> c.src, term |-> c.term]
<1>1. w \in winners /\ w.node = c.src /\ w.term = c.term /\ c.dst # c.src
    BY DEF LogInv, CallsOfWinners
<1> HIDE DEF w
<1>2. c.dst \in Server
    BY StepFacts, CallType
<1>3. QED
    BY <1>1, <1>2, LedBefore

\* A node that accepts entries in the term of a leader accepts that leader's.
LEMMA AcceptsFromLeader ==
    ASSUME LogInv, NEW i \in Server, state[i] = Leader,
           NEW c \in DOMAIN appendCalls, c.term = currentTerm[i]
    PROVE  c.src = i
<1>1. [node |-> c.src, term |-> c.term] \in winners
    BY DEF LogInv, CallsOfWinners
<1>2. [node |-> i, term |-> currentTerm[i]] \in winners
    BY DEF LogInv, VoteInv, ElectionSafety
<1>3. QED
    BY <1>1, <1>2 DEF LogInv, VoteInv, ElectionSafety

\* A node that leads after a step led its term before it, unless the step is its win.
LEMMA LeadsSince ==
    ASSUME LogInv, [NodeStep]_vars, NEW i \in Server, state'[i] = Leader
    PROVE  \/ state[i] = Leader
           \/ \E e \in elections : Wins(e) /\ e.node = i
<1>1. TypeOK
    BY StepFacts
<1>2. ASSUME NEW e \in elections, Wins(e), e.node # i PROVE state[i] = Leader
  <2>1. state' = [state EXCEPT ![e.node] = Leader]
    BY <1>2 DEF Wins
  <2>2. QED
    BY <1>1, <1>2, <2>1 DEF TypeOK
<1>3. QED
    BY <1>1, <1>2, RoleMoves DEF RoleKept, LeadKept

\* The use of an answer: the only step that raises matchIndex.
Acks(c) ==
    /\ c \in DOMAIN appendCalls /\ HandleAppendReply(c)
    /\ c.phase = "replied" /\ c.success /\ c.last > 0 /\ c.replyTerm <= currentTerm[c.src]
    /\ staleAck' = (staleAck \/ c.term # currentTerm[c.src])
    /\ matchIndex' = [matchIndex EXCEPT ![c.src][c.dst] = c.last]
    /\ UpdateCommitIndex(c.src, [matchIndex[c.src] EXCEPT ![c.dst] = c.last])
    /\ UNCHANGED <<nodeVars, log, voteVars>>

\* matchIndex changes when a poll is won or an answer counted, and staleAck is for good.
LEMMA MatchMoves ==
    ASSUME TypeOK, [NodeStep]_vars
    PROVE  /\ staleAck => staleAck'
           /\ \/ UNCHANGED matchIndex
              \/ \E e \in elections : Wins(e)
              \/ \E c \in DOMAIN appendCalls : Acks(c)
<1>1. CASE ElectionStep
  <2>1. ASSUME NEW e \in elections, TallyVotes(e) PROVE UNCHANGED matchIndex \/ Wins(e)
    BY <2>1 DEF TallyVotes, Wins, leaderVars, logVars
  <2>2. UNCHANGED staleAck
    BY <1>1 DEF ElectionStep, StartElection, HandleRequestVote, HandleVoteReply, VoteCallFails, TallyVotes
  <2>3. ASSUME NEW i \in Server, StartElection(i) PROVE UNCHANGED matchIndex
    BY <2>3 DEF StartElection, leaderVars
  <2>4. ASSUME NEW m \in voteRequests, HandleRequestVote(m) PROVE UNCHANGED matchIndex
    BY <2>4 DEF HandleRequestVote, leaderVars
  <2>5. ASSUME NEW e \in elections, NEW r \in voteReplies, HandleVoteReply(e, r) PROVE UNCHANGED matchIndex
    BY <2>5 DEF HandleVoteReply, leaderVars
  <2>6. ASSUME NEW e \in elections, NEW p \in e.waiting, VoteCallFails(e, p) PROVE UNCHANGED matchIndex
    BY <2>6 DEF VoteCallFails, leaderVars
  <2>7. QED
    BY <1>1, <2>1, <2>2, <2>3, <2>4, <2>5, <2>6 DEF ElectionStep
<1>2. CASE ReplicationStep
  <2>1. ASSUME NEW i \in Server, SendHeartbeats(i) \/ \E cmd \in Command : Propose(i, cmd)
        PROVE  UNCHANGED <<matchIndex, staleAck>>
    BY <2>1 DEF SendHeartbeats, Propose, leaderVars
  <2>2. ASSUME NEW c \in DOMAIN appendCalls, ReadLog(c) \/ HandleAppendEntries(c) \/ AppendCallFails(c)
        PROVE  UNCHANGED <<matchIndex, staleAck>>
    BY <2>2 DEF ReadLog, HandleAppendEntries, RejectAppend, RefuseEntries, AcceptEntries,
                AppendCallFails, leaderVars
  <2>3. ASSUME NEW c \in DOMAIN appendCalls, HandleAppendReply(c)
        PROVE  (UNCHANGED <<matchIndex, staleAck>>) \/ Acks(c)
    BY <2>3 DEF HandleAppendReply, Acks, leaderVars, nodeVars
  <2>4. ASSUME NEW c \in DOMAIN appendCalls, Acks(c) PROVE staleAck => staleAck'
    BY <2>4 DEF Acks
  <2>5. QED
    BY <1>2, <2>1, <2>2, <2>3, <2>4 DEF ReplicationStep
<1>3. CASE ApplyStep
    BY <1>3 DEF ApplyStep, TakeEntry, RecordApplied, leaderVars
<1>4. CASE UNCHANGED vars
    BY <1>4 DEF vars, leaderVars
<1>5. QED
    BY <1>1, <1>2, <1>3, <1>4 DEF NodeStep

-----------------------------------------------------------------------------
(***************************************************************************)
(* What a leader believes of its peers.                                    *)
(***************************************************************************)
\* p has gone to a later term than the leader i, or it has i's first n entries.
Matched(i, p, n) ==
    /\ n <= Len(log[i]) /\ currentTerm[p] >= currentTerm[i]
    /\ (currentTerm[p] = currentTerm[i]) => HasUpTo(log[p], n, log[i])

\* What a call carries while its sender still leads: a part of the leader's log, or
\* nothing, when the log did not reach nextIndex.
PartOf(c, lg) ==
    /\ c.prev + Len(c.entries) <= Len(lg) /\ c.prevTerm = TermAt(lg, c.prev)
    /\ \A k \in 1..Len(c.entries) : c.entries[k] = lg[c.prev + k]

CallFromLeader ==
    \A c \in SentCalls : (currentTerm[c.src] = c.term) =>
        \/ c.entries = <<>> /\ c.prevTerm = 0 /\ c.prev > 0
        \/ PartOf(c, log[c.src])

ReplyTrue ==
    \A c \in DOMAIN appendCalls :
        (c.phase = "replied" /\ c.success /\ c.last > 0 /\ currentTerm[c.src] = c.term)
            => Matched(c.src, c.dst, c.last)

MatchTrue ==
    ~staleAck => \A i \in Server : state[i] = Leader =>
        \A p \in Peers(i) : matchIndex[i][p] > 0 => Matched(i, p, matchIndex[i][p])

MatchInv == LogInv /\ CallFromLeader /\ ReplyTrue /\ MatchTrue

\* A call of a leader leaves alone what its target has of the leader's log.
LEMMA LeaderCallKeeps ==
    ASSUME MatchInv, NEW c \in DOMAIN appendCalls, AcceptEntries(c), currentTerm[c.src] = c.term,
           NEW n \in Nat, HasUpTo(log[c.dst], n, log[c.src])
    PROVE  HasUpTo(log'[c.dst], n, log[c.src])
<1>1. TypeOK /\ LogInv /\ c \in SentCalls
    BY DEF MatchInv, LogInv, TypeInv, AcceptEntries, AdoptLeader, SentCalls
<1>2. /\ c.src \in Server /\ c.dst \in Server /\ c.prev \in Nat /\ c.entries \in Seq(Entry)
      /\ log[c.dst] \in Seq(Entry) /\ log[c.src] \in Seq(Entry)
    BY <1>1, CallType, NodeTypes DEF SentCalls
<1>3. c.prev <= Len(log[c.dst]) /\ log'[c.dst] = Merge(log[c.dst], c.prev, c.entries)
    BY <1>1, AcceptLinks DEF LogInv
<1>4. KeepsUpTo(c.prev, c.entries, n, log[c.src])
    BY <1>1, <1>2 DEF MatchInv, CallFromLeader, PartOf, KeepsUpTo
<1>5. QED
    BY <1>2, <1>3, <1>4, MergeKeeps

\* What matchIndex says of a peer stays true while the leader leads.
LEMMA MatchedStays ==
    ASSUME MatchInv, [NodeStep]_vars, NEW i \in Server, state[i] = Leader, state'[i] = Leader,
           NEW p \in Server, p # i, NEW n \in Nat, Matched(i, p, n)
    PROVE  Matched(i, p, n)'
<1>1. LogInv /\ TypeOK /\ TypeOK'
    BY StepFacts DEF MatchInv
<1>2. /\ currentTerm'[i] = currentTerm[i] /\ LogGrows(i)
      /\ currentTerm[p] \in Nat /\ currentTerm'[p] \in Nat /\ currentTerm'[p] >= currentTerm[p]
      /\ currentTerm[i] \in Nat
      /\ Len(log[i]) \in Nat /\ Len(log'[i]) \in Nat /\ Len(log[p]) \in Nat
    BY <1>1, LeaderLogGrows, StepFacts, NodeTypes, LogType DEF TypeOK
<1>3. n <= Len(log'[i]) /\ currentTerm'[p] >= currentTerm'[i]
    BY <1>2 DEF Matched, LogGrows
<1>4. ASSUME currentTerm'[p] = currentTerm'[i] PROVE HasUpTo(log'[p], n, log'[i])
  <2>1. currentTerm[p] = currentTerm[i] /\ HasUpTo(log[p], n, log[i])
    BY <1>2, <1>4 DEF Matched
  <2>2. HasUpTo(log'[p], n, log[i])
    <3>1. CASE log'[p] = log[p]
      BY <2>1, <3>1
    <3>2. ASSUME NEW cmd \in Command, Propose(p, cmd) PROVE HasUpTo(log'[p], n, log[i])
      <4>1. \A k \in 1..Len(log[p]) : log'[p][k] = log[p][k]
        BY <1>1, <3>2, ProposeLinks
      <4>2. Len(log'[p]) = Len(log[p]) + 1
        BY <1>1, <3>2, ProposeLinks
      <4>3. QED
        BY <1>2, <2>1, <4>1, <4>2 DEF HasUpTo
    <3>3. ASSUME NEW c \in DOMAIN appendCalls, AcceptEntries(c), c.dst = p
          PROVE  HasUpTo(log'[p], n, log[i])
      <4>1. currentTerm'[p] = c.term
        BY <1>1, <3>3, CallType DEF AcceptEntries, AdoptLeader, TypeOK
      <4>2. c.src = i
        BY <1>1, <1>2, <1>4, <4>1, AcceptsFromLeader
      <4>3. QED
        BY <1>2, <1>4, <2>1, <3>3, <4>1, <4>2, LeaderCallKeeps
    <3>4. QED
      BY <1>1, <3>1, <3>2, <3>3, LogMoves DEF LogMoved
  <2>3. QED
    <3>1. \A k \in 1..n : k \in 1..Len(log[i])
      BY <1>2, <2>1 DEF HasUpTo
    <3>2. \A k \in 1..n : log'[i][k] = log[i][k]
      BY <1>2, <3>1 DEF LogGrows
    <3>3. QED
      BY <1>3, <2>2, <3>2 DEF HasUpTo
<1>5. QED
    BY <1>3, <1>4 DEF Matched, HasUpTo

\* The call that ReadLog makes: the rest of the log from nextIndex, or nothing.
LEMMA ReadShape ==
    ASSUME TypeInv, NEW b \in DOMAIN appendCalls, NEW c, Reads(b, c)
    PROVE  /\ c.src \in Server /\ log' = log /\ c.prev \in Nat /\ c.entries \in Seq(Entry)
           /\ \/ /\ c.entries = <<>> /\ c.prevTerm = 0 /\ c.prev > 0 /\ c.prev > Len(log[c.src])
              \/ PartOf(c, log[c.src]) /\ c.prev + Len(c.entries) = Len(log[c.src])
<1> DEFINE i == b.src
           x == nextIndex[b.src][b.dst]
<1>0. TypeOK
    BY DEF TypeInv
<1>1. i \in Server /\ b.dst \in Server /\ x \in Nat
  <2>1. i \in Server /\ b.dst \in Server
    BY <1>0, CallType
  <2>2. QED
    BY <1>0, <2>1, NodeTypes
<1>2. x >= 1
    BY <1>1 DEF TypeInv, PositiveNext
<1>3. /\ c.src = i /\ c.prev = x - 1 /\ c.prevTerm = TermAt(log[i], c.prev)
      /\ c.entries = SubSeq(log[i], c.prev + 1, Len(log[i]))
    BY DEF Reads
<1>4. log[i] \in Seq(Entry) /\ Len(log[i]) \in Nat /\ log' = log
    BY <1>0, <1>1, NodeTypes DEF Reads, ReadLog, logVars
<1> HIDE DEF i, x
<1>5. c.prev \in Nat /\ c.prev + 1 \in Nat \ {0}
    BY <1>1, <1>2, <1>3
<1>6. /\ Len(c.entries) = IF c.prev < Len(log[i]) THEN Len(log[i]) - c.prev ELSE 0
      /\ \A k \in 1..Len(c.entries) : c.entries[k] = log[i][c.prev + k]
      /\ c.entries \in Seq(Entry)
    BY <1>3, <1>4, <1>5, RestOfLog
<1>7. CASE c.prev <= Len(log[i])
  <2>1. c.prev + Len(c.entries) = Len(log[i])
    <3>1. \A a, n, z \in Nat : (a <= n /\ z = IF a < n THEN n - a ELSE 0) => a + z = n
      OBVIOUS
    <3>2. Len(c.entries) \in Nat
      BY <1>6, LogType
    <3>3. QED
      BY <1>4, <1>5, <1>6, <1>7, <3>1, <3>2
  <2>2. \A k \in 1..Len(c.entries) : c.entries[k] = log[i][c.prev + k]
    BY <1>6
  <2>3. PartOf(c, log[c.src])
    <3>1. c.prev + Len(c.entries) <= Len(log[i])
      BY <1>4, <2>1
    <3>2. QED
      BY <1>3, <2>2, <3>1 DEF PartOf
  <2>4. QED
    BY <1>1, <1>3, <1>4, <1>5, <1>6, <2>1, <2>3
<1>8. CASE c.prev > Len(log[i])
  <2>1. c.entries = <<>> /\ c.prev > 0
    BY <1>4, <1>5, <1>6, <1>8
  <2>2. c.prevTerm = 0
    BY <1>3, <1>4, <1>5, <1>8 DEF TermAt
  <2>3. QED
    BY <1>1, <1>3, <1>4, <1>5, <1>6, <1>8, <2>1, <2>2
<1>9. QED
    BY <1>4, <1>5, <1>7, <1>8

\* A call is read from the leader's log, which only grows.
LEMMA CallFromLeaderStep ==
    ASSUME MatchInv, [NodeStep]_vars
    PROVE  CallFromLeader'
<1>1. LogInv /\ TypeInv /\ TypeOK /\ TypeOK'
    BY StepFacts DEF MatchInv, LogInv
<1>2. SUFFICES ASSUME NEW c \in SentCalls', currentTerm'[c.src] = c.term
               PROVE  \/ c.entries = <<>> /\ c.prevTerm = 0 /\ c.prev > 0
                      \/ PartOf(c, log'[c.src])
    BY DEF CallFromLeader, PartOf, TermAt
<1>3. c \in DOMAIN appendCalls' /\ c.phase = "sent"
    BY <1>2 DEF SentCalls
<1>4. CASE c \in DOMAIN appendCalls
  <2>1. /\ currentTerm[c.src] = c.term /\ LogGrows(c.src) /\ c.src \in Server
        /\ c \in SentCalls
    BY <1>1, <1>2, <1>3, <1>4, SenderLed DEF SentCalls
  <2>2. CASE PartOf(c, log[c.src])
    <3>1. c.prev \in Nat /\ c.entries \in Seq(Entry) /\ Len(c.entries) \in Nat
      BY <1>1, <1>3, <1>4, CallType, LogType
    <3>2. Len(log[c.src]) \in Nat /\ Len(log'[c.src]) \in Nat
      BY <1>1, <2>1, LogType DEF TypeOK
    <3>3. c.prev + Len(c.entries) <= Len(log'[c.src])
      BY <2>1, <2>2, <3>1, <3>2 DEF PartOf, LogGrows
    <3>4. \A k \in 1..Len(c.entries) : c.prev + k \in 1..Len(log[c.src])
      BY <2>2, <3>1, <3>2 DEF PartOf
    <3>5. TermAt(log'[c.src], c.prev) = TermAt(log[c.src], c.prev)
      <4>1. c.prev <= Len(log[c.src]) /\ c.prev <= Len(log'[c.src])
        BY <2>2, <3>1, <3>2, <3>3 DEF PartOf
      <4>2. QED
        BY <2>1, <3>1, <3>2, <4>1 DEF TermAt, LogGrows
    <3>6. QED
      BY <2>1, <2>2, <3>3, <3>4, <3>5 DEF PartOf, LogGrows
  <2>3. QED
    BY <1>1, <2>1, <2>2 DEF MatchInv, CallFromLeader
<1>5. ASSUME NEW b \in DOMAIN appendCalls, Reads(b, c)
      PROVE  \/ c.entries = <<>> /\ c.prevTerm = 0 /\ c.prev > 0
             \/ PartOf(c, log'[c.src])
    BY <1>1, <1>5, ReadShape
<1>6. QED
    BY <1>1, <1>3, <1>4, <1>5, CallMoves DEF CallMoved, Spawns, Answers

\* An entry stands at its index, and its term has a winner.
LEMMA EntryFacts ==
    ASSUME LogInv, NEW i \in Server, NEW n \in 1..Len(log[i])
    PROVE  /\ log[i][n].index = n /\ log[i][n].term >= 1 /\ log[i][n].term \in Nat
           /\ \E w \in winners : w.term = log[i][n].term
<1>1. LogLinks(log[i]) \subseteq Links /\ log[i] \in Seq(Entry)
    BY LinksOfLog, NodeTypes DEF LogInv, TypeInv
<1>2. PICK l \in Links : l.index = n /\ l.entry = log[i][n]
    BY <1>1, LinkOf
<1>3. log[i][n].index = n /\ \E w \in winners : w.term = log[i][n].term
    BY <1>2 DEF LogInv, LinksSound
<1>4. QED
    BY <1>1, <1>3, LogType DEF LogInv, WinnersLead

\* Who answers with success has just merged what the call carries into its log.
LEMMA ReplyTrueStep ==
    ASSUME MatchInv, [NodeStep]_vars
    PROVE  ReplyTrue'
<1>1. LogInv /\ TypeInv /\ TypeOK /\ TypeOK' /\ LogInv'
    BY StepFacts, LogStep DEF MatchInv, LogInv
<1>2. SUFFICES ASSUME NEW c \in DOMAIN appendCalls', c.phase = "replied", c.success, c.last > 0,
                      currentTerm'[c.src] = c.term
               PROVE  Matched(c.src, c.dst, c.last)'
    BY DEF ReplyTrue, Matched, HasUpTo
<1>3. CASE c \in DOMAIN appendCalls
  <2>1. /\ currentTerm[c.src] = c.term /\ state[c.src] = Leader /\ state'[c.src] = Leader
        /\ c.src \in Server /\ c.dst \in Server /\ c.dst # c.src
    BY <1>1, <1>2, <1>3, SenderLed
  <2>2. c.last \in Nat
    BY <1>1, <1>2, <1>3, CallType
  <2>3. Matched(c.src, c.dst, c.last)
    BY <1>2, <1>3, <2>1 DEF MatchInv, ReplyTrue
  <2>4. QED
    BY <2>1, <2>2, <2>3, MatchedStays
<1>4. ASSUME NEW b \in DOMAIN appendCalls, Answers(b, c) PROVE Matched(c.src, c.dst, c.last)'
  <2> DEFINE s == b.src
             d == b.dst
             m == b.prev + Len(b.entries)
  <2>1. AcceptEntries(b) /\ c.src = s /\ c.dst = d /\ c.term = b.term /\ b \in SentCalls
    BY <1>2, <1>4 DEF Answers, SentCalls
  <2>2. b.entries # <<>> /\ c.last = b.entries[Len(b.entries)].index
    BY <1>2, <1>4 DEF Answers
  <2>3. s \in Server /\ d \in Server /\ s # d /\ currentTerm[s] = b.term /\ LogGrows(s)
    BY <1>1, <1>2, <2>1, SenderLed
  <2>4. /\ b.prev \in Nat /\ b.entries \in Seq(Entry) /\ Len(b.entries) \in Nat \ {0}
        /\ b.term \in Nat
    BY <1>1, <2>1, <2>2, CallType, LogType, EmptySeq DEF SentCalls
  <2>5. PartOf(b, log[s])
    BY <2>1, <2>2, <2>3 DEF MatchInv, CallFromLeader
  <2>6. m \in 1..Len(log[s]) /\ b.entries[Len(b.entries)] = log[s][m]
    <3>1. Len(log[s]) \in Nat /\ Len(b.entries) \in 1..Len(b.entries)
      BY <1>1, <2>3, <2>4, NodeTypes
    <3>2. m <= Len(log[s]) /\ b.entries[Len(b.entries)] = log[s][m]
      BY <2>5, <3>1 DEF PartOf
    <3>3. QED
      BY <2>4, <3>1, <3>2
  <2>7. c.last = m
    BY <1>1, <2>2, <2>3, <2>6, EntryFacts
  <2>8. /\ b.prev <= Len(log[d]) /\ log'[d] = Merge(log[d], b.prev, b.entries)
        /\ log[d] \in Seq(Entry)
    BY <1>1, <2>1, <2>3, AcceptLinks, NodeTypes DEF LogInv
  <2>9. m <= Len(log'[d]) /\ log'[d][m].term = log[s][m].term
    <3>1. Len(b.entries) \in 1..Len(b.entries)
      BY <2>4
    <3>2. /\ m <= Len(Merge(log[d], b.prev, b.entries))
          /\ Merge(log[d], b.prev, b.entries)[m].term = b.entries[Len(b.entries)].term
      BY <2>4, <2>8, <3>1, MergeReaches
    <3> HIDE DEF m, s, d
    <3>3. QED
      BY <2>6, <2>8, <3>2
  <2>10. log'[s] = log[s] /\ currentTerm'[s] = currentTerm[s] /\ currentTerm'[d] = b.term
    <3>1. /\ log' = [log EXCEPT ![d] = Merge(log[d], b.prev, b.entries)]
          /\ currentTerm' = [currentTerm EXCEPT ![d] = b.term]
      BY <2>1 DEF AcceptEntries, AdoptLeader
    <3> HIDE DEF s, d
    <3>2. QED
      BY <1>1, <2>3, <3>1 DEF TypeOK
  <2>11. /\ LogLinks(log'[d]) \subseteq Links' /\ LogLinks(log'[s]) \subseteq Links'
         /\ Agreeing(Links')
    BY <1>1, <2>3 DEF Links, LogInv, LinksAgree, Agreeing
  <2>12. /\ log'[d] \in Seq(Entry) /\ log'[s] \in Seq(Entry) /\ m \in Nat \ {0}
         /\ m <= Len(log'[s])
    <3>1. Len(log[s]) \in Nat /\ log'[d] \in Seq(Entry) /\ log'[s] \in Seq(Entry)
      BY <1>1, <2>3, NodeTypes DEF TypeOK
    <3> HIDE DEF m, s, d
    <3>2. QED
      BY <2>6, <2>10, <3>1
  <2>13. m <= Len(log'[d]) /\ log'[d][m].term = log'[s][m].term
    BY <2>9, <2>10
  <2> HIDE DEF m, s, d
  <2>14. \A k \in 1..m : log'[d][k] = log'[s][k]
    BY <2>11, <2>12, <2>13, LogsAgreeIn
  <2>15. currentTerm'[d] >= currentTerm'[s]
    BY <2>3, <2>4, <2>10
  <2>16. QED
    BY <2>1, <2>7, <2>12, <2>13, <2>14, <2>15 DEF Matched, HasUpTo
<1>5. QED
    BY <1>1, <1>2, <1>3, <1>4, CallMoves DEF CallMoved, Spawns, Reads

\* An answer of the leader's own term says the truth when it is counted.
LEMMA MatchTrueStep ==
    ASSUME MatchInv, [NodeStep]_vars
    PROVE  MatchTrue'
<1>1. LogInv /\ TypeOK /\ TypeOK'
    BY StepFacts DEF MatchInv
<1>2. SUFFICES ASSUME ~staleAck', NEW i \in Server, state'[i] = Leader, NEW p \in Server, p # i,
                      NEW n \in Nat, n = matchIndex'[i][p], n > 0
               PROVE  Matched(i, p, n)'
  <2>1. ASSUME NEW j \in Server, NEW q \in Server PROVE matchIndex'[j][q] \in Nat
    <3>1. matchIndex' \in [Server -> [Server -> Nat]]
      BY <1>1 DEF TypeOK
    <3>2. matchIndex'[j] \in [Server -> Nat]
      BY <3>1
    <3>3. QED
      BY <3>2
  <2>2. QED
    BY <2>1 DEF MatchTrue, Peers, Matched, HasUpTo
<1>3. ~staleAck
    BY <1>1, <1>2, MatchMoves
<1>4. ASSUME NEW e \in elections, Wins(e), e.node = i PROVE FALSE
  <2>1. matchIndex'[i] = [q \in Server |-> 0]
    BY <1>1, <1>4 DEF Wins, TypeOK
  <2>2. QED
    BY <1>2, <2>1
<1>5. state[i] = Leader
    BY <1>1, <1>2, <1>4, LeadsSince
<1>6. CASE matchIndex[i][p] = n
  <2>1. Matched(i, p, n)
    BY <1>2, <1>3, <1>5, <1>6 DEF MatchInv, MatchTrue, Peers
  <2>2. QED
    BY <1>2, <1>5, <2>1, MatchedStays
<1>7. ASSUME NEW c \in DOMAIN appendCalls, Acks(c), c.src = i, c.dst = p
      PROVE  Matched(i, p, n)'
  <2>1. c.last \in Nat /\ c.last > 0 /\ c.phase = "replied" /\ c.success /\ c.term = currentTerm[i]
    BY <1>1, <1>2, <1>7, CallType DEF Acks
  <2>2. Matched(i, p, c.last)
    BY <1>7, <2>1 DEF MatchInv, ReplyTrue
  <2>3. n = c.last
    <3>1. matchIndex' = [matchIndex EXCEPT ![i][p] = c.last]
      BY <1>7 DEF Acks
    <3>2. matchIndex \in [Server -> [Server -> Nat]]
      BY <1>1 DEF TypeOK
    <3>3. QED
      BY <1>2, <3>1, <3>2
  <2>4. QED
    BY <1>2, <1>5, <2>2, <2>3, MatchedStays
<1>8. \/ matchIndex'[i][p] = matchIndex[i][p]
      \/ \E e \in elections : Wins(e) /\ e.node = i
      \/ \E c \in DOMAIN appendCalls : Acks(c) /\ c.src = i /\ c.dst = p
  <2>1. ASSUME NEW e \in elections, Wins(e), e.node # i PROVE matchIndex'[i][p] = matchIndex[i][p]
    BY <1>1, <2>1 DEF Wins, TypeOK
  <2>2. ASSUME NEW c \in DOMAIN appendCalls, Acks(c), ~(c.src = i /\ c.dst = p)
        PROVE  matchIndex'[i][p] = matchIndex[i][p]
    <3>1. matchIndex' = [matchIndex EXCEPT ![c.src][c.dst] = c.last]
      BY <2>2 DEF Acks
    <3>2. c.src \in Server /\ c.dst \in Server /\ matchIndex \in [Server -> [Server -> Nat]]
      BY <1>1, CallType DEF TypeOK
    <3>3. QED
      BY <2>2, <3>1, <3>2
  <2>3. QED
    BY <1>1, <2>1, <2>2, MatchMoves
<1>9. QED
    BY <1>2, <1>4, <1>6, <1>7, <1>8

\* The invariant of matchIndex holds at the start.
LEMMA MatchInit == Init => MatchInv
<1> SUFFICES ASSUME Init PROVE MatchInv
    OBVIOUS
<1>1. DOMAIN appendCalls = {}
    BY DEF Init, EmptyBag, SetToBag
<1>2. \A i \in Server : state[i] # Leader
    BY DEF Init, Follower, Leader
<1>3. QED
    BY <1>1, <1>2, LogInit DEF MatchInv, CallFromLeader, SentCalls, ReplyTrue, MatchTrue

\* Every step keeps the invariant of matchIndex.
LEMMA MatchStep == MatchInv /\ [NodeStep]_vars => MatchInv'
    BY LogStep, CallFromLeaderStep, ReplyTrueStep, MatchTrueStep DEF MatchInv

\* The invariant of matchIndex holds until a request carries other entries.
LEMMA MatchInvariant == Spec => [](~overwritten => MatchInv)
<1>1. Init => (~overwritten => MatchInv)
    BY MatchInit
<1>2. (~overwritten => MatchInv) /\ [Next]_vars => (~overwritten => MatchInv)'
    BY MatchStep, StepOfNode
<1>3. QED
    BY <1>1, <1>2, PTL DEF Spec

\* A leader that has used only answers to requests of its own term is right about
\* its peers, whatever the order in which calls are handled and answered: a peer
\* that has not gone to a later term holds the leader's entries up to matchIndex.
\* (In behaviours in which requests carry what was read.)
THEOREM LeadersKnowPeers == Spec => []MatchIndexTrue
<1>1. (~overwritten => MatchInv) => MatchIndexTrue
  <2> SUFFICES ASSUME MatchInv, ~staleAck, NEW i \in Server, NEW p \in Peers(i),
                      state[i] = Leader, currentTerm[p] <= currentTerm[i]
               PROVE  /\ matchIndex[i][p] <= Len(log[p])
                      /\ SubSeq(log[p], 1, matchIndex[i][p]) = SubSeq(log[i], 1, matchIndex[i][p])
      BY DEF MatchIndexTrue, Undisturbed
  <2> DEFINE n == matchIndex[i][p]
  <2>1. TypeOK /\ p \in Server
      BY DEF MatchInv, LogInv, TypeInv, Peers
  <2>2. /\ n \in Nat /\ currentTerm[i] \in Nat /\ currentTerm[p] \in Nat
        /\ log[i] \in Seq(Entry) /\ log[p] \in Seq(Entry)
        /\ Len(log[i]) \in Nat /\ Len(log[p]) \in Nat
      BY <2>1, NodeTypes
  <2>3. n > 0 => Matched(i, p, n)
      BY DEF MatchInv, MatchTrue
  <2> HIDE DEF n
  <2>4. n <= Len(log[p]) /\ n <= Len(log[i]) /\ \A k \in 1..n : log[p][k] = log[i][k]
      BY <2>2, <2>3 DEF Matched, HasUpTo
  <2>5. QED
      BY <2>2, <2>4, SamePrefix DEF n
<1>2. QED
    BY <1>1, MatchInvariant, PTL

-----------------------------------------------------------------------------
(***************************************************************************)
(* Prefixes.  A prefix is a sequence of entries that some log begins with. *)
(* It meets every log and every call that reaches its last entry's term.   *)
(***************************************************************************)
Prefix == Seq(Entry) \ {<<>>}

TermOf(pre) == pre[Len(pre)].term

Has(lg, pre) == HasUpTo(lg, Len(pre), pre)

\* A prefix is a log with a last entry.
LEMMA PrefixType ==
    ASSUME NEW pre \in Prefix
    PROVE  /\ pre \in Seq(Entry) /\ Len(pre) \in Nat \ {0} /\ Len(pre) \in 1..Len(pre)
           /\ TermOf(pre) \in Nat
<1>1. pre \in Seq(Entry) /\ Len(pre) \in Nat \ {0}
    BY LogType, EmptySeq DEF Prefix
<1>2. Len(pre) \in 1..Len(pre)
    BY <1>1
<1>3. QED
    BY <1>1, <1>2, LogType DEF TermOf

\* The links of a prefix are those of a log that begins with it.
LEMMA LinksOfPrefix ==
    ASSUME NEW pre \in Prefix, NEW lg \in Seq(Entry), Has(lg, pre)
    PROVE  LogLinks(pre) \subseteq LogLinks(lg)
<1>1. Len(lg) \in Nat /\ Len(pre) \in Nat
    BY PrefixType, LogType
<1>2. Len(pre) <= Len(lg) /\ \A k \in 1..Len(pre) : lg[k] = pre[k] /\ k \in 1..Len(lg)
    BY <1>1 DEF Has, HasUpTo
<1>3. ASSUME NEW n \in 1..Len(pre)
      PROVE  Link(n, pre[n], TermAt(pre, n - 1)) = Link(n, lg[n], TermAt(lg, n - 1))
  <2>1. lg[n] = pre[n]
    BY <1>2
  <2>2. n - 1 \in 1..Len(pre) <=> n - 1 \in 1..Len(lg)
    BY <1>1, <1>2
  <2>3. TermAt(pre, n - 1) = TermAt(lg, n - 1)
    <3>1. CASE n - 1 \in 1..Len(pre)
      BY <1>2, <2>2, <3>1 DEF TermAt
    <3>2. CASE n - 1 \notin 1..Len(pre)
      BY <2>2, <3>2 DEF TermAt
    <3>3. QED
      BY <3>1, <3>2
  <2>4. QED
    BY <2>1, <2>3
<1>4. QED
    BY <1>2, <1>3 DEF LogLinks

\* A log with an entry of the last entry's term at its index has the prefix.
LEMMA Meets ==
    ASSUME NEW K, Agreeing(K), NEW pre \in Prefix, LogLinks(pre) \subseteq K,
           NEW lg \in Seq(Entry), LogLinks(lg) \subseteq K,
           Len(pre) <= Len(lg), lg[Len(pre)].term = TermOf(pre)
    PROVE  Has(lg, pre)
<1>1. pre \in Seq(Entry) /\ Len(pre) \in Nat \ {0} /\ Len(pre) <= Len(pre)
    BY PrefixType
<1>2. \A k \in 1..Len(pre) : lg[k] = pre[k]
    BY <1>1, LogsAgreeIn DEF TermOf
<1>3. QED
    BY <1>1, <1>2 DEF Has, HasUpTo

\* So does a log with an entry of that term further on.
LEMMA MeetsBelow ==
    ASSUME NEW K, Agreeing(K), NEW pre \in Prefix, LogLinks(pre) \subseteq K,
           NEW lg \in Seq(Entry), LogLinks(lg) \subseteq K,
           NEW n \in 1..Len(lg), Len(pre) <= n, lg[n].term = TermOf(pre)
    PROVE  Has(lg, pre)
<1> DEFINE m == Len(pre)
           t == TermOf(pre)
           D == {k \in m..n : lg[k].term = t}
<1>1. m \in Nat \ {0} /\ Len(lg) \in Nat /\ t \in Nat /\ n \in Nat /\ m <= n /\ m \in 1..Len(pre)
    BY PrefixType, LogType
<1>2. D \in SUBSET Nat /\ n \in D /\ \A k \in D : k \in m..n /\ lg[k].term = t
    BY <1>1
<1>3. \A k \in m..n : lg[k].term = t => k \in D
    OBVIOUS
<1>4. PICK h \in LogLinks(pre) : h.index = m /\ h.entry.term = t
  <2>1. PICK h \in LogLinks(pre) : h.index = m /\ h.entry = pre[m]
    BY <1>1, LinkIn
  <2>2. QED
    BY <2>1 DEF TermOf
<1> HIDE DEF m, t, D
<1> DEFINE x == Min(D)
<1>5. x \in D /\ \A y \in D : x <= y
    BY <1>2, MinOfNats
<1> HIDE DEF x
<1>6. x \in m..n /\ x \in 1..Len(lg) /\ lg[x].term = t
    BY <1>1, <1>2, <1>5
<1>7. ASSUME x # m PROVE FALSE
  <2>1. x - 1 \in m..n /\ x - 1 \in 1..Len(lg) /\ m < x /\ ~(x <= x - 1)
    BY <1>1, <1>6, <1>7
  <2>2. PICK l \in LogLinks(lg) : l.index = x /\ l.entry = lg[x] /\ l.prev = TermAt(lg, x - 1)
    BY <1>6, LinkIn
  <2>3. l.prev = t
    <3>1. l \in K /\ h \in K
      OBVIOUS
    <3>2. QED
      BY <1>4, <1>6, <2>1, <2>2, <3>1 DEF Agreeing
  <2>4. lg[x - 1].term = t
    BY <2>1, <2>2, <2>3 DEF TermAt
  <2>5. QED
    BY <1>3, <1>5, <2>1, <2>4
<1>8. m <= Len(lg) /\ lg[m].term = t
    BY <1>1, <1>6, <1>7
<1>9. QED
    BY <1>8, Meets DEF m, t

-----------------------------------------------------------------------------
(***************************************************************************)
(* Firm prefixes: nothing of a later term can come without them.           *)
(***************************************************************************)
\* A node that is not behind the prefix has it.
Anchored(pre) == \E i \in Server : currentTerm[i] >= TermOf(pre) /\ Has(log[i], pre)

\* A log with an entry of a later term has the prefix.
LaterLogs(pre) ==
    \A j \in Server : \A n \in 1..Len(log[j]) : (log[j][n].term > TermOf(pre)) => Has(log[j], pre)

\* The entries of the call, in a log that has what comes before them, make or leave
\* a log that has the prefix.
Reaches(c, pre) ==
    /\ c.prev < Len(pre) => /\ Len(pre) <= c.prev + Len(c.entries)
                            /\ c.entries[Len(pre) - c.prev].term = TermOf(pre)
    /\ c.prev >= Len(pre) => c.prevTerm >= TermOf(pre)

LaterCalls(pre) ==
    \A c \in SentCalls : \A k \in 1..Len(c.entries) :
        (c.entries[k].term > TermOf(pre)) => Reaches(c, pre)

\* No call of the prefix's term or a later one contradicts it.
CallsKeep(pre) ==
    \A c \in SentCalls : (c.term >= TermOf(pre)) => KeepsUpTo(c.prev, c.entries, Len(pre), pre)

\* The winner of the prefix's term and those of later terms have it.
WinnersHave(pre) ==
    \A w \in winners : (w.term >= TermOf(pre)) => Has(log[w.node], pre)

\* So have the candidates of later terms whose requests describe a log that is as
\* up to date as the prefix.
RequestsHave(pre) ==
    \A r \in voteRequests :
        /\ r.term > TermOf(pre)
        /\ \/ r.lastLogTerm > TermOf(pre)
           \/ r.lastLogTerm = TermOf(pre) /\ r.lastLogIndex >= Len(pre)
        => Has(log[r.cand], pre)

Firm(pre) ==
    /\ Anchored(pre) /\ LaterLogs(pre) /\ LaterCalls(pre) /\ CallsKeep(pre)
    /\ WinnersHave(pre) /\ RequestsHave(pre)

\* The terms of every log never decrease.
LogsOrdered ==
    \A j \in Server : \A n, m \in 1..Len(log[j]) : n <= m => log[j][n].term <= log[j][m].term

\* Terms never decrease along a log, because they do not along a link.
LEMMA OrderedNow == LogInv => LogsOrdered
<1> SUFFICES ASSUME LogInv, NEW j \in Server, NEW n \in 1..Len(log[j]), NEW m \in 1..Len(log[j]), n <= m
             PROVE  log[j][n].term <= log[j][m].term
    BY DEF LogsOrdered
<1>1. log[j] \in Seq(Entry)
    BY NodeTypes DEF LogInv, TypeInv
<1>2. QED
    BY <1>1, LinksOfLog, TermsOrdered DEF LogInv

\* Nor do they after a step.
LEMMA OrderedNext == LogInv /\ [NodeStep]_vars => LogsOrdered'
    BY OrderedNow, LogStep, PTL

\* The links of the next logs are among the next links.
LEMMA LinksOfLogNext == \A i \in Server : LogLinks(log'[i]) \subseteq Links'
    BY DEF Links

\* A node that is not behind the prefix keeps what it has of it.
LEMMA PartKept ==
    ASSUME LogInv, [NodeStep]_vars, NEW pre \in Prefix, CallsKeep(pre), NEW j \in Server,
           NEW x \in Nat, x <= Len(pre), HasUpTo(log[j], x, pre), currentTerm[j] >= TermOf(pre)
    PROVE  HasUpTo(log'[j], x, pre)
<1>1. TypeOK /\ log[j] \in Seq(Entry) /\ Len(log[j]) \in Nat /\ currentTerm[j] \in Nat
    BY StepFacts, NodeTypes
<1>2. pre \in Seq(Entry) /\ Len(pre) \in Nat /\ TermOf(pre) \in Nat
    BY PrefixType
<1>3. ASSUME NEW cmd \in Command, Propose(j, cmd) PROVE HasUpTo(log'[j], x, pre)
  <2>1. Len(log'[j]) = Len(log[j]) + 1 /\ \A n \in 1..Len(log[j]) : log'[j][n] = log[j][n]
    BY <1>1, <1>3, ProposeLinks
  <2>2. QED
    BY <1>1, <1>2, <2>1 DEF HasUpTo
<1>4. ASSUME NEW c \in DOMAIN appendCalls, AcceptEntries(c), c.dst = j PROVE HasUpTo(log'[j], x, pre)
  <2>1. c.prev <= Len(log[j]) /\ log'[j] = Merge(log[j], c.prev, c.entries) /\ c \in SentCalls
    BY <1>1, <1>4, AcceptLinks DEF LogInv
  <2>2. c.prev \in Nat /\ c.entries \in Seq(Entry) /\ c.term \in Nat
    BY <1>1, <2>1, CallType DEF SentCalls
  <2>3. c.term >= TermOf(pre)
    <3>1. c.term >= currentTerm[j]
      BY <1>4 DEF AcceptEntries, AdoptLeader
    <3>2. QED
      BY <1>1, <1>2, <2>2, <3>1
  <2>4. KeepsUpTo(c.prev, c.entries, x, pre)
    <3>1. KeepsUpTo(c.prev, c.entries, Len(pre), pre)
      BY <2>1, <2>3 DEF CallsKeep
    <3>2. \A k \in 1..Len(c.entries) : c.prev + k <= x => c.prev + k <= Len(pre)
      BY <1>2, <2>2
    <3>3. QED
      BY <3>1, <3>2 DEF KeepsUpTo
  <2>5. QED
    BY <1>1, <1>2, <2>1, <2>2, <2>4, MergeKeeps
<1>5. QED
    BY <1>1, <1>3, <1>4, LogMoves DEF LogMoved

\* A node that has the prefix and is not behind it keeps it, if no call contradicts it.
LEMMA HasKept ==
    ASSUME LogInv, [NodeStep]_vars, NEW pre \in Prefix, CallsKeep(pre), NEW j \in Server,
           Has(log[j], pre), currentTerm[j] >= TermOf(pre)
    PROVE  Has(log'[j], pre)
<1>1. Len(pre) \in Nat /\ Len(pre) <= Len(pre)
    BY PrefixType
<1>2. QED
    BY <1>1, PartKept DEF Has

\* The links of a prefix that a node has are known.
LEMMA AnchoredLinks ==
    ASSUME TypeOK, NEW pre \in Prefix, Anchored(pre)
    PROVE  LogLinks(pre) \subseteq Links
    BY NodeTypes, LinksOfPrefix, LinksOfLog DEF Anchored

\* The anchor holds after the step, and the prefix's links are there.
LEMMA AnchoredStep ==
    ASSUME LogInv, [NodeStep]_vars, NEW pre \in Prefix, CallsKeep(pre), Anchored(pre)
    PROVE  Anchored(pre)' /\ LogLinks(pre) \subseteq Links'
<1>1. PICK i \in Server : currentTerm[i] >= TermOf(pre) /\ Has(log[i], pre)
    BY DEF Anchored
<1>2. Has(log'[i], pre)
    BY <1>1, HasKept
<1>3. currentTerm'[i] >= currentTerm[i] /\ currentTerm[i] \in Nat /\ currentTerm'[i] \in Nat
      /\ TermOf(pre) \in Nat
    BY StepFacts, PrefixType
<1>4. currentTerm'[i] >= TermOf(pre)
    BY <1>1, <1>3
<1>5. log'[i] \in Seq(Entry)
    BY StepFacts DEF TypeOK
<1>6. LogLinks(pre) \subseteq LogLinks(log'[i])
    BY <1>2, <1>5, LinksOfPrefix
<1>7. QED
    BY <1>2, <1>4, <1>6, LinksOfLogNext DEF Anchored, Has, HasUpTo, TermOf

\* Whoever accepts a call that reaches the prefix has it.
LEMMA AcceptMeets ==
    ASSUME LogInv, [NodeStep]_vars, NEW pre \in Prefix, CallsKeep(pre), Anchored(pre), LaterLogs(pre),
           NEW c \in DOMAIN appendCalls, AcceptEntries(c), Reaches(c, pre)
    PROVE  Has(log'[c.dst], pre)
<1> DEFINE j == c.dst
           m == Len(pre)
<1>1. TypeOK /\ TypeOK' /\ LogInv'
    BY StepFacts, LogStep
<1>2. pre \in Seq(Entry) /\ m \in Nat \ {0} /\ TermOf(pre) \in Nat
    BY PrefixType
<1>3. /\ c \in SentCalls /\ c.prev <= Len(log[j]) /\ c.prevTerm = TermAt(log[j], c.prev)
      /\ log'[j] = Merge(log[j], c.prev, c.entries)
    BY <1>1, AcceptLinks DEF LogInv
<1>4. j \in Server /\ c.prev \in Nat /\ c.entries \in Seq(Entry) /\ Len(c.entries) \in Nat
    BY <1>1, <1>3, CallType, LogType DEF SentCalls
<1>5. log[j] \in Seq(Entry) /\ log'[j] \in Seq(Entry) /\ Len(log[j]) \in Nat
    BY <1>1, <1>4, NodeTypes DEF TypeOK
<1> HIDE DEF j, m
<1>6. CASE c.prev < m
  <2> DEFINE k == m - c.prev
  <2>1. m <= c.prev + Len(c.entries) /\ c.entries[k].term = TermOf(pre)
    BY <1>6 DEF Reaches, m
  <2>2. k \in 1..Len(c.entries) /\ c.prev + k = m
    BY <1>2, <1>4, <1>6, <2>1
  <2> HIDE DEF k
  <2>3. m <= Len(log'[j]) /\ log'[j][m].term = TermOf(pre)
    BY <1>3, <1>4, <1>5, <2>1, <2>2, MergeReaches
  <2>4. LogLinks(pre) \subseteq Links' /\ LogLinks(log'[j]) \subseteq Links' /\ Agreeing(Links')
    BY <1>1, <1>4, AnchoredStep, LinksOfLogNext DEF LogInv, LinksAgree, Agreeing
  <2>5. QED
    BY <1>5, <2>3, <2>4, Meets DEF m, j
<1>7. CASE c.prev >= m
  <2>1. c.prev \in 1..Len(log[j]) /\ log[j][c.prev].term >= TermOf(pre) /\ log[j][c.prev].term \in Nat
    <3>1. c.prev \in 1..Len(log[j])
      BY <1>2, <1>3, <1>4, <1>5, <1>7
    <3>2. c.prevTerm >= TermOf(pre)
      BY <1>7 DEF Reaches, m
    <3>3. QED
      BY <1>3, <1>5, <3>1, <3>2, LogType
  <2>2. Has(log[j], pre)
    <3>1. CASE log[j][c.prev].term > TermOf(pre)
      BY <1>4, <2>1, <3>1 DEF LaterLogs
    <3>2. CASE log[j][c.prev].term = TermOf(pre)
      <4>1. Agreeing(Links) /\ LogLinks(log[j]) \subseteq Links /\ LogLinks(pre) \subseteq Links
        BY <1>1, <1>4, AnchoredLinks, LinksOfLog DEF LogInv, LinksAgree, Agreeing
      <4>2. QED
        BY <1>5, <1>7, <2>1, <3>2, <4>1, MeetsBelow DEF m
    <3>3. QED
      BY <1>2, <2>1, <3>1, <3>2
  <2>3. KeepsUpTo(c.prev, c.entries, m, pre)
    <3>1. ASSUME NEW k \in 1..Len(c.entries) PROVE ~(c.prev + k <= m)
      BY <1>2, <1>4, <1>7
    <3>2. QED
      BY <3>1 DEF KeepsUpTo
  <2>4. QED
    BY <1>2, <1>3, <1>4, <1>5, <2>2, <2>3, MergeKeeps DEF Has, m, j
<1>8. QED
    BY <1>2, <1>4, <1>6, <1>7

\* Entries of later terms come from winners, and those have the prefix.
LEMMA LaterLogsStep ==
    ASSUME LogInv, [NodeStep]_vars, NEW pre \in Prefix, Firm(pre)
    PROVE  LaterLogs(pre)'
<1>1. /\ TypeOK /\ TypeOK' /\ Anchored(pre) /\ LaterLogs(pre) /\ LaterCalls(pre) /\ CallsKeep(pre)
      /\ WinnersHave(pre)
    BY StepFacts DEF Firm
<1> DEFINE t == TermOf(pre)
           m == Len(pre)
<1>2. t \in Nat /\ m \in Nat \ {0}
    BY PrefixType
<1>3. SUFFICES ASSUME NEW j \in Server, NEW n \in 1..Len(log'[j]), log'[j][n].term > t
               PROVE  Has(log'[j], pre)
    BY DEF LaterLogs, TermOf, Has, HasUpTo
<1>4. /\ log[j] \in Seq(Entry) /\ Len(log[j]) \in Nat /\ currentTerm[j] \in Nat
      /\ log'[j] \in Seq(Entry) /\ Len(log'[j]) \in Nat /\ log'[j][n].term \in Nat
    BY <1>1, <1>3, NodeTypes, LogType DEF TypeOK
<1>5. ASSUME NEW x \in 1..Len(log[j]), log[j][x].term > t PROVE Has(log[j], pre)
    BY <1>1, <1>5 DEF LaterLogs
<1> HIDE DEF t, m
<1>6. CASE log'[j] = log[j]
    BY <1>3, <1>5, <1>6
<1>7. ASSUME NEW cmd \in Command, Propose(j, cmd) PROVE Has(log'[j], pre)
  <2>1. /\ Len(log'[j]) = Len(log[j]) + 1 /\ \A k \in 1..Len(log[j]) : log'[j][k] = log[j][k]
        /\ log'[j][Len(log[j]) + 1].term = currentTerm[j]
    <3>1. NewEntry(j, cmd).term = currentTerm[j]
      BY DEF NewEntry
    <3>2. QED
      BY <1>1, <1>7, <3>1, ProposeLinks
  <2>2. Has(log[j], pre)
    <3>1. CASE n \in 1..Len(log[j])
      BY <1>3, <1>5, <2>1, <3>1
    <3>2. CASE n = Len(log[j]) + 1
      <4>1. [node |-> j, term |-> currentTerm[j]] \in winners
        BY <1>7 DEF Propose, LogInv, VoteInv, ElectionSafety
      <4>2. currentTerm[j] >= t
        BY <1>2, <1>3, <1>4, <2>1, <3>2
      <4>3. QED
        BY <1>1, <4>1, <4>2 DEF WinnersHave, t
    <3>3. QED
      BY <1>3, <1>4, <2>1, <3>1, <3>2
  <2>3. m <= Len(log[j]) /\ \A k \in 1..m : log[j][k] = pre[k]
    BY <2>2 DEF Has, HasUpTo, m
  <2>4. m <= Len(log'[j]) /\ \A k \in 1..m : k \in 1..Len(log[j])
    BY <1>2, <1>4, <2>1, <2>3
  <2>5. \A k \in 1..m : log'[j][k] = pre[k]
    BY <2>1, <2>3, <2>4
  <2>6. QED
    BY <1>2, <2>4, <2>5 DEF Has, HasUpTo, m
<1>8. ASSUME NEW c \in DOMAIN appendCalls, AcceptEntries(c), c.dst = j PROVE Has(log'[j], pre)
  <2>1. c \in SentCalls /\ c.prev <= Len(log[j]) /\ log'[j] = Merge(log[j], c.prev, c.entries)
    BY <1>1, <1>8, AcceptLinks DEF LogInv
  <2>2. /\ c.prev \in Nat /\ c.entries \in Seq(Entry) /\ Len(c.entries) \in Nat
        /\ \A k \in 1..Len(c.entries) : c.entries[k].term \in Nat
    BY <1>1, <2>1, CallType, LogType DEF SentCalls
  <2>3. ASSUME NEW k \in 1..Len(c.entries), c.entries[k].term > t PROVE Has(log'[j], pre)
    <3>1. Reaches(c, pre)
      BY <1>1, <2>1, <2>3 DEF LaterCalls, t
    <3>2. QED
      BY <1>1, <1>8, <3>1, AcceptMeets
  <2>4. CASE KeptWhole(log[j], c.prev, c.entries)
    BY <1>3, <1>5, <2>1, <2>4 DEF KeptWhole
  <2>5. ASSUME NEW k \in 1..Len(c.entries), CutAt(log[j], c.prev, c.entries, k),
               \A x \in 1..Len(c.entries) : ~(c.entries[x].term > t)
        PROVE  FALSE
    <3>1. /\ Len(log'[j]) = c.prev + Len(c.entries)
          /\ \A x \in k..Len(c.entries) : log'[j][c.prev + x] = c.entries[x]
      BY <2>1, <2>5 DEF CutAt
    <3>2. CASE n < c.prev + k
      <4>1. c.prev + k \in 1..Len(log'[j]) /\ n <= c.prev + k /\ k \in k..Len(c.entries)
        BY <1>3, <2>2, <3>1, <3>2
      <4>2. log'[j][n].term <= log'[j][c.prev + k].term
        BY <1>3, <4>1, OrderedNext DEF LogsOrdered
      <4>3. log'[j][c.prev + k] = c.entries[k] /\ c.entries[k].term \in Nat /\ ~(c.entries[k].term > t)
        BY <2>2, <2>5, <3>1, <4>1
      <4>4. QED
        BY <1>2, <1>3, <1>4, <4>2, <4>3
    <3>3. CASE n >= c.prev + k
      <4> DEFINE x == n - c.prev
      <4>1. x \in k..Len(c.entries) /\ x \in 1..Len(c.entries) /\ c.prev + x = n
        <5>1. \A a, b, z, y \in Nat :
                 (z >= 1 /\ b >= a + z /\ b <= y /\ y = a + Len(c.entries))
                 => b - a \in z..Len(c.entries) /\ b - a \in 1..Len(c.entries) /\ a + (b - a) = b
          BY <2>2
        <5>2. k \in Nat /\ k >= 1 /\ n \in Nat /\ n <= Len(log'[j]) /\ Len(log'[j]) \in Nat
          BY <1>3, <1>4, <2>2
        <5>3. QED
          BY <2>2, <3>1, <3>3, <5>1, <5>2
      <4> HIDE DEF x
      <4>2. log'[j][n] = c.entries[x]
        BY <3>1, <4>1
      <4>3. QED
        BY <1>3, <2>5, <4>1, <4>2
    <3>4. QED
      BY <1>3, <2>2, <3>2, <3>3
  <2>6. QED
    BY <1>4, <2>1, <2>2, <2>3, <2>4, <2>5, MergeShape
<1>9. QED
    BY <1>1, <1>3, <1>6, <1>7, <1>8, LogMoves DEF LogMoved

\* A call that has read a log with the prefix reaches it.
LEMMA ReadReaches ==
    ASSUME LogInv, NEW pre \in Prefix, NEW b \in DOMAIN appendCalls, NEW c, Reads(b, c),
           Has(log[c.src], pre), PartOf(c, log[c.src])
    PROVE  Reaches(c, pre)
<1> DEFINE t == TermOf(pre)
           m == Len(pre)
           i == c.src
<1>1. TypeOK /\ TypeInv
    BY DEF LogInv, TypeInv
<1>2. t \in Nat /\ m \in Nat \ {0} /\ m \in 1..Len(pre)
    BY PrefixType
<1>3. /\ i \in Server /\ c.prev \in Nat /\ c.entries \in Seq(Entry) /\ Len(c.entries) \in Nat
      /\ \/ c.entries = <<>> /\ c.prev > Len(log[i])
         \/ c.prev + Len(c.entries) = Len(log[i])
    BY <1>1, ReadShape, LogType
<1>4. log[i] \in Seq(Entry) /\ Len(log[i]) \in Nat
    BY <1>1, <1>3, NodeTypes
<1>5. PartOf(c, log[i])
    OBVIOUS
<1> HIDE DEF i
<1>6. c.prev + Len(c.entries) = Len(log[i])
    BY <1>3, <1>4, <1>5 DEF PartOf
<1>7. m <= Len(log[i]) /\ log[i][m].term = t
    BY <1>2 DEF Has, HasUpTo, TermOf, t, m, i
<1> HIDE DEF t, m
<1>8. CASE c.prev < m
  <2> DEFINE x == m - c.prev
  <2>1. x \in 1..Len(c.entries) /\ c.prev + x = m
    <3>1. \A a, d, z \in Nat : (a < m /\ m <= z /\ a + d = z) => m - a \in 1..d /\ a + (m - a) = m
      BY <1>2
    <3>2. QED
      BY <1>3, <1>4, <1>6, <1>7, <1>8, <3>1
  <2> HIDE DEF x
  <2>2. c.entries[x].term = t
    BY <1>5, <1>7, <2>1 DEF PartOf
  <2>3. m <= c.prev + Len(c.entries)
    BY <1>6, <1>7
  <2>4. ~(c.prev >= m)
    BY <1>2, <1>3, <1>8
  <2>5. QED
    BY <2>2, <2>3, <2>4 DEF Reaches, m, t, x
<1>9. CASE c.prev >= m
  <2>1. c.prev \in 1..Len(log[i]) /\ m \in 1..Len(log[i])
    BY <1>2, <1>3, <1>4, <1>6, <1>7, <1>9
  <2>2. log[i][m].term <= log[i][c.prev].term /\ log[i][c.prev].term \in Nat
    BY <1>3, <1>4, <1>9, <2>1, OrderedNow, LogType DEF LogsOrdered
  <2>3. c.prevTerm = log[i][c.prev].term
    BY <1>4, <1>5, <2>1, LogType DEF PartOf
  <2>4. c.prevTerm >= t /\ ~(c.prev < m)
    BY <1>2, <1>3, <1>7, <1>9, <2>2, <2>3
  <2>5. QED
    BY <2>4 DEF Reaches, m, t
<1>10. QED
    BY <1>2, <1>3, <1>8, <1>9

\* Calls of later terms are read from logs that have the prefix.
LEMMA LaterCallsStep ==
    ASSUME LogInv, [NodeStep]_vars, NEW pre \in Prefix, Firm(pre)
    PROVE  LaterCalls(pre)'
<1>1. TypeOK /\ TypeInv /\ LaterLogs(pre) /\ LaterCalls(pre)
    BY StepFacts DEF Firm, LogInv
<1> DEFINE t == TermOf(pre)
           m == Len(pre)
<1>2. t \in Nat /\ m \in Nat \ {0} /\ m \in 1..Len(pre)
    BY PrefixType
<1>3. SUFFICES ASSUME NEW c \in SentCalls', NEW k \in 1..Len(c.entries), c.entries[k].term > t
               PROVE  Reaches(c, pre)
    BY DEF LaterCalls, TermOf, Reaches
<1>4. c \in DOMAIN appendCalls' /\ c.phase = "sent"
    BY <1>3 DEF SentCalls
<1>5. CASE c \in DOMAIN appendCalls
    BY <1>1, <1>3, <1>4, <1>5 DEF LaterCalls, SentCalls
<1> HIDE DEF t, m
<1>6. ASSUME NEW b \in DOMAIN appendCalls, Reads(b, c) PROVE Reaches(c, pre)
  <2> DEFINE i == c.src
  <2>1. i \in Server /\ c.prev \in Nat /\ c.entries \in Seq(Entry) /\ Len(c.entries) \in Nat
    BY <1>1, <1>6, ReadShape, LogType
  <2>2. log[i] \in Seq(Entry) /\ Len(log[i]) \in Nat
    BY <1>1, <2>1, NodeTypes
  <2>3. c.entries # <<>>
    BY <1>3, <2>1, EmptySeq
  <2>4. PartOf(c, log[i]) /\ c.prev + Len(c.entries) = Len(log[i])
    BY <1>1, <1>6, <2>3, ReadShape
  <2> HIDE DEF i
  <2>5. c.prev + k \in 1..Len(log[i]) /\ log[i][c.prev + k].term > t
    <3>1. \A a, d, z \in Nat : a + d = z => \A x \in 1..d : a + x \in 1..z
      OBVIOUS
    <3>2. c.prev + k \in 1..Len(log[i])
      BY <1>3, <2>1, <2>2, <2>4, <3>1
    <3>3. log[i][c.prev + k] = c.entries[k]
      BY <1>3, <2>4 DEF PartOf
    <3>4. QED
      BY <1>3, <3>2, <3>3
  <2>6. Has(log[i], pre)
    BY <1>1, <2>1, <2>5 DEF LaterLogs, t
  <2>7. QED
    BY <1>6, <2>4, <2>6, ReadReaches DEF i
<1>7. QED
    BY <1>1, <1>4, <1>5, <1>6, CallMoves DEF CallMoved, Spawns, Answers

\* So no call contradicts it.
LEMMA CallsKeepStep ==
    ASSUME LogInv, [NodeStep]_vars, NEW pre \in Prefix, CallsKeep(pre), WinnersHave(pre)
    PROVE  CallsKeep(pre)'
<1>1. TypeOK /\ TypeInv
    BY StepFacts DEF LogInv
<1>2. SUFFICES ASSUME NEW c \in SentCalls', c.term >= TermOf(pre)
               PROVE  KeepsUpTo(c.prev, c.entries, Len(pre), pre)
    BY DEF CallsKeep, TermOf, KeepsUpTo
<1>3. c \in DOMAIN appendCalls' /\ c.phase = "sent"
    BY <1>2 DEF SentCalls
<1>4. CASE c \in DOMAIN appendCalls
    BY <1>2, <1>3, <1>4 DEF CallsKeep, SentCalls
<1>5. ASSUME NEW b \in DOMAIN appendCalls, Reads(b, c)
      PROVE  KeepsUpTo(c.prev, c.entries, Len(pre), pre)
  <2>1. c.src = b.src /\ c.term = b.term
    BY <1>5 DEF Reads
  <2>2. [node |-> c.src, term |-> c.term] \in winners
    BY <2>1 DEF LogInv, CallsOfWinners
  <2>3. Has(log[c.src], pre)
    BY <1>2, <2>2 DEF WinnersHave
  <2>4. c.prev \in Nat /\ c.entries \in Seq(Entry) /\ Len(c.entries) \in Nat /\ Len(pre) \in Nat
    BY <1>1, <1>5, ReadShape, LogType, PrefixType
  <2>5. CASE c.entries = <<>>
    BY <2>5 DEF KeepsUpTo
  <2>6. CASE PartOf(c, log[c.src])
    <3>1. ASSUME NEW k \in 1..Len(c.entries), c.prev + k <= Len(pre)
          PROVE  c.entries[k] = pre[c.prev + k]
      <4>1. c.prev + k \in 1..Len(pre)
        BY <2>4, <3>1
      <4>2. QED
        BY <2>3, <2>6, <4>1 DEF Has, HasUpTo, PartOf
    <3>2. QED
      BY <3>1 DEF KeepsUpTo
  <2>7. QED
    BY <1>1, <1>5, <2>5, <2>6, ReadShape
<1>6. QED
    BY <1>1, <1>3, <1>4, <1>5, CallMoves DEF CallMoved, Spawns, Answers

\* A winner keeps the prefix; that a new winner has it is the hypothesis.
LEMMA WinnersHaveStep ==
    ASSUME LogInv, [NodeStep]_vars, NEW pre \in Prefix, Firm(pre),
           \A e \in elections : (Wins(e) /\ e.term > TermOf(pre)) => Has(log[e.node], pre)
    PROVE  WinnersHave(pre)'
<1>1. /\ TypeOK /\ TypeOK' /\ VoteInv' /\ CallsKeep(pre) /\ WinnersHave(pre) /\ Anchored(pre)
      /\ TermOf(pre) \in Nat
    BY StepFacts, PrefixType DEF Firm
<1>2. SUFFICES ASSUME NEW w \in winners', w.term >= TermOf(pre) PROVE Has(log'[w.node], pre)
    BY DEF WinnersHave, TermOf, Has, HasUpTo
<1>3. CASE w \in winners
  <2>1. w.node \in Server /\ w.term \in Nat
    BY <1>1, <1>3 DEF TypeOK
  <2>2. Has(log[w.node], pre)
    BY <1>1, <1>2, <1>3 DEF WinnersHave
  <2>3. w.term <= currentTerm[w.node] /\ currentTerm[w.node] \in Nat
    BY <1>1, <1>3, <2>1, NodeTypes DEF LogInv, WinnersLead
  <2>4. currentTerm[w.node] >= TermOf(pre)
    BY <1>1, <1>2, <2>1, <2>3
  <2>5. QED
    BY <1>1, <2>1, <2>2, <2>4, HasKept
<1>4. ASSUME NEW e \in elections, Wins(e), w = [node |-> e.node, term |-> e.term]
      PROVE  Has(log'[w.node], pre)
  <2>1. e.term \in Nat /\ w.node = e.node /\ w.term = e.term /\ log' = log
    BY <1>1, <1>4 DEF TypeOK, Election, Wins
  <2>2. CASE e.term > TermOf(pre)
    BY <1>4, <2>1, <2>2
  <2>3. ASSUME e.term = TermOf(pre) PROVE FALSE
    <3>1. PICK h \in LogLinks(pre) : h.entry = pre[Len(pre)]
      BY PrefixType, LinkIn
    <3>2. h \in Links /\ h.entry.term = e.term
      BY <1>1, <2>3, <3>1, AnchoredLinks DEF TermOf
    <3>3. QED
      BY <1>1, <1>4, <3>2, WinnerFindsNone
  <2>4. QED
    BY <1>1, <1>2, <2>1, <2>2, <2>3
<1>5. w \in winners \/ \E e \in elections : Wins(e) /\ w = [node |-> e.node, term |-> e.term]
    BY <1>1, RoleMoves DEF Wins
<1>6. QED
    BY <1>3, <1>4, <1>5

\* A request describes the log of its candidate.
LEMMA RequestsHaveStep ==
    ASSUME LogInv, [NodeStep]_vars, NEW pre \in Prefix, Firm(pre)
    PROVE  RequestsHave(pre)'
<1>1. /\ TypeOK /\ TypeOK' /\ CallsKeep(pre) /\ RequestsHave(pre) /\ Anchored(pre) /\ LaterLogs(pre)
      /\ TermOf(pre) \in Nat /\ Len(pre) \in Nat \ {0}
    BY StepFacts, PrefixType DEF Firm
<1>2. SUFFICES ASSUME NEW r \in voteRequests', r.term > TermOf(pre),
                      \/ r.lastLogTerm > TermOf(pre)
                      \/ r.lastLogTerm = TermOf(pre) /\ r.lastLogIndex >= Len(pre)
               PROVE  Has(log'[r.cand], pre)
    BY DEF RequestsHave, TermOf, Has, HasUpTo
<1>3. r.cand \in Server /\ r.term \in Nat
    BY <1>1 DEF TypeOK, VoteRequest
<1>4. log[r.cand] \in Seq(Entry) /\ Len(log[r.cand]) \in Nat /\ currentTerm[r.cand] \in Nat
    BY <1>1, <1>3, NodeTypes
<1>5. CASE r \in voteRequests
  <2>1. Has(log[r.cand], pre)
    BY <1>1, <1>2, <1>5 DEF RequestsHave
  <2>2. r.term <= currentTerm[r.cand]
    BY <1>5 DEF LogInv, VotesOld
  <2>3. currentTerm[r.cand] >= TermOf(pre)
    BY <1>1, <1>2, <1>3, <1>4, <2>2
  <2>4. QED
    BY <1>1, <1>3, <2>1, <2>3, HasKept
<1>6. ASSUME r.cand \in Server, StartElection(r.cand), r.lastLogIndex = Len(log[r.cand]),
             r.lastLogTerm = LastTerm(log[r.cand])
      PROVE  Has(log'[r.cand], pre)
  <2> DEFINE lg == log[r.cand]
  <2>1. log' = log
    BY <1>6 DEF StartElection, logVars
  <2>2. Len(lg) \in 1..Len(lg) /\ LastTerm(lg) = lg[Len(lg)].term /\ lg[Len(lg)].term \in Nat
    <3>1. Len(lg) # 0
      BY <1>1, <1>2, <1>6 DEF LastTerm, TermAt
    <3>2. Len(lg) \in 1..Len(lg)
      BY <1>4, <3>1
    <3>3. QED
      BY <1>4, <3>2, LogType DEF LastTerm
  <2>3. CASE LastTerm(lg) > TermOf(pre)
    BY <1>1, <1>3, <2>1, <2>2, <2>3 DEF LaterLogs
  <2>4. CASE LastTerm(lg) = TermOf(pre) /\ Len(lg) >= Len(pre)
    <3>1. Agreeing(Links) /\ LogLinks(lg) \subseteq Links /\ LogLinks(pre) \subseteq Links
      BY <1>1, <1>3, AnchoredLinks, LinksOfLog DEF LogInv, LinksAgree, Agreeing
    <3>2. Len(pre) <= Len(lg)
      BY <1>1, <1>4, <2>4
    <3> HIDE DEF lg
    <3>3. Has(lg, pre)
      BY <1>4, <2>2, <2>4, <3>1, <3>2, MeetsBelow DEF lg
    <3>4. QED
      BY <2>1, <3>3 DEF lg
  <2>5. QED
    BY <1>2, <1>6, <2>3, <2>4
<1>7. QED
    BY <1>1, <1>5, <1>6, PollMoves DEF RequestMoved

\* A prefix stays firm unless a node that lacks it wins a later term.
LEMMA FirmStep ==
    ASSUME LogInv, [NodeStep]_vars, NEW pre \in Prefix, Firm(pre),
           \A e \in elections : (Wins(e) /\ e.term > TermOf(pre)) => Has(log[e.node], pre)
    PROVE  Firm(pre)'
<1>1. CallsKeep(pre) /\ WinnersHave(pre) /\ Anchored(pre)
    BY DEF Firm
<1>2. Anchored(pre)' /\ LaterLogs(pre)' /\ LaterCalls(pre)' /\ CallsKeep(pre)'
    BY <1>1, AnchoredStep, LaterLogsStep, LaterCallsStep, CallsKeepStep
<1>3. WinnersHave(pre)' /\ RequestsHave(pre)'
    BY WinnersHaveStep, RequestsHaveStep
<1>4. QED
    BY <1>2, <1>3 DEF Firm

-----------------------------------------------------------------------------
(***************************************************************************)
(* Guards of a prefix, and durable prefixes: those that a majority guards. *)
(***************************************************************************)
\* p has the prefix, and has given a vote in a later term only to nodes with it.
Guard(pre, p) ==
    /\ Has(log[p], pre) /\ currentTerm[p] >= TermOf(pre)
    /\ \A c \in Server : \A term \in Nat :
          (term > TermOf(pre) /\ Ballot(p, c, term)) => Has(log[c], pre)

GuardedBy(quorum, pre) == Cardinality(quorum) >= Majority /\ \A p \in quorum : Guard(pre, p)

Durable(pre) == Firm(pre) /\ \E quorum \in SUBSET Server : GuardedBy(quorum, pre)

\* The candidate of a ballot is in its term or a later one.
LEMMA BallotOld ==
    ASSUME LogInv, NEW p \in Server, NEW c \in Server, NEW term \in Nat, Ballot(p, c, term)
    PROVE  currentTerm[c] >= term
<1>1. \/ \E e \in elections : e.node = c /\ e.term = term
      \/ \E r \in voteReplies : r.cand = c /\ r.ballot = term
    BY DEF Ballot
<1>2. term <= currentTerm[c]
    BY <1>1 DEF LogInv, VotesOld
<1>3. QED
    BY <1>2, NodeTypes DEF LogInv, TypeInv

\* A guard grants its vote only to a candidate whose log is as up to date as its
\* own, hence as the prefix.
LEMMA GuardVotes ==
    ASSUME LogInv, NEW pre \in Prefix, Firm(pre), NEW p \in Server, Guard(pre, p),
           NEW m \in voteRequests, m.to = p, m.term > TermOf(pre), LogUpToDate(m, log[p])
    PROVE  Has(log[m.cand], pre)
<1> DEFINE lg == log[p]
<1>1. /\ TypeOK /\ RequestsHave(pre) /\ TermOf(pre) \in Nat /\ Len(pre) \in Nat \ {0}
      /\ lg \in Seq(Entry) /\ Len(lg) \in Nat /\ Len(pre) \in 1..Len(pre)
    BY NodeTypes, PrefixType DEF LogInv, TypeInv, Firm
<1>2. m.lastLogTerm \in Nat /\ m.lastLogIndex \in Nat
    BY <1>1 DEF TypeOK, VoteRequest
<1>3. Len(pre) <= Len(lg) /\ lg[Len(pre)].term = TermOf(pre)
    BY <1>1 DEF Guard, Has, HasUpTo, TermOf
<1>4. Len(pre) \in 1..Len(lg) /\ Len(lg) \in 1..Len(lg)
    BY <1>1, <1>3
<1>5. LastTerm(lg) = lg[Len(lg)].term /\ lg[Len(lg)].term \in Nat
    BY <1>1, <1>4, LogType DEF LastTerm
<1>6. lg[Len(pre)].term <= lg[Len(lg)].term
    BY <1>3, <1>4, OrderedNow DEF LogsOrdered
<1>7. LastTerm(lg) >= TermOf(pre) /\ LastTerm(lg) \in Nat
    BY <1>1, <1>3, <1>5, <1>6
<1> HIDE DEF lg
<1>8. \/ m.lastLogTerm > LastTerm(lg)
      \/ m.lastLogTerm = LastTerm(lg) /\ m.lastLogIndex >= Len(lg)
    BY DEF LogUpToDate, lg
<1>9. \/ m.lastLogTerm > TermOf(pre)
      \/ m.lastLogTerm = TermOf(pre) /\ m.lastLogIndex >= Len(pre)
    BY <1>1, <1>2, <1>3, <1>7, <1>8
<1>10. QED
    BY <1>1, <1>9 DEF RequestsHave

\* A guard keeps the prefix, and the vote it casts goes to a log that has it.
LEMMA GuardStep ==
    ASSUME LogInv, [NodeStep]_vars, NEW pre \in Prefix, Firm(pre), NEW p \in Server, Guard(pre, p)
    PROVE  Guard(pre, p)'
<1>1. TypeOK /\ CallsKeep(pre) /\ TermOf(pre) \in Nat
    BY StepFacts, PrefixType DEF Firm
<1>2. \A i \in Server : /\ currentTerm[i] \in Nat /\ currentTerm'[i] \in Nat
                        /\ currentTerm'[i] >= currentTerm[i]
    BY StepFacts
<1>3. Has(log'[p], pre) /\ currentTerm'[p] >= TermOf(pre)
  <2>1. Has(log[p], pre) /\ currentTerm[p] >= TermOf(pre)
    BY DEF Guard
  <2>2. QED
    BY <1>1, <1>2, <2>1, HasKept
<1>4. ASSUME NEW c \in Server, NEW term \in Nat, term > TermOf(pre), Ballot(p, c, term)'
      PROVE  Has(log'[c], pre)
  <2>1. CASE Ballot(p, c, term)
    <3>1. Has(log[c], pre)
      BY <1>4, <2>1 DEF Guard
    <3>2. currentTerm[c] >= TermOf(pre)
      BY <1>1, <1>2, <1>4, <2>1, BallotOld
    <3>3. QED
      BY <1>1, <3>1, <3>2, HasKept
  <2>2. CASE p = c
    BY <1>3, <2>2
  <2>3. ASSUME NEW m \in voteRequests, m.to = p, m.cand = c, m.term = term, LogUpToDate(m, log[p])
        PROVE  Has(log'[c], pre)
    <3>1. Has(log[c], pre)
      BY <1>4, <2>3, GuardVotes
    <3>2. term <= currentTerm[c]
      BY <2>3 DEF LogInv, VotesOld
    <3>3. currentTerm[c] >= TermOf(pre)
      BY <1>1, <1>2, <1>4, <3>2
    <3>4. QED
      BY <1>1, <3>1, <3>3, HasKept
  <2>4. Ballot(p, c, term) \/ Casts(p, c, term)
    BY <1>1, <1>4, BallotMoves
  <2>5. QED
    BY <2>1, <2>2, <2>3, <2>4 DEF Casts
<1>5. QED
    BY <1>3, <1>4 DEF Guard, Has, HasUpTo, TermOf

\* Behind a win there is a majority of ballots.
LEMMA WinnerVoters ==
    ASSUME LogInv, NEW e \in elections, Wins(e)
    PROVE  \E Q \in SUBSET Server : Cardinality(Q) >= Majority /\ \A p \in Q : Ballot(p, e.node, e.term)
<1>1. Cardinality(e.granted) + 1 >= Majority
    BY DEF Wins
<1>2. e.granted \in SUBSET Server /\ e.granted \subseteq Peers(e.node) /\ e.node \in Server
    BY DEF LogInv, VoteInv, TypeOK, Election, PollsOfPeers
<1> DEFINE Q == e.granted \cup {e.node}
<1>3. Q \in SUBSET Server /\ Cardinality(Q) >= Majority
  <2>1. IsFiniteSet(e.granted)
    BY <1>2, ServerAssumption, FS_Subset
  <2>2. Cardinality(Q) = Cardinality(e.granted) + 1
    BY <1>2, <2>1, FS_AddElement DEF Peers
  <2>3. QED
    BY <1>1, <1>2, <2>2
<1>4. \A p \in Q : Ballot(p, e.node, e.term)
    BY DEF Ballot
<1>5. QED
    BY <1>3, <1>4

\* A durable prefix stays durable: the voters of a later winner meet the guards.
LEMMA DurableStep ==
    ASSUME LogInv, [NodeStep]_vars, NEW pre \in Prefix, Durable(pre)
    PROVE  Durable(pre)'
<1>1. Firm(pre) /\ TypeOK
    BY StepFacts DEF Durable
<1>2. PICK quorum \in SUBSET Server : GuardedBy(quorum, pre)
    BY DEF Durable
<1>3. ASSUME NEW e \in elections, Wins(e), e.term > TermOf(pre) PROVE Has(log[e.node], pre)
  <2>1. PICK Q \in SUBSET Server : Cardinality(Q) >= Majority /\ \A p \in Q : Ballot(p, e.node, e.term)
    BY <1>3, WinnerVoters
  <2>2. PICK p \in Q : p \in quorum
    BY <1>2, <2>1, MajoritiesMeet DEF GuardedBy
  <2>3. e.node \in Server /\ e.term \in Nat
    BY <1>1 DEF TypeOK, Election
  <2>4. QED
    BY <1>2, <1>3, <2>1, <2>2, <2>3 DEF GuardedBy, Guard
<1>4. Firm(pre)'
    BY <1>1, <1>3, FirmStep
<1>5. \A p \in quorum : Guard(pre, p)'
    BY <1>1, <1>2, GuardStep DEF GuardedBy
<1>6. QED
    BY <1>2, <1>4, <1>5 DEF Durable, GuardedBy

-----------------------------------------------------------------------------
(***************************************************************************)
(* From a leader's proposal to a majority of acknowledgements.             *)
(***************************************************************************)
\* p has answered, in the leader's term, that it took the leader's first m entries.
Acked(L, p, m) ==
    \/ matchIndex[L][p] >= m
    \/ \E c \in DOMAIN appendCalls :
         /\ c.phase = "replied" /\ c.success /\ c.src = L /\ c.dst = p
         /\ c.term = currentTerm[L] /\ c.last >= m

\* A majority has gone to later terms without having acknowledged m entries: the
\* leader will never commit them.
Blocked(L, m) ==
    \E quorum \in SUBSET Server :
        /\ Cardinality(quorum) >= Majority
        /\ \A p \in quorum : currentTerm[p] > currentTerm[L] /\ ~Acked(L, p, m)

\* What ends with an entry of the leader's own term is firm, and guarded by the
\* leader and whoever has acknowledged it, unless it will never be committed.
AcksGuard ==
    ~staleAck => \A L \in Server : state[L] = Leader =>
        \A pre \in Prefix : (Has(log[L], pre) /\ TermOf(pre) = currentTerm[L]) =>
            \/ Blocked(L, Len(pre))
            \/ Firm(pre) /\ \A p \in Server : (p = L \/ Acked(L, p, Len(pre))) => Guard(pre, p)

\* The last entry that a request names came from a winner, and if that one still
\* leads, it has the entry.
RequestsKnown ==
    \A r \in voteRequests :
        \/ r.lastLogTerm = 0
        \/ \E w \in winners : /\ w.term = r.lastLogTerm
                              /\ (currentTerm[w.node] = w.term) => (r.lastLogIndex <= Len(log[w.node]))

AckInv == MatchInv /\ RequestsKnown /\ AcksGuard

\* The last entry that a request names is one that its candidate has.
LEMMA RequestsKnownStep ==
    ASSUME LogInv, RequestsKnown, [NodeStep]_vars
    PROVE  RequestsKnown'
<1>1. TypeOK /\ TypeOK' /\ winners \subseteq winners'
    BY StepFacts
<1>2. SUFFICES ASSUME NEW r \in voteRequests', r.lastLogTerm # 0
               PROVE  \E w \in winners : /\ w.term = r.lastLogTerm
                                         /\ (currentTerm'[w.node] = w.term) => (r.lastLogIndex <= Len(log'[w.node]))
    BY <1>1 DEF RequestsKnown
<1>3. r.cand \in Server /\ r.lastLogIndex \in Nat /\ r.lastLogTerm \in Nat
    BY <1>1 DEF TypeOK, VoteRequest
<1>4. CASE r \in voteRequests
  <2>1. PICK w \in winners : /\ w.term = r.lastLogTerm
                             /\ (currentTerm[w.node] = w.term) => (r.lastLogIndex <= Len(log[w.node]))
    BY <1>2, <1>4 DEF RequestsKnown
  <2>2. ASSUME currentTerm'[w.node] = w.term PROVE r.lastLogIndex <= Len(log'[w.node])
    <3>1. currentTerm[w.node] = w.term /\ w.node \in Server /\ LogGrows(w.node)
      BY <2>2, LedBefore
    <3>2. Len(log[w.node]) \in Nat /\ Len(log'[w.node]) \in Nat
      BY <1>1, <3>1, LogType DEF TypeOK
    <3>3. QED
      BY <1>3, <2>1, <3>1, <3>2 DEF LogGrows
  <2>3. QED
    BY <2>1, <2>2
<1>5. ASSUME StartElection(r.cand), r.lastLogIndex = Len(log[r.cand]), r.lastLogTerm = LastTerm(log[r.cand])
      PROVE  \E w \in winners : /\ w.term = r.lastLogTerm
                                /\ (currentTerm'[w.node] = w.term) => (r.lastLogIndex <= Len(log'[w.node]))
  <2> DEFINE lg == log[r.cand]
             n == Len(log[r.cand])
  <2>1. lg \in Seq(Entry) /\ n \in Nat /\ log' = log
    BY <1>1, <1>3, <1>5, NodeTypes DEF StartElection, logVars
  <2>2. n \in 1..Len(lg) /\ lg[n].term = r.lastLogTerm /\ r.lastLogIndex = n
    BY <1>2, <1>5, <2>1 DEF LastTerm, TermAt
  <2>3. LogLinks(lg) \subseteq Links
    BY <1>3, LinksOfLog
  <2> HIDE DEF lg, n
  <2>4. PICK l \in Links : l.index = n /\ l.entry = lg[n]
    BY <2>2, <2>3, LinkOf
  <2>5. PICK w \in winners : w.term = lg[n].term
    BY <2>4 DEF LogInv, LinksSound
  <2>6. ASSUME currentTerm'[w.node] = w.term PROVE n <= Len(log'[w.node])
    <3>1. w.node \in Server /\ state[w.node] = Leader /\ currentTerm[w.node] = w.term
      BY <2>6, LedBefore
    <3>2. QED
      BY <2>1, <2>4, <2>5, <3>1 DEF LogInv, LeaderHasTerm
  <2>7. QED
    BY <2>2, <2>5, <2>6
<1>6. QED
    BY <1>1, <1>4, <1>5, PollMoves DEF RequestMoved

\* A node in the prefix's term that has the prefix guards it: its later votes are
\* still to come.
LEMMA GuardInTerm ==
    ASSUME VoteInv', NEW pre \in Prefix, NEW p \in Server,
           currentTerm'[p] = TermOf(pre), Has(log'[p], pre)
    PROVE  Guard(pre, p)'
<1>1. ASSUME NEW c \in Server, NEW term \in Nat, term > TermOf(pre), Ballot(p, c, term)' PROVE FALSE
  <2>1. Bound(p, c, term)'
    BY <1>1 DEF VoteInv, BallotsBind
  <2>2. currentTerm'[p] >= term /\ TermOf(pre) \in Nat
    BY <2>1, PrefixType DEF Bound
  <2>3. QED
    BY <1>1, <2>2
<1>2. currentTerm'[p] >= TermOf(pre)
    BY PrefixType
<1>3. QED
    BY <1>1, <1>2 DEF Guard, Has, HasUpTo, TermOf

\* An acknowledgement is new when its sender has just taken the leader's entries.
LEMMA AckedMoves ==
    ASSUME MatchInv, [NodeStep]_vars, ~staleAck', NEW L \in Server, state[L] = Leader, state'[L] = Leader,
           NEW p \in Server, p # L, NEW m \in Nat \ {0}, Acked(L, p, m)'
    PROVE  \/ Acked(L, p, m)
           \/ currentTerm'[p] = currentTerm'[L] /\ HasUpTo(log'[p], m, log'[L])
<1>1. /\ LogInv /\ TypeOK /\ TypeOK' /\ TypeInv /\ currentTerm'[L] = currentTerm[L]
      /\ ReplyTrue' /\ ~staleAck
    BY StepFacts, LeaderLogGrows, ReplyTrueStep, MatchMoves DEF MatchInv, LogInv
<1>2. CASE matchIndex'[L][p] >= m
  <2>1. CASE matchIndex'[L][p] = matchIndex[L][p]
    BY <1>2, <2>1 DEF Acked
  <2>2. ASSUME NEW e \in elections, Wins(e) PROVE matchIndex'[L][p] = matchIndex[L][p]
    <3>1. e.node # L
      BY <2>2 DEF Wins, Candidate, Leader
    <3>2. matchIndex' = [matchIndex EXCEPT ![e.node] = [q \in Server |-> 0]]
      BY <2>2 DEF Wins
    <3>3. matchIndex \in [Server -> [Server -> Nat]]
      BY <1>1 DEF TypeOK
    <3>4. QED
      BY <3>1, <3>2, <3>3
  <2>3. ASSUME NEW c \in DOMAIN appendCalls, Acks(c) PROVE Acked(L, p, m)
    <3>1. /\ matchIndex' = [matchIndex EXCEPT ![c.src][c.dst] = c.last]
          /\ c.phase = "replied" /\ c.success /\ c.term = currentTerm[c.src]
      BY <1>1, <2>3 DEF Acks
    <3>2. c.src \in Server /\ c.dst \in Server /\ matchIndex \in [Server -> [Server -> Nat]]
      BY <1>1, CallType DEF TypeOK
    <3>3. CASE c.src = L /\ c.dst = p
      <4>1. matchIndex'[L][p] = c.last
        BY <3>1, <3>2, <3>3
      <4>2. QED
        BY <1>2, <3>1, <3>3, <4>1 DEF Acked
    <3>4. CASE ~(c.src = L /\ c.dst = p)
      <4>1. matchIndex'[L][p] = matchIndex[L][p]
        BY <3>1, <3>2, <3>4
      <4>2. QED
        BY <1>2, <4>1 DEF Acked
    <3>5. QED
      BY <3>3, <3>4
  <2>4. QED
    BY <1>1, <2>1, <2>2, <2>3, MatchMoves
<1>3. ASSUME NEW c \in DOMAIN appendCalls', c.phase = "replied", c.success, c.src = L, c.dst = p,
             c.term = currentTerm'[L], c.last >= m
      PROVE  \/ Acked(L, p, m)
             \/ currentTerm'[p] = currentTerm'[L] /\ HasUpTo(log'[p], m, log'[L])
  <2>1. CASE c \in DOMAIN appendCalls
    BY <1>1, <1>3, <2>1 DEF Acked
  <2>2. ASSUME NEW b \in DOMAIN appendCalls, Answers(b, c)
        PROVE  currentTerm'[p] = currentTerm'[L] /\ HasUpTo(log'[p], m, log'[L])
    <3>1. AcceptEntries(b) /\ b.dst = p /\ b.term = c.term
      BY <1>3, <2>2 DEF Answers
    <3>2. currentTerm'[p] = currentTerm'[L]
      BY <1>1, <1>3, <3>1 DEF AcceptEntries, AdoptLeader, TypeOK
    <3>3. c.last \in Nat /\ c.last > 0
      <4>1. c \in Replied
        BY <1>1, <1>3 DEF TypeOK, Spawned, Sent
      <4>2. QED
        BY <1>3, <4>1 DEF Replied
    <3>4. Matched(L, p, c.last)'
      BY <1>1, <1>3, <3>3 DEF ReplyTrue
    <3>5. HasUpTo(log'[p], c.last, log'[L])
      BY <3>2, <3>4 DEF Matched, HasUpTo
    <3>6. Len(log'[p]) \in Nat /\ Len(log'[L]) \in Nat
      BY <1>1, LogType DEF TypeOK
    <3>7. QED
      BY <1>3, <3>2, <3>3, <3>5, <3>6 DEF HasUpTo
  <2>3. QED
    BY <1>1, <1>3, <2>1, <2>2, CallMoves DEF CallMoved, Spawns, Reads
<1>4. QED
    BY <1>2, <1>3 DEF Acked

\* A majority that went on to later terms without acknowledging never will.
LEMMA BlockedStays ==
    ASSUME MatchInv, [NodeStep]_vars, ~staleAck', NEW L \in Server, state[L] = Leader, state'[L] = Leader,
           NEW m \in Nat \ {0}, Blocked(L, m)
    PROVE  Blocked(L, m)'
<1>1. LogInv /\ currentTerm'[L] = currentTerm[L]
    BY LeaderLogGrows DEF MatchInv
<1>2. PICK quorum \in SUBSET Server :
         /\ Cardinality(quorum) >= Majority
         /\ \A p \in quorum : currentTerm[p] > currentTerm[L] /\ ~Acked(L, p, m)
    BY DEF Blocked
<1>3. ASSUME NEW p \in quorum PROVE currentTerm'[p] > currentTerm'[L] /\ ~Acked(L, p, m)'
  <2>1. /\ currentTerm[p] \in Nat /\ currentTerm'[p] \in Nat /\ currentTerm'[p] >= currentTerm[p]
        /\ currentTerm[L] \in Nat /\ currentTerm[p] > currentTerm[L] /\ p \in Server
    BY <1>1, <1>2, StepFacts
  <2>2. currentTerm'[p] > currentTerm'[L] /\ p # L
    BY <1>1, <2>1
  <2>3. ~(currentTerm'[p] = currentTerm'[L])
    BY <1>1, <2>1
  <2>4. ~Acked(L, p, m)'
    BY <1>2, <2>1, <2>2, <2>3, AckedMoves
  <2>5. QED
    BY <2>2, <2>4
<1>4. QED
    BY <1>2, <1>3 DEF Blocked

\* The winner of a later term that lacks the prefix got no vote of its guards.
LEMMA WinBlocks ==
    ASSUME MatchInv, [NodeStep]_vars, ~staleAck', NEW L \in Server, state[L] = Leader, state'[L] = Leader,
           NEW pre \in Prefix, TermOf(pre) = currentTerm[L],
           \A p \in Server : (p = L \/ Acked(L, p, Len(pre))) => Guard(pre, p),
           NEW e \in elections, Wins(e), e.term > TermOf(pre), ~Has(log[e.node], pre)
    PROVE  Blocked(L, Len(pre))'
<1>1. LogInv /\ TypeOK /\ VoteInv /\ e.node \in Server /\ e.term \in Nat /\ currentTerm' = currentTerm
    BY DEF MatchInv, LogInv, TypeInv, TypeOK, Election, Wins
<1>2. PICK Q \in SUBSET Server : Cardinality(Q) >= Majority /\ \A p \in Q : Ballot(p, e.node, e.term)
    BY <1>1, WinnerVoters
<1>3. ASSUME NEW p \in Q PROVE currentTerm'[p] > currentTerm'[L] /\ ~Acked(L, p, Len(pre))'
  <2>1. p \in Server /\ currentTerm[p] \in Nat /\ TermOf(pre) \in Nat /\ Len(pre) \in Nat \ {0}
    BY <1>1, <1>2, NodeTypes, PrefixType
  <2>2. Bound(p, e.node, e.term)
    BY <1>1, <1>2, <2>1 DEF VoteInv, BallotsBind
  <2>3. currentTerm[p] >= e.term
    BY <1>1, <2>1, <2>2 DEF Bound
  <2>4. currentTerm'[p] > currentTerm'[L] /\ ~(currentTerm'[p] = currentTerm'[L]) /\ p # L
    BY <1>1, <2>1, <2>3
  <2>5. ~Guard(pre, p)
    BY <1>1, <1>2, <2>1 DEF Guard
  <2>6. ~Acked(L, p, Len(pre))
    BY <2>1, <2>5
  <2>7. QED
    BY <2>1, <2>4, <2>6, AckedMoves
<1>4. QED
    BY <1>2, <1>3 DEF Blocked

\* Every entry on its way or in a log is of a winner's term.
EntriesWon ==
    /\ \A j \in Server : \A n \in 1..Len(log[j]) : \E w \in winners : w.term = log[j][n].term
    /\ \A c \in SentCalls : \A k \in 1..Len(c.entries) : \E w \in winners : w.term = c.entries[k].term

\* Links are of winners' terms, hence entries are.
LEMMA EntriesWonNow == LogInv => EntriesWon
<1> SUFFICES ASSUME LogInv PROVE EntriesWon
    OBVIOUS
<1>1. ASSUME NEW c \in SentCalls, NEW k \in 1..Len(c.entries)
      PROVE  \E w \in winners : w.term = c.entries[k].term
  <2> DEFINE l == Link(c.prev + k, c.entries[k], IF k = 1 THEN c.prevTerm ELSE c.entries[k - 1].term)
  <2>1. l \in CallLinks(c)
    BY DEF CallLinks
  <2>2. l \in Links /\ l.entry = c.entries[k]
    BY <2>1 DEF Links, Link
  <2>3. QED
    BY <2>2 DEF LogInv, LinksSound
<1>2. QED
    BY <1>1, EntryFacts DEF EntriesWon

\* And after a step.
LEMMA EntriesWonNext == LogInv /\ [NodeStep]_vars => EntriesWon'
    BY EntriesWonNow, LogStep, PTL

\* A command that a leader adds to its log makes a firm prefix, unless a later term
\* has its winner already; nobody has acknowledged it yet.
LEMMA ProposalGuarded ==
    ASSUME AckInv, [NodeStep]_vars, ~staleAck, NEW L \in Server, NEW cmd \in Command, Propose(L, cmd),
           NEW pre \in Prefix, Has(log'[L], pre), ~Has(log[L], pre), TermOf(pre) = currentTerm[L]
    PROVE  \/ Blocked(L, Len(pre))'
           \/ Firm(pre)' /\ \A p \in Server : (p = L \/ Acked(L, p, Len(pre))') => Guard(pre, p)'
<1> DEFINE t == TermOf(pre)
           m == Len(pre)
<1>1. /\ MatchInv /\ LogInv /\ VoteInv /\ TypeOK /\ TypeOK' /\ LogInv' /\ VoteInv'
      /\ state[L] = Leader
    BY StepFacts, LogStep DEF AckInv, MatchInv, LogInv, Propose
<1>2. /\ pre \in Seq(Entry) /\ t \in Nat /\ m \in Nat \ {0} /\ m \in 1..m
      /\ log[L] \in Seq(Entry) /\ Len(log[L]) \in Nat
    BY <1>1, PrefixType, NodeTypes
<1>3. Len(log'[L]) = Len(log[L]) + 1 /\ \A k \in 1..Len(log[L]) : log'[L][k] = log[L][k]
    BY <1>1, ProposeLinks
<1>4. m = Len(log[L]) + 1 /\ m <= Len(log'[L]) /\ \A k \in 1..m : log'[L][k] = pre[k]
  <2>1. m <= Len(log'[L]) /\ \A k \in 1..m : log'[L][k] = pre[k]
    BY DEF Has, HasUpTo
  <2>2. ASSUME m <= Len(log[L]) PROVE FALSE
    <3>1. \A k \in 1..m : k \in 1..Len(log[L])
      BY <1>2, <2>2
    <3>2. \A k \in 1..m : log[L][k] = pre[k]
      BY <1>3, <2>1, <3>1
    <3>3. QED
      BY <1>2, <2>2, <3>2 DEF Has, HasUpTo
  <2>3. QED
    BY <1>2, <1>3, <2>1, <2>2
<1>5. UNCHANGED <<currentTerm, state, matchIndex, winners, voteRequests, appendCalls, staleAck>>
    BY DEF Propose, nodeVars, leaderVars, voteVars
<1>6. ASSUME NEW p \in Server, p # L PROVE ~Acked(L, p, m) /\ ~Acked(L, p, m)'
  <2>1. ASSUME Acked(L, p, m) PROVE FALSE
    <3>1. CASE matchIndex[L][p] >= m
      <4>1. matchIndex[L][p] \in Nat
        BY <1>1, <1>6, NodeTypes
      <4>2. matchIndex[L][p] > 0
        BY <1>2, <3>1, <4>1
      <4>3. matchIndex[L][p] <= Len(log[L])
        BY <1>1, <1>6, <4>2 DEF MatchInv, MatchTrue, Peers, Matched
      <4>4. QED
        BY <1>2, <1>4, <3>1, <4>1, <4>3
    <3>2. ASSUME NEW c \in DOMAIN appendCalls, c.phase = "replied", c.success, c.src = L, c.dst = p,
                 c.term = currentTerm[L], c.last >= m
          PROVE  FALSE
      <4>1. c.last \in Nat
        BY <1>1, <3>2, CallType
      <4>2. c.last > 0
        BY <1>2, <3>2, <4>1
      <4>3. c.last <= Len(log[L])
        BY <1>1, <3>2, <4>2 DEF MatchInv, ReplyTrue, Matched
      <4>4. QED
        BY <1>2, <1>4, <3>2, <4>1, <4>3
    <3>3. QED
      BY <2>1, <3>1, <3>2 DEF Acked
  <2>2. QED
    BY <1>5, <2>1 DEF Acked
<1>7. t >= 1 /\ [node |-> L, term |-> t] \in winners
    BY <1>1 DEF LogInv, WinnersLead, VoteInv, ElectionSafety
<1> HIDE DEF t, m
<1>8. ASSUME NEW w \in winners, w.term > t PROVE Blocked(L, m)'
  <2>1. PICK quorum \in SUBSET Server : BackedBy(quorum, w.node, w.term)
    BY <1>1 DEF VoteInv, WinnersBacked
  <2>2. w.term \in Nat
    BY <1>1 DEF TypeOK
  <2>3. ASSUME NEW p \in quorum PROVE currentTerm'[p] > currentTerm'[L] /\ ~Acked(L, p, m)'
    <3>1. Bound(p, w.node, w.term) /\ p \in Server /\ currentTerm[p] \in Nat
      BY <1>1, <2>1, NodeTypes DEF BackedBy
    <3>2. currentTerm[p] >= w.term
      BY <2>2, <3>1 DEF Bound
    <3>3. currentTerm[p] > currentTerm[L] /\ p # L
      BY <1>2, <1>8, <2>2, <3>1, <3>2 DEF t
    <3>4. QED
      BY <1>5, <1>6, <3>1, <3>3
  <2>4. QED
    BY <2>1, <2>3 DEF Blocked, BackedBy
<1>9. ASSUME \A w \in winners : ~(w.term > t) PROVE Firm(pre)'
  <2>1. Anchored(pre)'
    <3>1. currentTerm'[L] >= TermOf(pre)
      BY <1>2, <1>5 DEF t
    <3>2. QED
      BY <3>1 DEF Anchored, Has, HasUpTo, TermOf
  <2>2. LaterLogs(pre)'
    BY <1>1, <1>5, <1>9, EntriesWonNext DEF LaterLogs, EntriesWon, TermOf, t
  <2>3. LaterCalls(pre)'
    BY <1>1, <1>5, <1>9, EntriesWonNext DEF LaterCalls, EntriesWon, TermOf, t
  <2>4. \A w \in winners : w.term >= t => w.node = L
    <3>1. \A w \in winners : w.term \in Nat
      BY <1>1 DEF TypeOK
    <3>2. QED
      BY <1>1, <1>2, <1>7, <1>9, <3>1 DEF VoteInv, ElectionSafety
  <2>5. CallsKeep(pre)'
    <3>1. SUFFICES ASSUME NEW c \in SentCalls, c.term >= t PROVE KeepsUpTo(c.prev, c.entries, m, pre)
      BY <1>5 DEF CallsKeep, SentCalls, KeepsUpTo, TermOf, t, m
    <3>2. c \in DOMAIN appendCalls /\ c.phase = "sent"
      BY DEF SentCalls
    <3>3. [node |-> c.src, term |-> c.term] \in winners
      BY <1>1, <3>2 DEF LogInv, CallsOfWinners
    <3>4. c.src = L /\ c.term = currentTerm[L] /\ c.term \in Nat
      BY <1>1, <1>2, <1>9, <2>4, <3>1, <3>2, <3>3, CallType DEF t
    <3>5. c.entries = <<>> \/ PartOf(c, log[L])
      BY <1>1, <3>4 DEF MatchInv, CallFromLeader
    <3>6. c.prev \in Nat /\ Len(c.entries) \in Nat
      BY <1>1, <3>2, CallType, LogType
    <3>7. ASSUME NEW k \in 1..Len(c.entries), PartOf(c, log[L]), c.prev + k <= m
          PROVE  c.entries[k] = pre[c.prev + k]
      <4>1. c.entries[k] = log[L][c.prev + k] /\ c.prev + k \in 1..Len(log[L]) /\ c.prev + k \in 1..m
        <5>1. c.prev + Len(c.entries) <= Len(log[L]) /\ c.entries[k] = log[L][c.prev + k]
          BY <3>7 DEF PartOf
        <5>2. \A a, b, z \in Nat : a + b <= z => \A x \in 1..b : a + x \in 1..z
          OBVIOUS
        <5>3. c.prev + k \in 1..Len(log[L])
          BY <1>2, <3>6, <5>1, <5>2
        <5>4. QED
          BY <1>2, <3>6, <3>7, <5>1, <5>3
      <4>2. QED
        BY <1>3, <1>4, <4>1
    <3>8. QED
      BY <3>5, <3>7 DEF KeepsUpTo
  <2>6. WinnersHave(pre)'
    BY <1>5, <2>4 DEF WinnersHave, Has, HasUpTo, TermOf, t
  <2>7. RequestsHave(pre)'
    <3>1. ASSUME NEW r \in voteRequests,
                 \/ r.lastLogTerm > t
                 \/ r.lastLogTerm = t /\ r.lastLogIndex >= m
          PROVE  FALSE
      <4>1. r.lastLogTerm \in Nat /\ r.lastLogIndex \in Nat
        BY <1>1 DEF TypeOK, VoteRequest
      <4>2. r.lastLogTerm # 0
        BY <1>2, <1>7, <3>1, <4>1
      <4>3. PICK w \in winners : /\ w.term = r.lastLogTerm
                                 /\ (currentTerm[w.node] = w.term) => (r.lastLogIndex <= Len(log[w.node]))
        BY <4>2 DEF AckInv, RequestsKnown
      <4>4. w.term = t /\ w.node = L
        BY <1>2, <1>9, <2>4, <3>1, <4>1, <4>3
      <4>5. r.lastLogIndex <= Len(log[L]) /\ r.lastLogIndex >= m
        BY <1>2, <1>9, <3>1, <4>1, <4>3, <4>4 DEF t
      <4>6. QED
        BY <1>2, <1>4, <4>1, <4>5
    <3>2. QED
      BY <1>5, <3>1 DEF RequestsHave, Has, HasUpTo, TermOf, t, m
  <2>8. QED
    BY <2>1, <2>2, <2>3, <2>5, <2>6, <2>7 DEF Firm
<1>10. Guard(pre, L)'
    BY <1>1, <1>5, GuardInTerm
<1>11. QED
    BY <1>6, <1>8, <1>9, <1>10 DEF m

\* What a leader appends is guarded by the leader; whoever acknowledges it becomes a
\* guard; and a winner of a later term that lacks it shows that it is blocked.
LEMMA AcksGuardStep ==
    ASSUME AckInv, [NodeStep]_vars
    PROVE  AcksGuard'
<1>1. MatchInv /\ LogInv /\ TypeOK /\ TypeOK' /\ VoteInv' /\ RequestsKnown /\ AcksGuard
    BY StepFacts DEF AckInv, MatchInv
<1>2. SUFFICES ASSUME ~staleAck', NEW L \in Server, state'[L] = Leader, NEW pre \in Prefix,
                      Has(log'[L], pre), TermOf(pre) = currentTerm'[L]
               PROVE  \/ Blocked(L, Len(pre))'
                      \/ Firm(pre)' /\ \A p \in Server : (p = L \/ Acked(L, p, Len(pre))') => Guard(pre, p)'
    BY DEF AcksGuard, Has, HasUpTo, TermOf, Blocked, Firm, Acked, Guard
<1>3. ~staleAck
    BY <1>1, <1>2, MatchMoves
<1>4. Len(pre) \in Nat \ {0} /\ TermOf(pre) \in Nat /\ pre \in Seq(Entry)
    BY PrefixType
<1>5. ASSUME NEW e \in elections, Wins(e), e.node = L PROVE FALSE
  <2>1. log' = log /\ currentTerm' = currentTerm /\ currentTerm[L] = e.term
    BY <1>5 DEF Wins
  <2>2. log[L] \in Seq(Entry)
    BY <1>1, NodeTypes
  <2>3. LogLinks(pre) \subseteq Links
    BY <1>2, <2>1, <2>2, LinksOfPrefix, LinksOfLog
  <2>4. PICK h \in LogLinks(pre) : h.entry = pre[Len(pre)]
    BY PrefixType, LinkIn
  <2>5. h \in Links /\ h.entry.term = e.term
    BY <1>2, <2>1, <2>3, <2>4 DEF TermOf
  <2>6. QED
    BY <1>1, <1>5, <2>5, WinnerFindsNone
<1>6. state[L] = Leader
    BY <1>1, <1>2, <1>5, LeadsSince
<1>7. currentTerm'[L] = currentTerm[L]
    BY <1>1, <1>2, <1>6, LeaderLogGrows
<1>8. CASE Has(log[L], pre)
  <2>1. CASE Blocked(L, Len(pre))
    BY <1>1, <1>2, <1>4, <1>6, <2>1, BlockedStays
  <2>2. ASSUME Firm(pre), \A p \in Server : (p = L \/ Acked(L, p, Len(pre))) => Guard(pre, p)
        PROVE  \/ Blocked(L, Len(pre))'
               \/ Firm(pre)' /\ \A p \in Server : (p = L \/ Acked(L, p, Len(pre))') => Guard(pre, p)'
    <3>1. ASSUME NEW e \in elections, Wins(e), e.term > TermOf(pre), ~Has(log[e.node], pre)
          PROVE  Blocked(L, Len(pre))'
      BY <1>1, <1>2, <1>6, <1>7, <2>2, <3>1, WinBlocks
    <3>2. ASSUME \A e \in elections : (Wins(e) /\ e.term > TermOf(pre)) => Has(log[e.node], pre)
          PROVE  Firm(pre)'
      BY <1>1, <2>2, <3>2, FirmStep
    <3>3. ASSUME NEW p \in Server, p = L \/ Acked(L, p, Len(pre))'
          PROVE  Guard(pre, p)'
      <4>1. CASE p = L \/ Acked(L, p, Len(pre))
        BY <1>1, <2>2, <4>1, GuardStep
      <4>2. CASE p # L /\ currentTerm'[p] = currentTerm'[L] /\ HasUpTo(log'[p], Len(pre), log'[L])
        <5>1. Has(log'[p], pre)
          BY <1>2, <1>4, <4>2 DEF Has, HasUpTo
        <5>2. QED
          BY <1>1, <1>2, <4>2, <5>1, GuardInTerm
      <4>3. QED
        BY <1>1, <1>2, <1>4, <1>6, <3>3, <4>1, <4>2, AckedMoves
    <3>4. QED
      BY <3>1, <3>2, <3>3
  <2>3. QED
    BY <1>1, <1>2, <1>3, <1>6, <1>7, <1>8, <2>1, <2>2 DEF AcksGuard
<1>9. CASE ~Has(log[L], pre)
  <2>1. PICK cmd \in Command : Propose(L, cmd)
    BY <1>1, <1>2, <1>6, <1>9, LeaderLogKept
  <2>2. QED
    BY <1>2, <1>3, <1>7, <1>9, <2>1, ProposalGuarded
<1>10. QED
    BY <1>8, <1>9

\* The invariant of acknowledgements holds at the start.
LEMMA AckInit == Init => AckInv
<1> SUFFICES ASSUME Init PROVE AckInv
    OBVIOUS
<1>1. voteRequests = {} /\ \A i \in Server : state[i] # Leader
    BY DEF Init, Follower, Leader
<1>2. QED
    BY <1>1, MatchInit DEF AckInv, RequestsKnown, AcksGuard

\* Every step keeps the invariant of acknowledgements.
LEMMA AckStep == AckInv /\ [NodeStep]_vars => AckInv'
    BY MatchStep, RequestsKnownStep, AcksGuardStep DEF AckInv, MatchInv

-----------------------------------------------------------------------------
(***************************************************************************)
(* Commitment.                                                             *)
(***************************************************************************)
\* A node follows a call's commit index.
Follows(c) ==
    /\ c \in DOMAIN appendCalls /\ AcceptEntries(c) /\ c.commit > commitIndex[c.dst]
    /\ commitIndex' = [commitIndex EXCEPT ![c.dst] = Smaller(c.commit, c.prev + Len(c.entries))]
    /\ NotifyApplier(c.dst, log'[c.dst], Smaller(c.commit, c.prev + Len(c.entries)))

\* A leader commits, counting the answer c.
Answered(c) == [matchIndex[c.src] EXCEPT ![c.dst] = c.last]

Commits(c) ==
    /\ Acks(c) /\ CommittableAt(c.src, Answered(c)) # {}
    /\ commitIndex' = [commitIndex EXCEPT ![c.src] = Max(CommittableAt(c.src, Answered(c)))]
    /\ NotifyApplier(c.src, log[c.src], Max(CommittableAt(c.src, Answered(c))))

\* A commit index changes when a node follows a call's or a leader counts an answer.
LEMMA CommitMoves ==
    ASSUME TypeOK, [NodeStep]_vars
    PROVE  \/ UNCHANGED commitIndex
           \/ \E c \in DOMAIN appendCalls : Follows(c) \/ Commits(c)
<1>1. CASE ElectionStep
    BY <1>1 DEF ElectionStep, StartElection, HandleRequestVote, HandleVoteReply, VoteCallFails,
                TallyVotes, logVars
<1>2. CASE ReplicationStep
  <2>1. ASSUME NEW i \in Server, SendHeartbeats(i) PROVE UNCHANGED commitIndex
    BY <2>1 DEF SendHeartbeats, logVars
  <2>2. ASSUME NEW i \in Server, NEW cmd \in Command, Propose(i, cmd) PROVE UNCHANGED commitIndex
    BY <2>2 DEF Propose
  <2>3. ASSUME NEW c \in DOMAIN appendCalls,
               ReadLog(c) \/ RejectAppend(c) \/ RefuseEntries(c) \/ AppendCallFails(c)
        PROVE  UNCHANGED commitIndex
    BY <2>3 DEF ReadLog, RejectAppend, RefuseEntries, AppendCallFails, logVars
  <2>4. ASSUME NEW c \in DOMAIN appendCalls, AcceptEntries(c) PROVE (UNCHANGED commitIndex) \/ Follows(c)
    <3>1. CASE UNCHANGED commitIndex
      BY <3>1
    <3>2. CASE ~UNCHANGED commitIndex
      <4>1. log'[c.dst] = Merge(log[c.dst], c.prev, c.entries)
        BY <2>4, CallType DEF AcceptEntries, TypeOK
      <4>2. QED
        BY <2>4, <3>2, <4>1 DEF AcceptEntries, Follows, LeaderIsAhead
    <3>3. QED
      BY <3>1, <3>2
  <2>5. ASSUME NEW c \in DOMAIN appendCalls, HandleAppendReply(c) PROVE (UNCHANGED commitIndex) \/ Commits(c)
    <3>1. (UNCHANGED commitIndex) \/ Acks(c)
      BY <2>5 DEF HandleAppendReply, Acks, nodeVars
    <3>2. ASSUME Acks(c), ~UNCHANGED commitIndex PROVE Commits(c)
      BY <3>2 DEF Acks, UpdateCommitIndex, Commits, Answered
    <3>3. QED
      BY <3>1, <3>2
  <2>6. QED
    BY <1>2, <2>1, <2>2, <2>3, <2>4, <2>5 DEF ReplicationStep, HandleAppendEntries
<1>3. CASE ApplyStep
    BY <1>3 DEF ApplyStep, TakeEntry, RecordApplied, logVars
<1>4. CASE UNCHANGED vars
    BY <1>4 DEF vars, logVars
<1>5. QED
    BY <1>1, <1>2, <1>3, <1>4 DEF NodeStep

\* What a leader can commit when it counts an answer of its own term ends with an
\* entry of its term, and is durable.
LEMMA CommittableIsDurable ==
    ASSUME AckInv, ~staleAck, NEW c \in DOMAIN appendCalls, c.phase = "replied", c.success,
           c.term = currentTerm[c.src], NEW n \in CommittableAt(c.src, Answered(c))
    PROVE  \E pre \in Prefix : /\ Durable(pre) /\ Len(pre) = n /\ Has(log[c.src], pre)
                               /\ TermOf(pre) = currentTerm[c.src]
<1> DEFINE L == c.src
           P == {p \in Peers(L) : Answered(c)[p] >= n}
           Q == P \cup {L}
           pre == SubSeq(log[L], 1, n)
<1>1. TypeOK /\ LogInv /\ AcksGuard
    BY DEF AckInv, MatchInv, LogInv, TypeInv
<1>2. L \in Server /\ c.dst \in Server /\ c.last \in Nat /\ c.term \in Nat
    BY <1>1, CallType
<1>3. /\ log[L] \in Seq(Entry) /\ Len(log[L]) \in Nat /\ commitIndex[L] \in Nat
      /\ matchIndex[L] \in [Server -> Nat] /\ currentTerm[L] \in Nat
    BY <1>1, <1>2, NodeTypes
<1>4. state[L] = Leader
  <2>1. [node |-> L, term |-> c.term] \in winners
    BY <1>1 DEF LogInv, CallsOfWinners
  <2>2. QED
    BY <1>1, <2>1 DEF LogInv, WinnersLead
<1>5. /\ n \in (commitIndex[L] + 1)..Len(log[L]) /\ log[L][n].term = currentTerm[L]
      /\ Cardinality(P) + 1 >= Majority
    BY DEF CommittableAt
<1>6. n \in Nat \ {0} /\ n <= Len(log[L])
    BY <1>3, <1>5
<1>7. pre \in Prefix /\ Len(pre) = n /\ Has(log[L], pre) /\ TermOf(pre) = currentTerm[L]
  <2>1. pre \in Seq(Entry) /\ Len(pre) = n /\ \A k \in 1..n : pre[k] = log[L][k]
    <3>1. 1 \in Nat \ {0} /\ n \in Nat /\ n <= Len(log[L])
      BY <1>6
    <3>2. /\ pre \in Seq(Entry)
          /\ Len(pre) = IF 1 <= n THEN n - 1 + 1 ELSE 0
          /\ \A k \in 1..(n - 1 + 1) : pre[k] = log[L][1 + k - 1]
      BY <1>3, <3>1, PartOfLog
    <3> HIDE DEF pre, L
    <3>3. n - 1 + 1 = n /\ \A k \in 1..n : 1 + k - 1 = k
      BY <1>6
    <3>4. QED
      BY <1>6, <3>2, <3>3
  <2>2. pre # <<>>
    BY <1>6, <2>1, EmptySeq
  <2> HIDE DEF pre, L
  <2>3. n \in 1..n
    BY <1>6
  <2>4. QED
    BY <1>5, <1>6, <2>1, <2>2, <2>3 DEF Prefix, Has, HasUpTo, TermOf
<1>8. \A p \in Q : p \in Server /\ (p = L \/ Acked(L, p, n))
  <2>1. ASSUME NEW p \in P PROVE p \in Server /\ p # L /\ Acked(L, p, n)
    <3>1. p \in Server /\ p # L /\ Answered(c)[p] >= n
      BY DEF Peers
    <3>2. Answered(c)[p] = IF p = c.dst THEN c.last ELSE matchIndex[L][p]
      BY <1>2, <1>3, <3>1 DEF Answered
    <3>3. QED
      BY <3>1, <3>2 DEF Acked
  <2>2. QED
    BY <1>2, <2>1
<1>9. Q \in SUBSET Server /\ Cardinality(Q) >= Majority
  <2>1. P \in SUBSET Server /\ L \notin P
    BY DEF Peers
  <2>2. IsFiniteSet(P)
    BY <2>1, ServerAssumption, FS_Subset
  <2>3. Cardinality(Q) = Cardinality(P) + 1
    BY <2>1, <2>2, FS_AddElement
  <2>4. QED
    BY <1>2, <1>5, <2>1, <2>3
<1> HIDE DEF pre, Q, P
<1>10. ~Blocked(L, n)
  <2>1. SUFFICES ASSUME Blocked(L, n) PROVE FALSE
    OBVIOUS
  <2>2. PICK quorum \in SUBSET Server :
           /\ Cardinality(quorum) >= Majority
           /\ \A p \in quorum : currentTerm[p] > currentTerm[L] /\ ~Acked(L, p, n)
    BY <2>1 DEF Blocked
  <2>3. PICK p \in Q : p \in quorum
    BY <1>9, <2>2, MajoritiesMeet
  <2>4. p = L
    BY <1>8, <2>2, <2>3
  <2>5. QED
    BY <1>3, <2>2, <2>3, <2>4
<1>11. Firm(pre) /\ \A p \in Server : (p = L \/ Acked(L, p, n)) => Guard(pre, p)
    BY <1>1, <1>2, <1>4, <1>7, <1>10 DEF AcksGuard
<1>12. Durable(pre)
    BY <1>8, <1>9, <1>11 DEF Durable, GuardedBy
<1>13. QED
    BY <1>7, <1>12

\* What a node has committed begins a durable prefix of a term it has reached.
CommitsDurable ==
    ~staleAck => \A i \in Server : commitIndex[i] > 0 =>
        \E pre \in Prefix : /\ Durable(pre) /\ TermOf(pre) <= currentTerm[i]
                            /\ commitIndex[i] <= Len(pre) /\ HasUpTo(log[i], commitIndex[i], pre)

\* So does the commit index of a call, and the call reaches the prefix's end, unless
\* it will be refused because its sender had no entry at prev.
CallsDurable ==
    ~staleAck => \A c \in DOMAIN appendCalls : (c.phase \in {"spawned", "sent"} /\ c.commit > 0) =>
        \E pre \in Prefix : /\ Durable(pre) /\ TermOf(pre) <= c.term /\ c.commit <= Len(pre)
                            /\ (c.phase = "sent" /\ (c.prev = 0 \/ c.prevTerm # 0)) => Reaches(c, pre)

\* What is queued or applied is committed, as it stands in the log.
Elements(s) == {s[k] : k \in 1..Len(s)}
Held(i)     == Elements(applyC[i]) \cup Elements(applied[i])

HeldCommitted ==
    ~staleAck => \A i \in Server : \A en \in Held(i) :
        en.index \in 1..commitIndex[i] /\ log[i][en.index] = en

CommitInv == AckInv /\ CommitsDurable /\ CallsDurable /\ HeldCommitted

\* A node that follows a call's commit index has the durable prefix behind it, and
\* the smaller of the two numbers it compares is that commit index.
LEMMA FollowerCommits ==
    ASSUME CommitInv, [NodeStep]_vars, ~staleAck, NEW c \in DOMAIN appendCalls, AcceptEntries(c), c.commit > 0
    PROVE  /\ c.commit <= c.prev + Len(c.entries)
           /\ \E pre \in Prefix : /\ Durable(pre) /\ TermOf(pre) <= c.term /\ c.commit <= Len(pre)
                                  /\ Has(log'[c.dst], pre)
<1>1. LogInv /\ TypeOK
    BY DEF CommitInv, AckInv, MatchInv, LogInv, TypeInv
<1>2. /\ c \in SentCalls /\ c.phase = "sent" /\ c.prev <= Len(log[c.dst])
      /\ c.prevTerm = TermAt(log[c.dst], c.prev)
    BY <1>1, AcceptLinks DEF LogInv, SentCalls
<1>3. /\ c.prev \in Nat /\ c.entries \in Seq(Entry) /\ Len(c.entries) \in Nat /\ c.commit \in Nat
      /\ c.dst \in Server /\ log[c.dst] \in Seq(Entry) /\ Len(log[c.dst]) \in Nat
    BY <1>1, <1>2, CallType, LogType, NodeTypes
<1>4. c.prev = 0 \/ c.prevTerm # 0
  <2>1. ASSUME c.prev # 0 PROVE c.prevTerm # 0
    <3>1. c.prev \in 1..Len(log[c.dst])
      BY <1>2, <1>3, <2>1
    <3>2. log[c.dst][c.prev].term >= 1
      BY <1>1, <1>3, <3>1, EntryFacts
    <3>3. QED
      BY <1>2, <1>3, <3>1, <3>2, LogType
  <2>2. QED
    BY <2>1
<1>5. PICK pre \in Prefix : /\ Durable(pre) /\ TermOf(pre) <= c.term /\ c.commit <= Len(pre)
                            /\ Reaches(c, pre)
    BY <1>2, <1>4 DEF CommitInv, CallsDurable
<1>6. Has(log'[c.dst], pre)
    BY <1>1, <1>5, AcceptMeets DEF Durable, Firm
<1>7. c.commit <= c.prev + Len(c.entries)
  <2>1. Len(pre) \in Nat
    BY PrefixType
  <2>2. c.prev < Len(pre) => Len(pre) <= c.prev + Len(c.entries)
    BY <1>5 DEF Reaches
  <2>3. QED
    BY <1>3, <1>5, <2>1, <2>2
<1>8. QED
    BY <1>5, <1>6, <1>7

\* What a node has of a durable prefix of a term it has reached, it keeps.
LEMMA BackedStays ==
    ASSUME LogInv, [NodeStep]_vars, NEW pre \in Prefix, Durable(pre), NEW i \in Server,
           TermOf(pre) <= currentTerm[i], NEW n \in Nat, n <= Len(pre), HasUpTo(log[i], n, pre)
    PROVE  Durable(pre)' /\ TermOf(pre) <= currentTerm'[i] /\ HasUpTo(log'[i], n, pre)
<1>1. TermOf(pre) \in Nat /\ CallsKeep(pre)
    BY PrefixType DEF Durable, Firm
<1>2. currentTerm[i] \in Nat /\ currentTerm'[i] \in Nat /\ currentTerm'[i] >= currentTerm[i]
    BY StepFacts
<1>3. currentTerm[i] >= TermOf(pre) /\ TermOf(pre) <= currentTerm'[i]
    BY <1>1, <1>2
<1>4. QED
    BY <1>1, <1>3, DurableStep, PartKept

\* A leader commits what a majority guards; a follower follows a durable prefix that it
\* has once it has accepted the call's entries.
LEMMA CommitsDurableStep ==
    ASSUME CommitInv, [NodeStep]_vars
    PROVE  CommitsDurable'
<1>1. AckInv /\ LogInv /\ TypeOK /\ TypeOK' /\ CommitsDurable
    BY StepFacts DEF CommitInv, AckInv, MatchInv
<1>2. SUFFICES ASSUME ~staleAck', NEW i \in Server, NEW n \in Nat, n = commitIndex'[i], n > 0
               PROVE  \E pre \in Prefix : /\ Durable(pre)' /\ TermOf(pre) <= currentTerm'[i]
                                          /\ n <= Len(pre) /\ HasUpTo(log'[i], n, pre)
  <2>1. \A j \in Server : commitIndex'[j] \in Nat
    BY <1>1 DEF TypeOK
  <2>2. QED
    BY <2>1 DEF CommitsDurable, HasUpTo, TermOf, Prefix, Entry
<1>3. ~staleAck
    BY <1>1, <1>2, MatchMoves
<1>4. CASE commitIndex'[i] = commitIndex[i]
  <2>1. PICK pre \in Prefix : /\ Durable(pre) /\ TermOf(pre) <= currentTerm[i]
                              /\ n <= Len(pre) /\ HasUpTo(log[i], n, pre)
    BY <1>1, <1>2, <1>3, <1>4 DEF CommitsDurable
  <2>2. QED
    BY <1>1, <2>1, BackedStays
<1>5. ASSUME NEW c \in DOMAIN appendCalls, Follows(c), c.dst = i
      PROVE  \E pre \in Prefix : /\ Durable(pre)' /\ TermOf(pre) <= currentTerm'[i]
                                 /\ n <= Len(pre) /\ HasUpTo(log'[i], n, pre)
  <2>1. /\ AcceptEntries(c) /\ c.commit > commitIndex[i]
        /\ commitIndex' = [commitIndex EXCEPT ![i] = Smaller(c.commit, c.prev + Len(c.entries))]
    BY <1>5 DEF Follows
  <2>2. c.phase = "sent" /\ currentTerm'[i] = c.term
    BY <1>1, <1>5, <2>1 DEF AcceptEntries, AdoptLeader, TypeOK
  <2>3. c.commit \in Nat /\ c.prev \in Nat /\ Len(c.entries) \in Nat /\ commitIndex[i] \in Nat
    BY <1>1, <2>2, CallType, LogType, NodeTypes
  <2>4. c.commit > 0
    BY <2>1, <2>3
  <2>5. PICK pre \in Prefix : /\ Durable(pre) /\ TermOf(pre) <= c.term /\ c.commit <= Len(pre)
                              /\ Has(log'[i], pre)
    BY <1>3, <1>5, <2>1, <2>4, FollowerCommits
  <2>6. c.commit <= c.prev + Len(c.entries)
    BY <1>3, <1>5, <2>1, <2>4, FollowerCommits
  <2>7. n = c.commit
    <3>1. n = Smaller(c.commit, c.prev + Len(c.entries))
      BY <1>1, <1>2, <2>1 DEF TypeOK
    <3>2. \A a, b \in Nat : a <= b => Smaller(a, b) = a
      BY DEF Smaller
    <3>3. c.prev + Len(c.entries) \in Nat
      BY <2>3
    <3>4. QED
      BY <2>3, <2>6, <3>1, <3>2, <3>3
  <2>8. HasUpTo(log'[i], n, pre)
    <3>1. log'[i] \in Seq(Entry) /\ Len(log'[i]) \in Nat /\ Len(pre) \in Nat
      BY <1>1, LogType, PrefixType DEF TypeOK
    <3>2. QED
      BY <2>5, <2>7, <3>1 DEF Has, HasUpTo
  <2>9. Durable(pre)'
    BY <1>1, <2>5, DurableStep
  <2>10. QED
    BY <2>2, <2>5, <2>7, <2>8, <2>9
<1>6. ASSUME NEW c \in DOMAIN appendCalls, Commits(c), c.src = i
      PROVE  \E pre \in Prefix : /\ Durable(pre)' /\ TermOf(pre) <= currentTerm'[i]
                                 /\ n <= Len(pre) /\ HasUpTo(log'[i], n, pre)
  <2> DEFINE can == CommittableAt(i, Answered(c))
  <2>1. /\ c.phase = "replied" /\ c.success /\ c.term = currentTerm[i]
        /\ can # {} /\ commitIndex' = [commitIndex EXCEPT ![i] = Max(can)]
    BY <1>2, <1>6 DEF Commits, Acks
  <2>2. can \in SUBSET Nat /\ \A x \in can : x <= Len(log[i])
    BY <1>1, NodeTypes DEF CommittableAt
  <2>3. \A x \in can : \E pre \in Prefix : /\ Durable(pre) /\ Len(pre) = x /\ Has(log[i], pre)
                                           /\ TermOf(pre) = currentTerm[i]
    BY <1>1, <1>3, <1>6, <2>1, CommittableIsDurable
  <2> HIDE DEF can
  <2>4. n = Max(can)
    BY <1>1, <1>2, <2>1 DEF TypeOK
  <2>5. n \in can
    <3>1. PICK z \in can : TRUE
      BY <2>1
    <3>2. Len(log[i]) \in Nat
      BY <1>1, NodeTypes
    <3>3. Max(can) \in can
      BY <2>2, <3>1, <3>2, MaxOfNats
    <3>4. QED
      BY <2>4, <3>3
  <2>6. PICK pre \in Prefix : /\ Durable(pre) /\ Len(pre) = n /\ Has(log[i], pre)
                              /\ TermOf(pre) = currentTerm[i]
    BY <2>3, <2>5
  <2>7. TermOf(pre) <= currentTerm[i] /\ n <= Len(pre)
    BY <1>1, <2>6, NodeTypes
  <2>8. HasUpTo(log[i], n, pre)
    BY <2>6 DEF Has
  <2>9. QED
    BY <1>1, <2>6, <2>7, <2>8, BackedStays
<1>7. \/ commitIndex'[i] = commitIndex[i]
      \/ \E c \in DOMAIN appendCalls : Follows(c) /\ c.dst = i
      \/ \E c \in DOMAIN appendCalls : Commits(c) /\ c.src = i
  <2>1. ASSUME NEW c \in DOMAIN appendCalls, Follows(c), c.dst # i PROVE commitIndex'[i] = commitIndex[i]
    BY <1>1, <2>1 DEF Follows, TypeOK
  <2>2. ASSUME NEW c \in DOMAIN appendCalls, Commits(c), c.src # i PROVE commitIndex'[i] = commitIndex[i]
    BY <1>1, <2>2 DEF Commits, TypeOK
  <2>3. QED
    BY <1>1, <2>1, <2>2, CommitMoves
<1>8. QED
    BY <1>4, <1>5, <1>6, <1>7

\* A call carries the commit index that its sender had.
LEMMA CallsDurableStep ==
    ASSUME CommitInv, [NodeStep]_vars
    PROVE  CallsDurable'
<1>1. /\ LogInv /\ TypeInv /\ TypeOK /\ CommitsDurable /\ CallsDurable
    BY StepFacts DEF CommitInv, AckInv, MatchInv, LogInv
<1>2. SUFFICES ASSUME ~staleAck', NEW c \in DOMAIN appendCalls', c.phase \in {"spawned", "sent"},
                      c.commit > 0
               PROVE  \E pre \in Prefix :
                        /\ Durable(pre)' /\ TermOf(pre) <= c.term /\ c.commit <= Len(pre)
                        /\ (c.phase = "sent" /\ (c.prev = 0 \/ c.prevTerm # 0)) => Reaches(c, pre)
    BY DEF CallsDurable, Reaches, TermOf, Prefix, Entry
<1>3. ~staleAck
    BY <1>1, <1>2, MatchMoves
<1>4. CASE c \in DOMAIN appendCalls
  <2>1. PICK pre \in Prefix :
           /\ Durable(pre) /\ TermOf(pre) <= c.term /\ c.commit <= Len(pre)
           /\ (c.phase = "sent" /\ (c.prev = 0 \/ c.prevTerm # 0)) => Reaches(c, pre)
    BY <1>1, <1>2, <1>3, <1>4 DEF CallsDurable
  <2>2. Durable(pre)'
    BY <1>1, <2>1, DurableStep
  <2>3. QED
    BY <2>1, <2>2
<1>5. CASE Spawns(c)
  <2>1. /\ c.src \in Server /\ c.phase = "spawned" /\ c.term = currentTerm[c.src]
        /\ c.commit = commitIndex[c.src]
    BY <1>5 DEF Spawns
  <2>2. PICK pre \in Prefix : /\ Durable(pre) /\ TermOf(pre) <= currentTerm[c.src]
                              /\ commitIndex[c.src] <= Len(pre)
    BY <1>1, <1>2, <1>3, <2>1 DEF CommitsDurable
  <2>3. Durable(pre)'
    BY <1>1, <2>2, DurableStep
  <2>4. QED
    BY <2>1, <2>2, <2>3
<1>6. ASSUME NEW b \in DOMAIN appendCalls, Reads(b, c)
      PROVE  \E pre \in Prefix :
               /\ Durable(pre)' /\ TermOf(pre) <= c.term /\ c.commit <= Len(pre)
               /\ (c.phase = "sent" /\ (c.prev = 0 \/ c.prevTerm # 0)) => Reaches(c, pre)
  <2>1. c.src = b.src /\ c.term = b.term /\ c.commit = b.commit /\ b.phase = "spawned"
    BY <1>6 DEF Reads
  <2>2. PICK pre \in Prefix : Durable(pre) /\ TermOf(pre) <= c.term /\ c.commit <= Len(pre)
    BY <1>1, <1>2, <1>3, <2>1 DEF CallsDurable
  <2>3. Durable(pre)'
    BY <1>1, <2>2, DurableStep
  <2>4. Has(log[c.src], pre)
    <3>1. [node |-> c.src, term |-> c.term] \in winners
      BY <1>1, <2>1 DEF LogInv, CallsOfWinners
    <3>2. c.term \in Nat /\ TermOf(pre) \in Nat
      BY <1>1, <2>1, CallType, PrefixType
    <3>3. c.term >= TermOf(pre)
      BY <2>2, <3>2
    <3>4. QED
      BY <2>2, <3>1, <3>3 DEF Durable, Firm, WinnersHave
  <2>5. ASSUME c.prev = 0 \/ c.prevTerm # 0 PROVE Reaches(c, pre)
    <3>1. PartOf(c, log[c.src])
      BY <1>1, <1>6, <2>5, ReadShape
    <3>2. QED
      BY <1>1, <1>6, <2>4, <3>1, ReadReaches
  <2>6. QED
    BY <2>2, <2>3, <2>5
<1>7. QED
    BY <1>1, <1>2, <1>4, <1>5, <1>6, CallMoves DEF CallMoved, Answers

\* What a node has committed, no step takes from its log.
LEMMA CommitKept ==
    ASSUME CommitInv, [NodeStep]_vars, ~staleAck', NEW i \in Server
    PROVE  /\ commitIndex[i] \in Nat /\ commitIndex'[i] \in Nat /\ commitIndex'[i] >= commitIndex[i]
           /\ commitIndex[i] <= Len(log[i])
           /\ HasUpTo(log'[i], commitIndex[i], log[i])
<1>1. AckInv /\ LogInv /\ TypeOK /\ TypeOK' /\ CommitsDurable
    BY StepFacts DEF CommitInv, AckInv, MatchInv
<1>2. ~staleAck
    BY <1>1, MatchMoves
<1>3. /\ commitIndex[i] \in Nat /\ commitIndex'[i] \in Nat
      /\ Len(log[i]) \in Nat /\ Len(log'[i]) \in Nat
    BY <1>1, NodeTypes, LogType DEF TypeOK
<1>4. commitIndex'[i] >= commitIndex[i]
  <2>1. ASSUME NEW c \in DOMAIN appendCalls, Follows(c) PROVE commitIndex'[i] >= commitIndex[i]
    <3>1. /\ AcceptEntries(c) /\ c.commit > commitIndex[c.dst] /\ c.phase = "sent"
          /\ commitIndex' = [commitIndex EXCEPT ![c.dst] = Smaller(c.commit, c.prev + Len(c.entries))]
      BY <2>1 DEF Follows, AcceptEntries, AdoptLeader
    <3>2. /\ c.commit \in Nat /\ c.prev \in Nat /\ Len(c.entries) \in Nat /\ c.dst \in Server
          /\ commitIndex[c.dst] \in Nat
      BY <1>1, <3>1, CallType, LogType, NodeTypes
    <3>3. c.commit <= c.prev + Len(c.entries)
      BY <1>2, <2>1, <3>1, <3>2, FollowerCommits
    <3>4. \A a, b \in Nat : a <= b => Smaller(a, b) = a
      BY DEF Smaller
    <3>5. Smaller(c.commit, c.prev + Len(c.entries)) = c.commit
      BY <3>2, <3>3, <3>4
    <3>6. commitIndex' = [commitIndex EXCEPT ![c.dst] = c.commit]
      BY <3>1, <3>5
    <3>7. commitIndex'[i] = IF i = c.dst THEN c.commit ELSE commitIndex[i]
      BY <1>1, <3>6 DEF TypeOK
    <3>8. QED
      BY <1>3, <3>1, <3>2, <3>7
  <2>2. ASSUME NEW c \in DOMAIN appendCalls, Commits(c) PROVE commitIndex'[i] >= commitIndex[i]
    <3> DEFINE L == c.src
               can == CommittableAt(L, Answered(c))
    <3>1. can # {} /\ commitIndex' = [commitIndex EXCEPT ![L] = Max(can)] /\ L \in Server
      BY <1>1, <2>2, CallType DEF Commits
    <3>2. commitIndex[L] \in Nat /\ Len(log[L]) \in Nat
      BY <1>1, <3>1, NodeTypes
    <3>3. can \in SUBSET Nat /\ \A x \in can : x <= Len(log[L]) /\ x > commitIndex[L]
      BY <3>2 DEF CommittableAt
    <3> HIDE DEF can
    <3>4. Max(can) \in can
      BY <3>1, <3>2, <3>3, MaxOfNats
    <3>5. Max(can) > commitIndex[L]
      BY <3>3, <3>4
    <3> HIDE DEF L
    <3>6. commitIndex'[i] = IF i = L THEN Max(can) ELSE commitIndex[i]
      BY <1>1, <3>1 DEF TypeOK
    <3>7. Max(can) \in Nat
      BY <3>3, <3>4
    <3>8. QED
      BY <1>3, <3>2, <3>5, <3>6, <3>7
  <2>3. QED
    BY <1>1, <1>3, <2>1, <2>2, CommitMoves
<1>5. CASE commitIndex[i] = 0
    BY <1>3, <1>4, <1>5 DEF HasUpTo
<1>6. CASE commitIndex[i] > 0
  <2>1. PICK pre \in Prefix : /\ Durable(pre) /\ TermOf(pre) <= currentTerm[i]
                              /\ commitIndex[i] <= Len(pre) /\ HasUpTo(log[i], commitIndex[i], pre)
    BY <1>1, <1>2, <1>6 DEF CommitsDurable
  <2>2. HasUpTo(log'[i], commitIndex[i], pre)
    BY <1>1, <1>3, <2>1, BackedStays
  <2>3. QED
    BY <1>3, <1>4, <2>1, <2>2 DEF HasUpTo
<1>7. QED
    BY <1>3, <1>5, <1>6

-----------------------------------------------------------------------------
(***************************************************************************)
(* What is queued and applied.                                             *)
(***************************************************************************)
LEMMA ElementsKept ==
    ASSUME NEW s \in Seq(Entry)
    PROVE  /\ \A m \in Nat \ {0}, n \in Nat : n <= Len(s) =>
                /\ SubSeq(s, m, n) \in Seq(Entry)
                /\ \A en \in Elements(SubSeq(s, m, n)) : \E k \in m..n : en = s[k]
           /\ s # <<>> => /\ Head(s) \in Elements(s) /\ Head(s) \in Entry
                          /\ Tail(s) \in Seq(Entry) /\ Elements(Tail(s)) \subseteq Elements(s)
           /\ \A en \in Entry : Append(s, en) \in Seq(Entry) /\ Elements(Append(s, en)) = Elements(s) \cup {en}
<1>1. Len(s) \in Nat
    BY LogType
<1>2. ASSUME NEW m \in Nat \ {0}, NEW n \in Nat, n <= Len(s)
      PROVE  /\ SubSeq(s, m, n) \in Seq(Entry)
             /\ \A en \in Elements(SubSeq(s, m, n)) : \E k \in m..n : en = s[k]
  <2>1. /\ SubSeq(s, m, n) \in Seq(Entry)
        /\ Len(SubSeq(s, m, n)) = IF m <= n THEN n - m + 1 ELSE 0
        /\ \A k \in 1..(n - m + 1) : SubSeq(s, m, n)[k] = s[m + k - 1]
    BY <1>2, PartOfLog
  <2>2. ASSUME NEW x \in 1..Len(SubSeq(s, m, n)) PROVE \E k \in m..n : SubSeq(s, m, n)[x] = s[k]
    <3>1. x \in 1..(n - m + 1) /\ m + x - 1 \in m..n
      BY <2>1, <2>2
    <3>2. QED
      BY <2>1, <3>1
  <2>3. QED
    BY <2>1, <2>2 DEF Elements
<1>3. ASSUME s # <<>>
      PROVE  /\ Head(s) \in Elements(s) /\ Head(s) \in Entry
             /\ Tail(s) \in Seq(Entry) /\ Elements(Tail(s)) \subseteq Elements(s)
  <2>1. Len(s) \in Nat \ {0}
    BY <1>1, <1>3, EmptySeq
  <2>2. Head(s) = s[1] /\ Head(s) \in Entry
    BY <1>3, HeadTailProperties
  <2>3. Tail(s) \in Seq(Entry) /\ Len(Tail(s)) = Len(s) - 1 /\ \A k \in 1..(Len(s) - 1) : Tail(s)[k] = s[k + 1]
    BY <1>3, HeadTailProperties
  <2>4. \A k \in 1..(Len(s) - 1) : k + 1 \in 1..Len(s)
    BY <2>1
  <2>5. 1 \in 1..Len(s)
    BY <2>1
  <2>6. QED
    BY <2>2, <2>3, <2>4, <2>5 DEF Elements
<1>4. ASSUME NEW en \in Entry
      PROVE  Append(s, en) \in Seq(Entry) /\ Elements(Append(s, en)) = Elements(s) \cup {en}
  <2>1. /\ Append(s, en) \in Seq(Entry) /\ Len(Append(s, en)) = Len(s) + 1
        /\ \A k \in 1..Len(s) : Append(s, en)[k] = s[k]
        /\ Append(s, en)[Len(s) + 1] = en
    BY AppendProperties
  <2>2. \A k \in 1..(Len(s) + 1) : k \in 1..Len(s) \/ k = Len(s) + 1
    BY <1>1
  <2>3. \A k \in 1..Len(s) : k \in 1..(Len(s) + 1)
    BY <1>1
  <2>4. Len(s) + 1 \in 1..(Len(s) + 1)
    BY <1>1
  <2>5. QED
    BY <2>1, <2>2, <2>3, <2>4 DEF Elements
<1>5. QED
    BY <1>2, <1>3, <1>4

\* A full queue drops entries, it makes none up.
LEMMA OfferKept ==
    ASSUME NEW queue \in Seq(Entry), NEW batch \in Seq(Entry)
    PROVE  Offer(queue, batch) \in Seq(Entry) /\ Elements(Offer(queue, batch)) \subseteq Elements(queue) \cup Elements(batch)
<1> DEFINE n == Smaller(Len(batch), Larger(ApplyCap - Len(queue), 0))
           more == SubSeq(batch, 1, n)
<1>1. Len(queue) \in Nat /\ Len(batch) \in Nat /\ ApplyCap \in Nat
    BY LogType, BoundsAssumption
<1>2. n \in Nat /\ n <= Len(batch)
    BY <1>1 DEF Smaller, Larger
<1> HIDE DEF n
<1>3. more \in Seq(Entry) /\ \A en \in Elements(more) : \E k \in 1..n : en = batch[k]
  <2>1. 1 \in Nat \ {0}
    OBVIOUS
  <2>2. QED
    BY <1>2, <2>1, ElementsKept
<1>4. Elements(more) \subseteq Elements(batch)
  <2>1. \A k \in 1..n : k \in 1..Len(batch)
    BY <1>1, <1>2
  <2>2. QED
    BY <1>3, <2>1 DEF Elements
<1> HIDE DEF more
<1>5. /\ queue \o more \in Seq(Entry) /\ Len(queue \o more) = Len(queue) + Len(more) /\ Len(more) \in Nat
      /\ \A k \in 1..(Len(queue) + Len(more)) :
           (queue \o more)[k] = IF k <= Len(queue) THEN queue[k] ELSE more[k - Len(queue)]
    BY <1>3, ConcatProperties, LogType
<1>6. ASSUME NEW k \in 1..(Len(queue) + Len(more))
      PROVE  (queue \o more)[k] \in Elements(queue) \cup Elements(more)
  <2>1. CASE k <= Len(queue)
    <3>1. k \in 1..Len(queue)
      BY <1>1, <2>1
    <3>2. QED
      BY <1>5, <2>1, <3>1 DEF Elements
  <2>2. CASE ~(k <= Len(queue))
    <3>1. k - Len(queue) \in 1..Len(more)
      BY <1>1, <1>5, <2>2
    <3>2. QED
      BY <1>5, <2>2, <3>1 DEF Elements
  <2>3. QED
    BY <2>1, <2>2
<1>7. Offer(queue, batch) = queue \o more
    BY DEF Offer, more, n
<1>8. Elements(queue \o more) \subseteq Elements(queue) \cup Elements(more)
    BY <1>5, <1>6 DEF Elements
<1>9. QED
    BY <1>4, <1>5, <1>7, <1>8

\* The pushes of NotifyApplier add only entries of the log up to the commit index.
LEMMA NotifyAdds ==
    ASSUME TypeOK, NEW i \in Server, NEW lg \in Seq(Entry), NEW commit \in Nat, commit <= Len(lg),
           NotifyApplier(i, lg, commit)
    PROVE  \A j \in Server : \A en \in Held(j)' :
             en \in Held(j) \/ (j = i /\ \E k \in 1..commit : en = lg[k])
<1> DEFINE batch == Unapplied(i, lg, commit)
           New == {lg[k] : k \in 1..commit}
<1>1. /\ lastApplied[i] \in Nat /\ applyC[i] \in Seq(Entry) /\ applied[i] \in Seq(Entry)
      /\ applyC \in [Server -> Seq(Entry)] /\ applied \in [Server -> Seq(Entry)]
    BY NodeTypes DEF TypeOK
<1>2. batch \in Seq(Entry) /\ Elements(batch) \subseteq New
  <2>1. lastApplied[i] + 1 \in Nat \ {0}
    BY <1>1
  <2>2. /\ batch \in Seq(Entry)
        /\ \A en \in Elements(batch) : \E k \in (lastApplied[i] + 1)..commit : en = lg[k]
    BY <2>1, ElementsKept DEF Unapplied
  <2>3. \A k \in (lastApplied[i] + 1)..commit : k \in 1..commit
    BY <1>1
  <2>4. QED
    BY <2>2, <2>3
<1> HIDE DEF batch
<1>3. \A m \in Nat \ {0}, n \in Nat : n <= Len(batch) =>
         SubSeq(batch, m, n) \in Seq(Entry) /\ Elements(SubSeq(batch, m, n)) \subseteq New
  <2>1. SUFFICES ASSUME NEW m \in Nat \ {0}, NEW n \in Nat, n <= Len(batch)
                 PROVE  SubSeq(batch, m, n) \in Seq(Entry) /\ Elements(SubSeq(batch, m, n)) \subseteq New
    OBVIOUS
  <2>2. /\ SubSeq(batch, m, n) \in Seq(Entry)
        /\ \A en \in Elements(SubSeq(batch, m, n)) : \E k \in m..n : en = batch[k]
    BY <1>2, <2>1, ElementsKept
  <2>3. \A k \in m..n : k \in 1..Len(batch)
    BY <1>2, <2>1, LogType
  <2>4. \A k \in 1..Len(batch) : batch[k] \in Elements(batch)
    BY DEF Elements
  <2>5. QED
    BY <1>2, <2>2, <2>3, <2>4
<1>4. Len(batch) \in Nat
    BY <1>2, LogType
<1> HIDE DEF New
<1> DEFINE Adds(q, a) == Elements(q) \cup Elements(a) \subseteq Held(i) \cup New
<1>5. ASSUME applyC' = [applyC EXCEPT ![i] = Offer(@, batch)], UNCHANGED applied
      PROVE  /\ Adds(applyC'[i], applied'[i])
             /\ \A j \in Server \ {i} : applyC'[j] = applyC[j] /\ applied'[j] = applied[j]
  <2>1. applyC'[i] = Offer(applyC[i], batch) /\ applied'[i] = applied[i]
    BY <1>1, <1>5
  <2>2. Elements(Offer(applyC[i], batch)) \subseteq Elements(applyC[i]) \cup Elements(batch)
    BY <1>1, <1>2, OfferKept
  <2>3. Adds(applyC'[i], applied'[i])
    BY <1>2, <2>1, <2>2 DEF Held
  <2>4. QED
    BY <1>1, <1>5, <2>3
<1>6. ASSUME NEW k \in 1..(Len(batch) - 1), NEW before, before = Offer(applyC[i], SubSeq(batch, 1, k)),
             before # <<>>,
             applyC' = [applyC EXCEPT ![i] = Offer(Tail(before), SubSeq(batch, k + 1, Len(batch)))],
             applied' = [applied EXCEPT ![i] = Append(@, Head(before))]
      PROVE  /\ Adds(applyC'[i], applied'[i])
             /\ \A j \in Server \ {i} : applyC'[j] = applyC[j] /\ applied'[j] = applied[j]
  <2> DEFINE one == SubSeq(batch, 1, k)
             rest == SubSeq(batch, k + 1, Len(batch))
  <2>1. /\ one \in Seq(Entry) /\ Elements(one) \subseteq New
        /\ rest \in Seq(Entry) /\ Elements(rest) \subseteq New
    <3>1. 1 \in Nat \ {0} /\ k \in Nat /\ k <= Len(batch) /\ k + 1 \in Nat \ {0} /\ Len(batch) <= Len(batch)
      BY <1>4
    <3>2. QED
      BY <1>3, <1>4, <3>1
  <2> HIDE DEF one, rest
  <2>2. before = Offer(applyC[i], one)
    BY <1>6 DEF one
  <2>3. before \in Seq(Entry) /\ Elements(before) \subseteq Elements(applyC[i]) \cup New
    BY <1>1, <2>1, <2>2, OfferKept
  <2>4. /\ Head(before) \in Elements(before) /\ Head(before) \in Entry
        /\ Tail(before) \in Seq(Entry) /\ Elements(Tail(before)) \subseteq Elements(before)
    BY <1>6, <2>3, ElementsKept
  <2>5. applyC'[i] = Offer(Tail(before), rest) /\ applied'[i] = Append(applied[i], Head(before))
    BY <1>1, <1>6 DEF rest
  <2>6. Elements(applyC'[i]) \subseteq Elements(before) \cup New
    BY <2>1, <2>4, <2>5, OfferKept
  <2>7. Elements(applied'[i]) = Elements(applied[i]) \cup {Head(before)}
    BY <1>1, <2>4, <2>5, ElementsKept
  <2>8. Adds(applyC'[i], applied'[i])
    BY <2>3, <2>4, <2>6, <2>7 DEF Held
  <2>9. QED
    BY <1>1, <1>6, <2>8
<1>7. /\ Adds(applyC'[i], applied'[i])
      /\ \A j \in Server \ {i} : applyC'[j] = applyC[j] /\ applied'[j] = applied[j]
    BY <1>5, <1>6 DEF NotifyApplier, batch
<1>8. QED
    BY <1>7 DEF Held, New

\* The steps that queue entries; the others at most move one from the queue to the
\* applied.
LEMMA HeldMoves ==
    ASSUME TypeOK, [NodeStep]_vars
    PROVE  \/ \A j \in Server : Held(j)' \subseteq Held(j)
           \/ \E c \in DOMAIN appendCalls : Follows(c) \/ Commits(c)
<1>0. ASSUME UNCHANGED <<applyC, applied>> PROVE \A j \in Server : Held(j)' \subseteq Held(j)
    BY <1>0 DEF Held
<1>1. CASE ElectionStep
    BY <1>0, <1>1 DEF ElectionStep, StartElection, HandleRequestVote, HandleVoteReply, VoteCallFails,
                TallyVotes, applyVars
<1>2. CASE ReplicationStep
  <2>1. ASSUME NEW i \in Server, SendHeartbeats(i) PROVE UNCHANGED <<applyC, applied>>
    BY <2>1 DEF SendHeartbeats, applyVars
  <2>2. ASSUME NEW i \in Server, NEW cmd \in Command, Propose(i, cmd) PROVE UNCHANGED <<applyC, applied>>
    BY <2>2 DEF Propose, applyVars
  <2>3. ASSUME NEW c \in DOMAIN appendCalls,
               ReadLog(c) \/ RejectAppend(c) \/ RefuseEntries(c) \/ AppendCallFails(c)
        PROVE  UNCHANGED <<applyC, applied>>
    BY <2>3 DEF ReadLog, RejectAppend, RefuseEntries, AppendCallFails, applyVars
  <2>4. ASSUME NEW c \in DOMAIN appendCalls, AcceptEntries(c)
        PROVE  (UNCHANGED <<applyC, applied>>) \/ Follows(c)
    <3>1. log'[c.dst] = Merge(log[c.dst], c.prev, c.entries)
      BY <2>4, CallType DEF AcceptEntries, TypeOK
    <3>2. QED
      BY <2>4, <3>1 DEF AcceptEntries, Follows, LeaderIsAhead
  <2>5. ASSUME NEW c \in DOMAIN appendCalls, HandleAppendReply(c)
        PROVE  (UNCHANGED <<applyC, applied>>) \/ Commits(c)
    <3>1. (UNCHANGED <<applyC, applied>>) \/ Acks(c)
      BY <2>5 DEF HandleAppendReply, Acks, nodeVars
    <3>2. ASSUME Acks(c) PROVE (UNCHANGED <<applyC, applied>>) \/ Commits(c)
      BY <3>2 DEF Acks, UpdateCommitIndex, Commits, Answered
    <3>3. QED
      BY <3>1, <3>2
  <2>6. QED
    BY <1>0, <1>2, <2>1, <2>2, <2>3, <2>4, <2>5 DEF ReplicationStep, HandleAppendEntries
<1>3. CASE ApplyStep
  <2>1. ASSUME NEW i \in Server, TakeEntry(i) PROVE \A j \in Server : Held(j)' \subseteq Held(j)
    <3>1. /\ applyC[i] # <<>> /\ applyC' = [applyC EXCEPT ![i] = Tail(@)]
          /\ applied' = [applied EXCEPT ![i] = Append(@, Head(applyC[i]))]
      BY <2>1 DEF TakeEntry
    <3>2. applyC[i] \in Seq(Entry) /\ applied[i] \in Seq(Entry)
      BY NodeTypes
    <3>3. applyC'[i] = Tail(applyC[i]) /\ applied'[i] = Append(applied[i], Head(applyC[i]))
      BY <3>1 DEF TypeOK
    <3>4. /\ Head(applyC[i]) \in Elements(applyC[i]) /\ Head(applyC[i]) \in Entry
          /\ Elements(Tail(applyC[i])) \subseteq Elements(applyC[i])
      BY <3>1, <3>2, ElementsKept
    <3>5. Elements(applied'[i]) = Elements(applied[i]) \cup {Head(applyC[i])}
      BY <3>2, <3>3, <3>4, ElementsKept
    <3>6. Held(i)' \subseteq Held(i)
      BY <3>3, <3>4, <3>5 DEF Held
    <3>7. \A j \in Server : j # i => applyC'[j] = applyC[j] /\ applied'[j] = applied[j]
      BY <3>1 DEF TypeOK
    <3>8. QED
      BY <3>6, <3>7 DEF Held
  <2>2. ASSUME NEW i \in Server, RecordApplied(i) PROVE UNCHANGED <<applyC, applied>>
    BY <2>2 DEF RecordApplied
  <2>3. QED
    BY <1>0, <1>3, <2>1, <2>2 DEF ApplyStep
<1>4. CASE UNCHANGED vars
    BY <1>0, <1>4 DEF vars, applyVars
<1>5. QED
    BY <1>1, <1>2, <1>3, <1>4 DEF NodeStep

\* Every entry of a log stands at its index.
LogsIndexed == \A i \in Server : \A k \in 1..Len(log[i]) : log[i][k].index = k

\* Entries stand at their index, because links say so.
LEMMA IndexedNow == LogInv => LogsIndexed
    BY EntryFacts DEF LogsIndexed

\* And after a step.
LEMMA IndexedNext == LogInv /\ [NodeStep]_vars => LogsIndexed'
    BY IndexedNow, LogStep, PTL

\* What a step queues or applies stands in the log, up to the new commit index.
LEMMA HeldFromLog ==
    ASSUME CommitInv, [NodeStep]_vars, ~staleAck, NEW i \in Server, NEW en \in Held(i)'
    PROVE  en \in Held(i) \/ \E k \in 1..commitIndex'[i] : k <= Len(log'[i]) /\ en = log'[i][k]
<1>1. AckInv /\ LogInv /\ TypeOK /\ TypeOK'
    BY StepFacts DEF CommitInv, AckInv, MatchInv
<1>2. ASSUME NEW c \in DOMAIN appendCalls, Follows(c)
      PROVE  en \in Held(i) \/ \E k \in 1..commitIndex'[i] : k <= Len(log'[i]) /\ en = log'[i][k]
  <2> DEFINE d == c.dst
  <2>1. /\ AcceptEntries(c) /\ c.commit > commitIndex[d] /\ c.phase = "sent"
        /\ commitIndex' = [commitIndex EXCEPT ![d] = Smaller(c.commit, c.prev + Len(c.entries))]
        /\ NotifyApplier(d, log'[d], Smaller(c.commit, c.prev + Len(c.entries)))
    BY <1>2 DEF Follows, AcceptEntries, AdoptLeader
  <2>2. /\ c.commit \in Nat /\ c.prev \in Nat /\ Len(c.entries) \in Nat /\ d \in Server
        /\ commitIndex[d] \in Nat /\ c.commit > 0
    <3>1. c.commit \in Nat /\ c.prev \in Nat /\ c.entries \in Seq(Entry) /\ d \in Server
      BY <1>1, <2>1, CallType
    <3>2. Len(c.entries) \in Nat /\ commitIndex[d] \in Nat
      BY <1>1, <3>1, LogType, NodeTypes
    <3>3. QED
      BY <2>1, <3>1, <3>2
  <2>3. PICK pre \in Prefix : c.commit <= Len(pre) /\ Has(log'[d], pre)
    BY <2>1, <2>2, FollowerCommits
  <2>4. c.commit <= c.prev + Len(c.entries)
    BY <2>1, <2>2, FollowerCommits
  <2>5. log'[d] \in Seq(Entry) /\ Len(log'[d]) \in Nat /\ Len(pre) \in Nat
    BY <1>1, <2>2, LogType, PrefixType DEF TypeOK
  <2> HIDE DEF d
  <2>6. Smaller(c.commit, c.prev + Len(c.entries)) = c.commit
    <3>1. \A a, b \in Nat : a <= b => Smaller(a, b) = a
      BY DEF Smaller
    <3>2. QED
      BY <2>2, <2>4, <3>1
  <2>7. c.commit <= Len(log'[d])
    BY <2>2, <2>3, <2>5 DEF Has, HasUpTo
  <2>8. commitIndex'[d] = c.commit
    BY <1>1, <2>1, <2>2, <2>6 DEF TypeOK
  <2>9. en \in Held(i) \/ (i = d /\ \E k \in 1..c.commit : en = log'[d][k])
    BY <1>1, <2>1, <2>2, <2>5, <2>6, <2>7, NotifyAdds
  <2>10. \A k \in 1..c.commit : k <= Len(log'[d])
    BY <2>2, <2>5, <2>7
  <2>11. QED
    BY <2>8, <2>9, <2>10
<1>3. ASSUME NEW c \in DOMAIN appendCalls, Commits(c)
      PROVE  en \in Held(i) \/ \E k \in 1..commitIndex'[i] : k <= Len(log'[i]) /\ en = log'[i][k]
  <2> DEFINE L == c.src
             can == CommittableAt(L, Answered(c))
             n == Max(can)
  <2>1. /\ can # {} /\ commitIndex' = [commitIndex EXCEPT ![L] = n] /\ log' = log
        /\ NotifyApplier(L, log[L], n)
    BY <1>3 DEF Commits, Acks
  <2>2. L \in Server
    BY <1>1, CallType
  <2>3. log[L] \in Seq(Entry) /\ Len(log[L]) \in Nat /\ commitIndex[L] \in Nat
    BY <1>1, <2>2, NodeTypes
  <2>4. can \in SUBSET Nat /\ \A x \in can : x <= Len(log[L])
    BY <2>3 DEF CommittableAt
  <2> HIDE DEF L, can
  <2>5. n \in Nat /\ n <= Len(log[L])
    BY <2>1, <2>3, <2>4, MaxOfNats
  <2> HIDE DEF n
  <2>6. commitIndex'[L] = n
    BY <1>1, <2>1, <2>2 DEF TypeOK
  <2>7. en \in Held(i) \/ (i = L /\ \E k \in 1..n : en = log[L][k])
    BY <1>1, <2>1, <2>2, <2>3, <2>5, NotifyAdds
  <2>8. \A k \in 1..n : k <= Len(log[L])
    BY <2>3, <2>5
  <2>9. QED
    BY <2>1, <2>6, <2>7, <2>8
<1>4. QED
    BY <1>1, <1>2, <1>3, HeldMoves

\* Pushes take committed entries from the log, and committed entries are not cut.
LEMMA HeldCommittedStep ==
    ASSUME CommitInv, [NodeStep]_vars
    PROVE  HeldCommitted'
<1>1. LogInv /\ TypeOK /\ TypeOK' /\ HeldCommitted
    BY StepFacts DEF CommitInv, AckInv, MatchInv
<1>2. SUFFICES ASSUME ~staleAck', NEW i \in Server, NEW en \in Held(i)'
               PROVE  en.index \in 1..commitIndex'[i] /\ log'[i][en.index] = en
    BY DEF HeldCommitted
<1>3. ~staleAck
    BY <1>1, <1>2, MatchMoves
<1>4. /\ commitIndex[i] \in Nat /\ commitIndex'[i] \in Nat /\ commitIndex'[i] >= commitIndex[i]
      /\ HasUpTo(log'[i], commitIndex[i], log[i])
    BY <1>2, CommitKept
<1>5. CASE en \in Held(i)
  <2>1. en.index \in 1..commitIndex[i] /\ log[i][en.index] = en
    BY <1>1, <1>3, <1>5 DEF HeldCommitted
  <2>2. log'[i][en.index] = log[i][en.index]
    BY <1>4, <2>1 DEF HasUpTo
  <2>3. en.index \in 1..commitIndex'[i]
    BY <1>4, <2>1
  <2>4. QED
    BY <2>1, <2>2, <2>3
<1>6. ASSUME NEW k \in 1..commitIndex'[i], k <= Len(log'[i]), en = log'[i][k]
      PROVE  en.index \in 1..commitIndex'[i] /\ log'[i][en.index] = en
  <2>1. Len(log'[i]) \in Nat
    BY <1>1, LogType DEF TypeOK
  <2>2. k \in 1..Len(log'[i])
    BY <1>4, <1>6, <2>1
  <2>3. log'[i][k].index = k
    BY <1>1, <2>2, IndexedNext DEF LogsIndexed
  <2>4. QED
    BY <1>6, <2>3
<1>7. QED
    BY <1>3, <1>5, <1>6, HeldFromLog

\* The invariant of commitment holds at the start.
LEMMA CommitInit == Init => CommitInv
<1> SUFFICES ASSUME Init PROVE CommitInv
    OBVIOUS
<1>1. AckInv /\ DOMAIN appendCalls = {}
    BY AckInit DEF Init, EmptyBag, SetToBag
<1>2. \A i \in Server : commitIndex[i] = 0 /\ applyC[i] = <<>> /\ applied[i] = <<>>
    BY DEF Init
<1>3. Elements(<<>>) = {}
    BY EmptySeq DEF Elements
<1>4. \A i \in Server : Held(i) = {}
    BY <1>2, <1>3 DEF Held
<1>5. QED
    BY <1>1, <1>2, <1>4 DEF CommitInv, CommitsDurable, CallsDurable, HeldCommitted

\* Every step keeps the invariant of commitment.
LEMMA CommitStep == CommitInv /\ [NodeStep]_vars => CommitInv'
    BY AckStep, CommitsDurableStep, CallsDurableStep, HeldCommittedStep DEF CommitInv

\* The invariant of commitment holds until a request carries other entries.
LEMMA CommitInvariant == Spec => [](~overwritten => CommitInv)
<1>1. Init => (~overwritten => CommitInv)
    BY CommitInit
<1>2. (~overwritten => CommitInv) /\ [Next]_vars => (~overwritten => CommitInv)'
    BY CommitStep, StepOfNode
<1>3. QED
    BY <1>1, <1>2, PTL DEF Spec

-----------------------------------------------------------------------------
(***************************************************************************)
(* Pushes that restart from a lastApplied that lags.                       *)
(***************************************************************************)
\* The queue is never full: a push that finds no room leaves it so, hence no push has
\* been lost.
QueueHasRoom == \A i \in Server : Len(applyC[i]) < ApplyCap

\* What the state machine has been handed and will be, in order.
Fed(i) == applied[i] \o applyC[i]

NoGap(s) ==
    \A k \in 1..Len(s) : s[k].index > 1 =>
        \E l \in 1..(k - 1) : s[l].index = s[k].index - 1

InTurn(s) == \A k \in 1..Len(s) : s[k].index <= (IF k = 1 THEN 1 ELSE s[k - 1].index + 1)

EndsAt(s, n) == s = <<>> \/ s[Len(s)].index = n

\* AppliedWithoutGap is not inductive: what waits in the queue must follow what was
\* handed out, the pushes restart after an entry that was, and each of them goes as far
\* as the commit index.
HandedOut(i, n) == n = 0 \/ \E k \in 1..Len(applied[i]) : applied[i][k].index = n

FeedInv ==
    \A i \in Server :
        /\ NoGap(Fed(i)) /\ HandedOut(i, lastApplied[i]) /\ HandedOut(i, applying[i])
        /\ ~staleAck => InTurn(Fed(i)) /\ EndsAt(Fed(i), commitIndex[i])

\* A push into a queue that is not full in the end loses nothing.
LEMMA OfferWhole ==
    ASSUME NEW queue \in Seq(Entry), NEW batch \in Seq(Entry), Len(Offer(queue, batch)) < ApplyCap
    PROVE  Offer(queue, batch) = queue \o batch
<1> DEFINE room == Larger(ApplyCap - Len(queue), 0)
           n == Smaller(Len(batch), room)
           more == SubSeq(batch, 1, n)
<1>1. Len(queue) \in Nat /\ Len(batch) \in Nat /\ ApplyCap \in Nat
    BY LogType, BoundsAssumption
<1>2. room \in Nat /\ room >= ApplyCap - Len(queue)
    BY <1>1 DEF Larger
<1>3. Offer(queue, batch) = queue \o more
    BY DEF Offer
<1> HIDE DEF room
<1>4. n \in Nat /\ n <= Len(batch) /\ (n = Len(batch) \/ n = room)
    BY <1>1, <1>2 DEF Smaller
<1> HIDE DEF n
<1>5. more \in Seq(Entry) /\ Len(more) = n
  <2>1. 1 \in Nat \ {0} /\ (IF 1 <= n THEN n - 1 + 1 ELSE 0) = n
    BY <1>4
  <2>2. QED
    BY <1>4, <2>1, PartOfLog
<1>6. Len(Offer(queue, batch)) = Len(queue) + n
    BY <1>3, <1>5, ConcatProperties
<1>7. n = Len(batch)
    BY <1>1, <1>2, <1>4, <1>6
<1>8. more = batch
    BY <1>7, SubSeqFull
<1>9. QED
    BY <1>3, <1>8

\* ConcatAssociative for logs.
LEMMA LogsAssociate ==
    \A s, t, u \in Seq(Entry) : (s \o t) \o u = s \o (t \o u)
    BY ConcatAssociative

\* applyLoop takes the first entry of the queue, or none.
Takes(i) ==
    \/ applied'[i] = applied[i] /\ applying'[i] = applying[i]
    \/ \E en \in Entry : applied'[i] = Append(applied[i], en) /\ applying'[i] = en.index

\* Taking the first entry changes nothing of what is fed.
LEMMA TakeFeeds ==
    ASSUME NEW done \in Seq(Entry), NEW queue \in Seq(Entry), queue # <<>>
    PROVE  /\ Head(queue) \in Entry /\ Tail(queue) \in Seq(Entry)
           /\ Len(Tail(queue)) = Len(queue) - 1
           /\ Append(done, Head(queue)) \in Seq(Entry)
           /\ Append(done, Head(queue)) \o Tail(queue) = done \o queue
<1>1. /\ Head(queue) \in Entry /\ Tail(queue) \in Seq(Entry)
      /\ Len(Tail(queue)) = Len(queue) - 1
    BY HeadTailProperties
<1> DEFINE one == <<Head(queue)>>
<1>2. one \in Seq(Entry) /\ Append(done, Head(queue)) = done \o one
    BY <1>1, AppendIsConcat
<1>3. queue = one \o Tail(queue)
  <2>1. Len(queue) \in Nat \ {0}
    BY LogType, EmptySeq
  <2>2. 1 \in 1..Len(queue) /\ Len(queue) \in 1..Len(queue)
    BY <2>1
  <2>3. SubSeq(queue, 1, Len(queue)) = <<queue[1]>> \o SubSeq(queue, 1 + 1, Len(queue))
    BY <2>2, SubSeqRecursiveFirst
  <2>4. SubSeq(queue, 1, Len(queue)) = queue /\ Tail(queue) = SubSeq(queue, 2, Len(queue))
    BY SubSeqFull, TailIsSubSeq
  <2>5. Head(queue) = queue[1]
    BY DEF Head
  <2>6. QED
    BY <2>3, <2>4, <2>5
<1>4. Append(done, Head(queue)) \in Seq(Entry)
    BY <1>1, AppendProperties
<1> HIDE DEF one
<1>5. (done \o one) \o Tail(queue) = done \o (one \o Tail(queue))
    BY <1>1, <1>2, LogsAssociate, Zenon
<1>6. QED
    BY <1>1, <1>2, <1>3, <1>4, <1>5

\* When the queue does not fill, a push adds the entries after lastApplied, also when
\* applyLoop takes an entry in between.
LEMMA NotifyFeeds ==
    ASSUME TypeOK, NEW i \in Server, NEW lg \in Seq(Entry), NEW commit \in Nat, commit <= Len(lg),
           NotifyApplier(i, lg, commit), QueueHasRoom'
    PROVE  /\ Fed(i)' = Fed(i) \o SubSeq(lg, lastApplied[i] + 1, commit)
           /\ \A j \in Server \ {i} : Fed(j)' = Fed(j)
           /\ \A j \in Server : Takes(j)
<1> DEFINE batch == Unapplied(i, lg, commit)
<1>1. /\ lastApplied[i] \in Nat /\ applyC[i] \in Seq(Entry) /\ applied[i] \in Seq(Entry)
      /\ applyC \in [Server -> Seq(Entry)] /\ applied \in [Server -> Seq(Entry)]
      /\ applying \in [Server -> Nat]
    BY NodeTypes DEF TypeOK
<1>2. batch \in Seq(Entry) /\ batch = SubSeq(lg, lastApplied[i] + 1, commit)
  <2>1. lastApplied[i] + 1 \in Nat \ {0}
    BY <1>1
  <2>2. QED
    BY <2>1, PartOfLog DEF Unapplied
<1>3. Len(applyC'[i]) < ApplyCap
    BY DEF QueueHasRoom
<1> HIDE DEF batch
<1>4. ASSUME applyC' = [applyC EXCEPT ![i] = Offer(@, batch)], UNCHANGED <<applying, applied>>
      PROVE  /\ Fed(i)' = Fed(i) \o batch
             /\ \A j \in Server \ {i} : Fed(j)' = Fed(j)
             /\ \A j \in Server : Takes(j)
  <2>1. applyC'[i] = Offer(applyC[i], batch) /\ applied'[i] = applied[i]
    BY <1>1, <1>4
  <2>2. applyC'[i] = applyC[i] \o batch
    BY <1>1, <1>2, <1>3, <2>1, OfferWhole
  <2>3. Fed(i)' = Fed(i) \o batch
    <3>1. (applied[i] \o applyC[i]) \o batch = applied[i] \o (applyC[i] \o batch)
      <4>1. applied[i] \in Seq(Entry) /\ applyC[i] \in Seq(Entry) /\ batch \in Seq(Entry)
        BY <1>1, <1>2
      <4>2. QED
        BY <4>1, LogsAssociate, Zenon
    <3>2. QED
      BY <2>1, <2>2, <3>1 DEF Fed
  <2>4. \A j \in Server \ {i} : Fed(j)' = Fed(j)
    BY <1>1, <1>4 DEF Fed
  <2>5. QED
    BY <1>4, <2>3, <2>4 DEF Takes
<1>5. ASSUME NEW k \in 1..(Len(batch) - 1), NEW before, before = Offer(applyC[i], SubSeq(batch, 1, k)),
             before # <<>>,
             applyC' = [applyC EXCEPT ![i] = Offer(Tail(before), SubSeq(batch, k + 1, Len(batch)))],
             applying' = [applying EXCEPT ![i] = Head(before).index],
             applied' = [applied EXCEPT ![i] = Append(@, Head(before))]
      PROVE  /\ Fed(i)' = Fed(i) \o batch
             /\ \A j \in Server \ {i} : Fed(j)' = Fed(j)
             /\ \A j \in Server : Takes(j)
  <2> DEFINE one == SubSeq(batch, 1, k)
             rest == SubSeq(batch, k + 1, Len(batch))
  <2>1. Len(batch) \in Nat /\ ApplyCap \in Nat
    BY <1>2, LogType, BoundsAssumption
  <2>2. one \in Seq(Entry) /\ rest \in Seq(Entry) /\ Len(rest) = Len(batch) - k /\ Len(rest) > 0
    <3>1. /\ 1 \in Nat \ {0} /\ k \in Nat /\ k <= Len(batch) /\ k + 1 \in Nat \ {0}
          /\ Len(batch) <= Len(batch) /\ k + 1 <= Len(batch)
          /\ Len(batch) - (k + 1) + 1 = Len(batch) - k /\ Len(batch) - k > 0
      BY <1>5, <2>1
    <3>2. one \in Seq(Entry)
      BY <1>2, <3>1, PartOfLog
    <3>3. rest \in Seq(Entry) /\ Len(rest) = Len(batch) - (k + 1) + 1
      BY <1>2, <2>1, <3>1, PartOfLog
    <3>4. QED
      BY <3>1, <3>2, <3>3
  <2>3. batch = one \o rest
    <3>1. 1 \in 1..(Len(batch) + 1) /\ k \in (1 - 1)..Len(batch) /\ Len(batch) \in k..Len(batch)
      BY <1>5, <2>1
    <3>2. SubSeq(batch, 1, k) \o SubSeq(batch, k + 1, Len(batch)) = SubSeq(batch, 1, Len(batch))
      BY <1>2, <3>1, ConcatAdjacentSubSeq
    <3>3. QED
      BY <1>2, <3>2, SubSeqFull
  <2>4. before = Offer(applyC[i], one)
    BY <1>5
  <2>5. /\ applyC'[i] = Offer(Tail(before), rest)
        /\ applied'[i] = Append(applied[i], Head(before)) /\ applying'[i] = Head(before).index
    BY <1>1, <1>5
  <2> HIDE DEF one, rest
  <2>6. before \in Seq(Entry)
    BY <1>1, <2>2, <2>4, OfferKept
  <2>7. /\ Head(before) \in Entry /\ Tail(before) \in Seq(Entry)
        /\ Len(Tail(before)) = Len(before) - 1
        /\ Append(applied[i], Head(before)) \in Seq(Entry)
        /\ Append(applied[i], Head(before)) \o Tail(before) = applied[i] \o before
    BY <1>1, <1>5, <2>6, TakeFeeds
  <2>8. applyC'[i] = Tail(before) \o rest
    BY <1>3, <2>2, <2>5, <2>7, OfferWhole
  <2>9. Len(applyC'[i]) = Len(Tail(before)) + Len(rest)
    BY <2>2, <2>7, <2>8, ConcatProperties
  <2>10. Len(before) < ApplyCap
    <3>1. Len(before) \in Nat /\ Len(rest) \in Nat
      BY <2>2, <2>6, LogType
    <3>2. QED
      BY <1>3, <2>1, <2>2, <2>7, <2>9, <3>1
  <2>11. before = applyC[i] \o one
    BY <1>1, <2>2, <2>4, <2>10, OfferWhole
  <2>12. Fed(i)' = Fed(i) \o batch
    <3> DEFINE done == Append(applied[i], Head(before))
               q == applyC[i]
               a == applied[i]
    <3>1. Fed(i)' = done \o (Tail(before) \o rest) /\ Fed(i) = a \o q
      BY <2>5, <2>8 DEF Fed
    <3>2. done \o Tail(before) = a \o (q \o one)
      BY <2>7, <2>11
    <3>3. /\ done \in Seq(Entry) /\ Tail(before) \in Seq(Entry) /\ a \in Seq(Entry)
          /\ q \in Seq(Entry) /\ one \in Seq(Entry) /\ rest \in Seq(Entry)
      BY <1>1, <2>2, <2>7
    <3> HIDE DEF done, q, a
    <3>4. (done \o Tail(before)) \o rest = done \o (Tail(before) \o rest)
      <4>1. done \in Seq(Entry) /\ Tail(before) \in Seq(Entry) /\ rest \in Seq(Entry)
        BY <3>3
      <4>2. QED
        BY <4>1, LogsAssociate, Zenon
    <3>5. (a \o q) \o one = a \o (q \o one)
      <4>1. a \in Seq(Entry) /\ q \in Seq(Entry) /\ one \in Seq(Entry)
        BY <3>3
      <4>2. QED
        BY <4>1, LogsAssociate, Zenon
    <3>6. a \o q \in Seq(Entry)
      BY <3>3, ConcatProperties
    <3>7. ((a \o q) \o one) \o rest = (a \o q) \o (one \o rest)
      <4>1. a \o q \in Seq(Entry) /\ one \in Seq(Entry) /\ rest \in Seq(Entry)
        BY <3>3, <3>6
      <4>2. QED
        BY <4>1, LogsAssociate, Zenon
    <3>8. QED
      BY <2>3, <3>1, <3>2, <3>4, <3>5, <3>7
  <2>13. \A j \in Server \ {i} : Fed(j)' = Fed(j)
    BY <1>1, <1>5 DEF Fed
  <2>14. \A j \in Server : Takes(j)
    BY <1>1, <1>5, <2>5, <2>7 DEF Takes
  <2>15. QED
    BY <2>12, <2>13, <2>14
<1>6. /\ Fed(i)' = Fed(i) \o batch
      /\ \A j \in Server \ {i} : Fed(j)' = Fed(j)
      /\ \A j \in Server : Takes(j)
    BY <1>4, <1>5 DEF NotifyApplier, batch
<1>7. QED
    BY <1>2, <1>6

\* Entries in a row that start after one that is there leave no gap.
LEMMA PushLeavesNoGap ==
    ASSUME NEW s \in Seq(Entry), NoGap(s), NEW lg \in Seq(Entry),
           \A k \in 1..Len(lg) : lg[k].index = k,
           NEW n \in Nat, n = 0 \/ \E k \in 1..Len(s) : s[k].index = n,
           NEW commit \in Nat, commit <= Len(lg)
    PROVE  NoGap(s \o SubSeq(lg, n + 1, commit))
<1> DEFINE batch == SubSeq(lg, n + 1, commit)
           new == s \o batch
<1>1. Len(s) \in Nat /\ Len(lg) \in Nat
    BY LogType
<1>2. /\ batch \in Seq(Entry) /\ Len(batch) \in Nat
      /\ \A x \in 1..Len(batch) : batch[x].index = n + x
  <2>1. n + 1 \in Nat \ {0}
    OBVIOUS
  <2>2. /\ batch \in Seq(Entry)
        /\ Len(batch) = IF n + 1 <= commit THEN commit - (n + 1) + 1 ELSE 0
        /\ \A x \in 1..(commit - (n + 1) + 1) : batch[x] = lg[n + 1 + x - 1]
    BY <2>1, PartOfLog
  <2>3. Len(batch) \in Nat
    BY <2>2, LogType
  <2>4. ASSUME NEW x \in 1..Len(batch) PROVE batch[x].index = n + x
    <3>1. /\ x \in 1..(commit - (n + 1) + 1) /\ n + 1 + x - 1 = n + x
          /\ n + x \in 1..Len(lg)
      BY <1>1, <2>2, <2>3
    <3>2. batch[x] = lg[n + x]
      BY <2>2, <3>1
    <3>3. QED
      BY <3>1, <3>2
  <2>5. QED
    BY <2>2, <2>3, <2>4
<1> HIDE DEF batch
<1>3. /\ Len(new) = Len(s) + Len(batch)
      /\ \A k \in 1..Len(s) : new[k] = s[k]
      /\ \A x \in 1..Len(batch) : new[Len(s) + x] = batch[x]
  <2>1. /\ Len(new) = Len(s) + Len(batch)
        /\ \A k \in 1..(Len(s) + Len(batch)) :
             new[k] = IF k <= Len(s) THEN s[k] ELSE batch[k - Len(s)]
    BY <1>2, ConcatProperties
  <2> HIDE DEF new
  <2>2. \A k \in 1..Len(s) : k \in 1..(Len(s) + Len(batch)) /\ k <= Len(s)
    BY <1>1, <1>2
  <2>3. \A x \in 1..Len(batch) : /\ Len(s) + x \in 1..(Len(s) + Len(batch))
                                 /\ ~(Len(s) + x <= Len(s)) /\ Len(s) + x - Len(s) = x
    BY <1>1, <1>2
  <2>4. QED
    BY <2>1, <2>2, <2>3
<1> HIDE DEF new
<1>4. ASSUME NEW k \in 1..Len(new), new[k].index > 1
      PROVE  \E l \in 1..(k - 1) : new[l].index = new[k].index - 1
  <2>1. CASE k <= Len(s)
    <3>1. k \in 1..Len(s) /\ new[k] = s[k]
      BY <1>1, <1>3, <2>1
    <3>2. PICK l \in 1..(k - 1) : s[l].index = s[k].index - 1
      BY <1>4, <3>1 DEF NoGap
    <3>3. l \in 1..Len(s)
      BY <1>1, <3>1
    <3>4. QED
      BY <1>3, <3>1, <3>2, <3>3
  <2>2. CASE ~(k <= Len(s))
    <3> DEFINE x == k - Len(s)
    <3>1. x \in 1..Len(batch) /\ k = Len(s) + x /\ x \in Nat
      BY <1>1, <1>2, <1>3, <2>2
    <3> HIDE DEF x
    <3>2. new[k].index = n + x /\ n + x \in Nat
      <4>1. new[k] = batch[x] /\ batch[x].index = n + x
        BY <1>2, <1>3, <3>1
      <4>2. QED
        BY <3>1, <4>1
    <3>3. CASE x = 1
      <4>1. n # 0
        BY <1>4, <3>2, <3>3
      <4>2. PICK l \in 1..Len(s) : s[l].index = n
        BY <4>1
      <4>3. l \in 1..(k - 1)
        BY <1>1, <3>1, <3>3
      <4>4. new[l].index = n /\ n = (n + x) - 1
        BY <1>3, <3>3, <4>2
      <4>5. QED
        BY <3>2, <4>3, <4>4
    <3>4. CASE x # 1
      <4>1. x - 1 \in 1..Len(batch) /\ Len(s) + (x - 1) \in 1..(k - 1)
        BY <1>1, <1>2, <3>1, <3>4
      <4>2. new[Len(s) + (x - 1)].index = n + (x - 1)
        BY <1>2, <1>3, <4>1
      <4>3. n + (x - 1) = (n + x) - 1
        BY <3>1
      <4>4. new[Len(s) + (x - 1)].index = new[k].index - 1
        BY <3>2, <4>2, <4>3
      <4>5. QED
        BY <4>1, <4>4
    <3>5. QED
      BY <3>3, <3>4
  <2>3. QED
    BY <2>1, <2>2
<1>5. QED
    BY <1>4 DEF NoGap, new, batch

\* Entries in a row that start no later than after the last one are in turn, and what
\* was there and what is pushed ends with the new commit index.
LEMMA PushInTurn ==
    ASSUME NEW s \in Seq(Entry), InTurn(s), NEW old \in Nat, EndsAt(s, old),
           NEW lg \in Seq(Entry), \A k \in 1..Len(lg) : lg[k].index = k,
           NEW n \in Nat, n <= old, s = <<>> => n = 0,
           NEW commit \in Nat, old <= commit, commit <= Len(lg)
    PROVE  InTurn(s \o SubSeq(lg, n + 1, commit)) /\ EndsAt(s \o SubSeq(lg, n + 1, commit), commit)
<1> DEFINE batch == SubSeq(lg, n + 1, commit)
           new == s \o batch
<1>1. Len(s) \in Nat /\ Len(lg) \in Nat
    BY LogType
<1>2. /\ batch \in Seq(Entry)
      /\ Len(batch) = IF n + 1 <= commit THEN commit - (n + 1) + 1 ELSE 0
      /\ \A x \in 1..(commit - (n + 1) + 1) : batch[x] = lg[n + 1 + x - 1]
  <2>1. n + 1 \in Nat \ {0}
    OBVIOUS
  <2>2. QED
    BY <2>1, PartOfLog
<1> HIDE DEF batch
<1>3. CASE commit <= n
  <2>1. Len(batch) = 0 /\ commit = old
    BY <1>2, <1>3
  <2>2. batch = <<>>
    BY <1>2, <2>1, EmptySeq
  <2>3. new = s
    BY <2>2, ConcatEmptySeq
  <2>4. QED
    BY <2>1, <2>3 DEF batch
<1>4. CASE ~(commit <= n)
  <2>1. Len(batch) = commit - n /\ Len(batch) \in Nat \ {0}
    BY <1>2, <1>4
  <2>2. ASSUME NEW x \in 1..Len(batch) PROVE batch[x].index = n + x
    <3>1. /\ x \in 1..(commit - (n + 1) + 1) /\ n + 1 + x - 1 = n + x
          /\ n + x \in 1..Len(lg)
      BY <1>1, <2>1
    <3>2. batch[x] = lg[n + x]
      BY <1>2, <3>1
    <3>3. QED
      BY <3>1, <3>2
  <2>3. /\ new \in Seq(Entry) /\ Len(new) = Len(s) + Len(batch)
        /\ \A k \in 1..(Len(s) + Len(batch)) :
             new[k] = IF k <= Len(s) THEN s[k] ELSE batch[k - Len(s)]
    BY <1>2, ConcatProperties
  <2> HIDE DEF new
  <2>4. \A k \in 1..Len(s) : new[k] = s[k]
    <3>1. \A k \in 1..Len(s) : k \in 1..(Len(s) + Len(batch)) /\ k <= Len(s)
      BY <1>1, <2>1
    <3>2. QED
      BY <2>3, <3>1
  <2>5. \A x \in 1..Len(batch) : new[Len(s) + x].index = n + x
    <3>1. \A x \in 1..Len(batch) : /\ Len(s) + x \in 1..(Len(s) + Len(batch))
                                   /\ ~(Len(s) + x <= Len(s)) /\ Len(s) + x - Len(s) = x
      BY <1>1, <2>1
    <3>2. \A x \in 1..Len(batch) : new[Len(s) + x] = batch[x]
      BY <2>3, <3>1
    <3>3. QED
      BY <2>2, <3>2
  <2>6. EndsAt(new, commit)
    <3>1. Len(batch) \in 1..Len(batch) /\ n + Len(batch) = commit
      BY <2>1
    <3>2. new[Len(s) + Len(batch)].index = commit
      BY <2>5, <3>1
    <3>3. QED
      BY <2>3, <3>2 DEF EndsAt
  <2>7. ASSUME NEW k \in 1..Len(new)
        PROVE  new[k].index <= (IF k = 1 THEN 1 ELSE new[k - 1].index + 1)
    <3>1. CASE k <= Len(s)
      <4>1. k \in 1..Len(s) /\ (k # 1 => k - 1 \in 1..Len(s))
        BY <1>1, <2>7, <3>1
      <4>2. new[k] = s[k] /\ (k # 1 => new[k - 1] = s[k - 1])
        BY <2>4, <4>1
      <4>3. s[k].index <= (IF k = 1 THEN 1 ELSE s[k - 1].index + 1)
        BY <4>1 DEF InTurn
      <4>4. CASE k = 1
        BY <4>2, <4>3, <4>4
      <4>5. CASE k # 1
        BY <4>2, <4>3, <4>5
      <4>6. QED
        BY <4>4, <4>5
    <3>2. CASE k = Len(s) + 1
      <4>1. 1 \in 1..Len(batch)
        BY <2>1
      <4>2. new[k].index = n + 1
        BY <2>5, <3>2, <4>1
      <4>3. CASE s = <<>>
        <5>1. k = 1 /\ n = 0
          BY <3>2, <4>3, EmptySeq
        <5>2. QED
          BY <4>2, <5>1
      <4>4. CASE s # <<>>
        <5>1. Len(s) # 0
          BY <4>4, EmptySeq
        <5>2. Len(s) \in 1..Len(s) /\ k - 1 = Len(s) /\ k # 1
          BY <1>1, <3>2, <5>1
        <5>3. new[k - 1].index = old
          BY <2>4, <4>4, <5>2 DEF EndsAt
        <5>4. n + 1 <= old + 1
          OBVIOUS
        <5>5. QED
          BY <4>2, <5>2, <5>3, <5>4
      <4>5. QED
        BY <4>3, <4>4
    <3>3. CASE k > Len(s) + 1
      <4>1. k \in Nat /\ k <= Len(s) + Len(batch)
        BY <1>1, <2>1, <2>3, <2>7
      <4>2. PICK x \in Nat : x = k - Len(s)
        <5>1. k - Len(s) \in Nat
          BY <1>1, <3>3, <4>1
        <5>2. QED
          BY <5>1
      <4>3. /\ x \in 1..Len(batch) /\ x - 1 \in 1..Len(batch) /\ k # 1
            /\ Len(s) + x = k /\ Len(s) + (x - 1) = k - 1
        BY <1>1, <2>1, <3>3, <4>1, <4>2
      <4>4. new[k].index = n + x /\ new[k - 1].index = n + (x - 1)
        BY <2>5, <4>3
      <4>5. n + x <= n + (x - 1) + 1
        BY <4>2
      <4>6. QED
        BY <4>3, <4>4, <4>5
    <3>4. QED
      BY <1>1, <2>3, <2>7, <3>1, <3>2, <3>3
  <2>8. InTurn(new)
    BY <2>7 DEF InTurn
  <2>9. QED
    BY <2>6, <2>8 DEF new, batch
<1>5. QED
    BY <1>3, <1>4

\* A push of some node's committed entries, numbered as they stand in its log.
Pushes(i) ==
    \E lg \in Seq(Entry), commit \in Nat :
        /\ commit = commitIndex'[i] /\ commit <= Len(lg) /\ \A k \in 1..Len(lg) : lg[k].index = k
        /\ Fed(i)' = Fed(i) \o SubSeq(lg, lastApplied[i] + 1, commit)

\* What a step does to the queue of a node and to its state machine.
LEMMA FeedMoves ==
    ASSUME LogInv, [NodeStep]_vars, QueueHasRoom', NEW i \in Server
    PROVE  \/ /\ Takes(i) /\ lastApplied'[i] = lastApplied[i]
              /\ Pushes(i) \/ (Fed(i)' = Fed(i) /\ commitIndex'[i] = commitIndex[i])
           \/ /\ applied'[i] = applied[i] /\ Fed(i)' = Fed(i) /\ commitIndex'[i] = commitIndex[i]
              /\ lastApplied'[i] = applying[i] /\ applying'[i] = 0
<1>1. TypeOK /\ TypeOK' /\ LogsIndexed
    BY StepFacts, IndexedNow
<1> DEFINE Stays == Takes(i) /\ Fed(i)' = Fed(i) /\ commitIndex'[i] = commitIndex[i]
           Pushed == Takes(i) /\ (Pushes(i) \/ (Fed(i)' = Fed(i) /\ commitIndex'[i] = commitIndex[i]))
<1>2. ASSUME UNCHANGED <<commitIndex, applyC, applying, applied>> PROVE Stays
    BY <1>2 DEF Fed, Takes
<1>3. ASSUME NEW c \in DOMAIN appendCalls, Follows(c) PROVE Pushed
  <2> DEFINE d == c.dst
             commit == Smaller(c.commit, c.prev + Len(c.entries))
  <2>1. /\ AcceptEntries(c) /\ c.phase = "sent" /\ NotifyApplier(d, log'[d], commit)
        /\ c.prev <= Len(log[d]) /\ commitIndex' = [commitIndex EXCEPT ![d] = commit]
    <3>1. /\ AcceptEntries(c) /\ c.phase = "sent" /\ NotifyApplier(d, log'[d], commit)
          /\ commitIndex' = [commitIndex EXCEPT ![d] = commit]
      BY <1>3 DEF Follows, AcceptEntries, AdoptLeader
    <3>2. QED
      BY <1>1, <3>1, AcceptLinks DEF LogInv, SentCalls
  <2>2. /\ c.commit \in Nat /\ c.prev \in Nat /\ c.entries \in Seq(Entry) /\ d \in Server
        /\ Len(c.entries) \in Nat /\ log[d] \in Seq(Entry)
    BY <1>1, <2>1, CallType, LogType, NodeTypes
  <2>3. log'[d] = Merge(log[d], c.prev, c.entries)
    BY <1>1, <2>1, <2>2 DEF AcceptEntries, TypeOK
  <2>4. log'[d] \in Seq(Entry) /\ Len(log'[d]) \in Nat
    BY <1>1, <2>2, LogType DEF TypeOK
  <2> HIDE DEF d
  <2>5. c.prev + Len(c.entries) <= Len(log'[d])
    <3>1. CASE Len(c.entries) = 0
      <4>1. Merge(log[d], c.prev, c.entries) = log[d]
        BY <3>1 DEF Merge
      <4>2. QED
        BY <2>1, <2>2, <2>3, <3>1, <4>1 DEF d
    <3>2. CASE Len(c.entries) # 0
      <4>1. Len(c.entries) \in 1..Len(c.entries)
        BY <2>2, <3>2
      <4>2. QED
        BY <2>1, <2>2, <2>3, <4>1, MergeReaches DEF d
    <3>3. QED
      BY <3>1, <3>2
  <2>6. commit \in Nat /\ commit <= Len(log'[d])
    BY <2>2, <2>4, <2>5 DEF Smaller
  <2> HIDE DEF commit
  <2>7. /\ Fed(d)' = Fed(d) \o SubSeq(log'[d], lastApplied[d] + 1, commit)
        /\ \A j \in Server \ {d} : Fed(j)' = Fed(j)
        /\ \A j \in Server : Takes(j)
    <3>1. PICK lg \in Seq(Entry) : lg = log'[d]
      BY <2>4
    <3>2. NotifyApplier(d, lg, commit) /\ commit <= Len(lg)
      BY <2>1, <2>6, <3>1 DEF d
    <3>3. QED
      BY <1>1, <2>2, <2>6, <3>1, <3>2, NotifyFeeds
  <2>8. \A k \in 1..Len(log'[d]) : log'[d][k].index = k
    BY <2>2, IndexedNext DEF LogsIndexed
  <2>9. commitIndex'[d] = commit /\ \A j \in Server \ {d} : commitIndex'[j] = commitIndex[j]
    BY <1>1, <2>1, <2>2 DEF TypeOK, d
  <2>10. QED
    BY <2>4, <2>6, <2>7, <2>8, <2>9 DEF Pushes
<1>4. ASSUME NEW c \in DOMAIN appendCalls, Commits(c) PROVE Pushed
  <2> DEFINE L == c.src
             can == CommittableAt(L, Answered(c))
             n == Max(can)
  <2>1. can # {} /\ NotifyApplier(L, log[L], n) /\ commitIndex' = [commitIndex EXCEPT ![L] = n]
    BY <1>4 DEF Commits
  <2>2. L \in Server
    BY <1>1, <1>4, CallType DEF Commits, Acks
  <2>3. log[L] \in Seq(Entry) /\ Len(log[L]) \in Nat /\ commitIndex[L] \in Nat
    BY <1>1, <2>2, NodeTypes
  <2>4. can \in SUBSET Nat /\ \A x \in can : x <= Len(log[L])
    BY <2>3 DEF CommittableAt
  <2> HIDE DEF L, can
  <2>5. n \in Nat /\ n <= Len(log[L])
    BY <2>1, <2>3, <2>4, MaxOfNats
  <2> HIDE DEF n
  <2>6. /\ Fed(L)' = Fed(L) \o SubSeq(log[L], lastApplied[L] + 1, n)
        /\ \A j \in Server \ {L} : Fed(j)' = Fed(j)
        /\ \A j \in Server : Takes(j)
    BY <1>1, <2>1, <2>2, <2>3, <2>5, NotifyFeeds
  <2>7. \A k \in 1..Len(log[L]) : log[L][k].index = k
    BY <1>1, <2>2 DEF LogsIndexed
  <2>8. commitIndex'[L] = n /\ \A j \in Server \ {L} : commitIndex'[j] = commitIndex[j]
    BY <1>1, <2>1, <2>2 DEF TypeOK
  <2>9. QED
    BY <2>3, <2>5, <2>6, <2>7, <2>8 DEF Pushes
<1>5. CASE ElectionStep
  <2>1. ASSUME NEW j \in Server, StartElection(j) PROVE UNCHANGED <<logVars, applyVars>>
    BY <2>1 DEF StartElection
  <2>2. ASSUME NEW m \in voteRequests, HandleRequestVote(m) PROVE UNCHANGED <<logVars, applyVars>>
    BY <2>2 DEF HandleRequestVote
  <2>3. ASSUME NEW e \in elections, NEW r \in voteReplies, HandleVoteReply(e, r)
        PROVE  UNCHANGED <<logVars, applyVars>>
    BY <2>3 DEF HandleVoteReply
  <2>4. ASSUME NEW e \in elections, NEW p \in e.waiting, VoteCallFails(e, p)
        PROVE  UNCHANGED <<logVars, applyVars>>
    BY <2>4 DEF VoteCallFails
  <2>5. ASSUME NEW e \in elections, TallyVotes(e) PROVE UNCHANGED <<logVars, applyVars>>
    BY <2>5 DEF TallyVotes
  <2>6. UNCHANGED <<logVars, applyVars>>
    BY <1>5, <2>1, <2>2, <2>3, <2>4, <2>5 DEF ElectionStep
  <2>7. QED
    BY <1>2, <2>6 DEF logVars, applyVars
<1>6. CASE ReplicationStep
  <2>0. lastApplied' = lastApplied
    BY <1>6 DEF ReplicationStep, SendHeartbeats, Propose, ReadLog, HandleAppendEntries, RejectAppend,
                RefuseEntries, AcceptEntries, HandleAppendReply, AppendCallFails, applyVars
  <2>1. ASSUME NEW j \in Server, SendHeartbeats(j) PROVE UNCHANGED <<commitIndex, applyC, applying, applied>>
    BY <2>1 DEF SendHeartbeats, logVars, applyVars
  <2>2. ASSUME NEW j \in Server, NEW cmd \in Command, Propose(j, cmd)
        PROVE  UNCHANGED <<commitIndex, applyC, applying, applied>>
    BY <2>2 DEF Propose, applyVars
  <2>3. ASSUME NEW c \in DOMAIN appendCalls,
               ReadLog(c) \/ RejectAppend(c) \/ RefuseEntries(c) \/ AppendCallFails(c)
        PROVE  UNCHANGED <<commitIndex, applyC, applying, applied>>
    BY <2>3 DEF ReadLog, RejectAppend, RefuseEntries, AppendCallFails, logVars, applyVars
  <2>4. ASSUME NEW c \in DOMAIN appendCalls, AcceptEntries(c)
        PROVE  (UNCHANGED <<commitIndex, applyC, applying, applied>>) \/ Follows(c)
    <3>1. log'[c.dst] = Merge(log[c.dst], c.prev, c.entries)
      BY <1>1, <2>4, CallType DEF AcceptEntries, TypeOK
    <3>2. QED
      BY <2>4, <3>1 DEF AcceptEntries, Follows, LeaderIsAhead
  <2>5. ASSUME NEW c \in DOMAIN appendCalls, HandleAppendReply(c)
        PROVE  (UNCHANGED <<commitIndex, applyC, applying, applied>>) \/ Commits(c)
    <3>1. (UNCHANGED <<commitIndex, applyC, applying, applied>>) \/ Acks(c)
      BY <2>5 DEF HandleAppendReply, Acks, nodeVars
    <3>2. ASSUME Acks(c) PROVE (UNCHANGED <<commitIndex, applyC, applying, applied>>) \/ Commits(c)
      BY <3>2 DEF Acks, UpdateCommitIndex, Commits, Answered
    <3>3. QED
      BY <3>1, <3>2
  <2>6. Pushed
    BY <1>2, <1>3, <1>4, <1>6, <2>1, <2>2, <2>3, <2>4, <2>5 DEF ReplicationStep, HandleAppendEntries
  <2>7. QED
    BY <2>0, <2>6
<1>7. CASE ApplyStep
  <2>1. ASSUME NEW j \in Server, TakeEntry(j) PROVE Stays /\ lastApplied' = lastApplied
    <3>1. /\ applyC[j] # <<>> /\ applyC' = [applyC EXCEPT ![j] = Tail(@)]
          /\ applied' = [applied EXCEPT ![j] = Append(@, Head(applyC[j]))]
          /\ applying' = [applying EXCEPT ![j] = Head(applyC[j]).index]
          /\ lastApplied' = lastApplied /\ commitIndex' = commitIndex
      BY <2>1 DEF TakeEntry, logVars
    <3>2. applyC[j] \in Seq(Entry) /\ applied[j] \in Seq(Entry)
      BY <1>1, NodeTypes
    <3>3. /\ Head(applyC[j]) \in Entry
          /\ Append(applied[j], Head(applyC[j])) \o Tail(applyC[j]) = applied[j] \o applyC[j]
      BY <3>1, <3>2, TakeFeeds
    <3>4. CASE i = j
      <4>1. /\ applyC'[i] = Tail(applyC[i]) /\ applied'[i] = Append(applied[i], Head(applyC[i]))
            /\ applying'[i] = Head(applyC[i]).index
        BY <1>1, <3>1, <3>4 DEF TypeOK
      <4>2. QED
        BY <3>1, <3>3, <3>4, <4>1 DEF Fed, Takes
    <3>5. CASE i # j
      BY <1>1, <3>1, <3>5 DEF TypeOK, Fed, Takes
    <3>6. QED
      BY <3>1, <3>4, <3>5
  <2>2. ASSUME NEW j \in Server, RecordApplied(j)
        PROVE  /\ applied' = applied /\ applyC' = applyC /\ commitIndex' = commitIndex
               /\ \/ lastApplied'[i] = lastApplied[i] /\ applying'[i] = applying[i]
                  \/ lastApplied'[i] = applying[i] /\ applying'[i] = 0
    BY <1>1, <2>2 DEF RecordApplied, logVars, TypeOK
  <2>3. QED
    BY <1>7, <2>1, <2>2 DEF ApplyStep, Fed, Takes
<1>8. CASE UNCHANGED vars
    BY <1>2, <1>8 DEF vars, logVars, applyVars
<1>9. lastApplied' = lastApplied \/ ApplyStep
    BY <1>8 DEF NodeStep, ElectionStep, StartElection, HandleRequestVote, HandleVoteReply, VoteCallFails,
                TallyVotes, ReplicationStep, SendHeartbeats, Propose, ReadLog, HandleAppendEntries,
                RejectAppend, RefuseEntries, AcceptEntries, HandleAppendReply, AppendCallFails,
                applyVars, vars
<1>10. QED
    BY <1>5, <1>6, <1>7, <1>8, <1>9 DEF NodeStep

\* Nothing is queued or applied at the start.
LEMMA FeedInit == Init => FeedInv
<1> SUFFICES ASSUME Init, NEW i \in Server
             PROVE  /\ NoGap(Fed(i)) /\ HandedOut(i, lastApplied[i]) /\ HandedOut(i, applying[i])
                    /\ InTurn(Fed(i)) /\ EndsAt(Fed(i), commitIndex[i])
    BY DEF FeedInv
<1>1. applied[i] = <<>> /\ applyC[i] = <<>> /\ lastApplied[i] = 0 /\ applying[i] = 0
    BY DEF Init
<1>2. <<>> \in Seq(Entry) /\ Len(<<>>) = 0
    BY EmptySeq
<1>3. Fed(i) = <<>>
    BY <1>1, <1>2, ConcatEmptySeq DEF Fed
<1>4. QED
    BY <1>1, <1>2, <1>3 DEF NoGap, HandedOut, InTurn, EndsAt

\* What was handed out stays so, and what is being applied was just handed out.
LEMMA HandedOutStays ==
    ASSUME TypeOK, NEW i \in Server, Takes(i), HandedOut(i, applying[i])
    PROVE  /\ \A n \in Nat : HandedOut(i, n) => HandedOut(i, n)'
           /\ HandedOut(i, applying[i])'
<1>1. applied[i] \in Seq(Entry) /\ Len(applied[i]) \in Nat
    BY NodeTypes, LogType
<1>2. CASE applied'[i] = applied[i] /\ applying'[i] = applying[i]
    BY <1>2 DEF HandedOut
<1>3. ASSUME NEW en \in Entry, applied'[i] = Append(applied[i], en), applying'[i] = en.index
      PROVE  /\ \A n \in Nat : HandedOut(i, n) => HandedOut(i, n)'
             /\ HandedOut(i, applying[i])'
  <2>1. /\ Len(applied'[i]) = Len(applied[i]) + 1
        /\ \A k \in 1..Len(applied[i]) : applied'[i][k] = applied[i][k]
        /\ applied'[i][Len(applied[i]) + 1] = en
    BY <1>1, <1>3, AppendProperties
  <2>2. /\ \A k \in 1..Len(applied[i]) : k \in 1..Len(applied'[i])
        /\ Len(applied[i]) + 1 \in 1..Len(applied'[i])
    BY <1>1, <2>1
  <2>3. QED
    BY <1>3, <2>1, <2>2 DEF HandedOut
<1>4. QED
    BY <1>2, <1>3 DEF Takes

\* The applied entries are the first ones of what the node was fed.
LEMMA AppliedFirst == \A a, b \in Nat : \A l \in 1..a : l \in 1..(a + b) /\ l <= a
    OBVIOUS

\* The entries applied are the first ones fed.
LEMMA FedBegins ==
    ASSUME TypeOK, NEW i \in Server
    PROVE  /\ Fed(i) \in Seq(Entry)
           /\ \A l \in 1..Len(applied[i]) : l \in 1..Len(Fed(i)) /\ Fed(i)[l] = applied[i][l]
<1>1. applied[i] \in Seq(Entry) /\ applyC[i] \in Seq(Entry)
    BY NodeTypes
<1>2. PICK s \in Seq(Entry) : s = applied[i]
    BY <1>1
<1>3. PICK t \in Seq(Entry) : t = applyC[i]
    BY <1>1
<1>4. Len(s) \in Nat /\ Len(t) \in Nat
    BY LogType
<1>5. /\ s \o t \in Seq(Entry) /\ Len(s \o t) = Len(s) + Len(t)
      /\ \A l \in 1..(Len(s) + Len(t)) :
           (s \o t)[l] = IF l <= Len(s) THEN s[l] ELSE t[l - Len(s)]
    BY ConcatProperties
<1>6. \A l \in 1..Len(s) : l \in 1..(Len(s) + Len(t)) /\ l <= Len(s)
    BY <1>4, AppliedFirst
<1>7. \A l \in 1..Len(s) : l \in 1..Len(s \o t) /\ (s \o t)[l] = s[l]
    BY <1>5, <1>6
<1>8. QED
    BY <1>2, <1>3, <1>5, <1>7 DEF Fed

\* Every step keeps the invariant of the queue, if it leaves the queue with room.
LEMMA FeedStep == CommitInv /\ FeedInv /\ QueueHasRoom' /\ [NodeStep]_vars => FeedInv'
<1> SUFFICES ASSUME CommitInv, FeedInv, QueueHasRoom', [NodeStep]_vars, NEW i \in Server
             PROVE  /\ NoGap(Fed(i))' /\ HandedOut(i, lastApplied[i])' /\ HandedOut(i, applying[i])'
                    /\ ~staleAck' => InTurn(Fed(i))' /\ EndsAt(Fed(i), commitIndex[i])'
    BY DEF FeedInv
<1>1. AckInv /\ LogInv /\ TypeOK /\ HeldCommitted
    BY StepFacts DEF CommitInv, AckInv, MatchInv
<1>2. /\ NoGap(Fed(i)) /\ HandedOut(i, lastApplied[i]) /\ HandedOut(i, applying[i])
      /\ lastApplied[i] \in Nat /\ applying[i] \in Nat
      /\ applied[i] \in Seq(Entry) /\ applyC[i] \in Seq(Entry) /\ Len(applied[i]) \in Nat
    BY <1>1, NodeTypes, LogType DEF FeedInv
<1>3. ASSUME Takes(i), lastApplied'[i] = lastApplied[i]
      PROVE  HandedOut(i, lastApplied[i])' /\ HandedOut(i, applying[i])'
  <2>1. HandedOut(i, applying[i])' /\ \A n \in Nat : HandedOut(i, n) => HandedOut(i, n)'
    BY <1>1, <1>2, <1>3, HandedOutStays
  <2>2. QED
    BY <1>2, <1>3, <2>1 DEF HandedOut
<1>4. ASSUME ~staleAck'
      PROVE  /\ ~staleAck /\ InTurn(Fed(i)) /\ EndsAt(Fed(i), commitIndex[i])
             /\ commitIndex[i] \in Nat /\ commitIndex'[i] \in Nat /\ commitIndex'[i] >= commitIndex[i]
    BY <1>1, <1>4, MatchMoves, CommitKept DEF FeedInv
<1>5. ASSUME Fed(i)' = Fed(i), commitIndex'[i] = commitIndex[i]
      PROVE  NoGap(Fed(i))' /\ (~staleAck' => InTurn(Fed(i))' /\ EndsAt(Fed(i), commitIndex[i])')
    BY <1>2, <1>4, <1>5 DEF NoGap, InTurn, EndsAt
<1>6. ASSUME applied'[i] = applied[i], lastApplied'[i] = applying[i], applying'[i] = 0
      PROVE  HandedOut(i, lastApplied[i])' /\ HandedOut(i, applying[i])'
    BY <1>2, <1>6 DEF HandedOut
<1>7. ASSUME Takes(i), lastApplied'[i] = lastApplied[i], Pushes(i)
      PROVE  NoGap(Fed(i))' /\ (~staleAck' => InTurn(Fed(i))' /\ EndsAt(Fed(i), commitIndex[i])')
  <2>1. PICK lg \in Seq(Entry), commit \in Nat :
           /\ commit = commitIndex'[i] /\ commit <= Len(lg) /\ \A k \in 1..Len(lg) : lg[k].index = k
           /\ Fed(i)' = Fed(i) \o SubSeq(lg, lastApplied[i] + 1, commit)
    BY <1>7 DEF Pushes
  <2>2. /\ Fed(i) \in Seq(Entry)
        /\ \A k \in 1..Len(applied[i]) : k \in 1..Len(Fed(i)) /\ Fed(i)[k] = applied[i][k]
    BY <1>1, FedBegins
  <2>3. lastApplied[i] = 0 \/ \E k \in 1..Len(Fed(i)) : Fed(i)[k].index = lastApplied[i]
    BY <1>2, <2>2 DEF HandedOut
  <2>4. PICK s \in Seq(Entry) : s = Fed(i)
    BY <2>2
  <2>5. PICK n \in Nat : n = lastApplied[i]
    BY <1>2
  <2>6. PICK new : new = s \o SubSeq(lg, n + 1, commit)
    OBVIOUS
  <2>7. Fed(i)' = new
    BY <2>1, <2>4, <2>5, <2>6
  <2>8. NoGap(new)
    BY <1>2, <2>1, <2>3, <2>4, <2>5, <2>6, PushLeavesNoGap
  <2>9. ASSUME ~staleAck' PROVE InTurn(new) /\ EndsAt(new, commit)
    <3>1. PICK old \in Nat : old = commitIndex[i]
      BY <1>4, <2>9
    <3>2. InTurn(s) /\ EndsAt(s, old) /\ old <= commit
      BY <1>4, <2>1, <2>4, <2>9, <3>1
    <3>3. n <= old
      <4>1. CASE n = 0
        BY <4>1
      <4>2. ASSUME NEW k \in 1..Len(applied[i]), applied[i][k].index = n PROVE n <= old
        <5>1. applied[i][k] \in Held(i)
          BY DEF Held, Elements
        <5>2. n \in 1..commitIndex[i]
          BY <1>1, <1>4, <2>9, <4>2, <5>1 DEF HeldCommitted
        <5>3. QED
          BY <3>1, <5>2
      <4>3. QED
        BY <1>2, <2>5, <4>1, <4>2 DEF HandedOut
    <3>4. s = <<>> => n = 0
      <4>1. Len(s) = 0 => ~\E k \in 1..Len(s) : TRUE
        OBVIOUS
      <4>2. QED
        BY <2>3, <2>4, <2>5, <4>1, EmptySeq
    <3>5. QED
      BY <2>1, <2>6, <3>2, <3>3, <3>4, PushInTurn
  <2>10. QED
    BY <2>1, <2>7, <2>8, <2>9 DEF NoGap, InTurn, EndsAt
<1>8. QED
    BY <1>1, <1>3, <1>5, <1>6, <1>7, FeedMoves

-----------------------------------------------------------------------------
(***************************************************************************)
(* One log.                                                                *)
(***************************************************************************)
\* Among finitely many nodes one has the largest number.
LEMMA SomeNodeIsForemost ==
    ASSUME NEW f \in [Server -> Nat]
    PROVE  \E i \in Server : \A j \in Server : f[j] <= f[i]
<1> DEFINE Tops(P) == {i \in P : \A j \in P : f[j] <= f[i]}
           Bad == {n \in Nat : \E P \in SUBSET Server : P # {} /\ Cardinality(P) = n /\ Tops(P) = {}}
<1>1. ASSUME Bad # {} PROVE FALSE
  <2>1. Min(Bad) \in Bad /\ \A m \in Bad : Min(Bad) <= m
    <3>1. Bad \in SUBSET Nat
      OBVIOUS
    <3> HIDE DEF Bad
    <3>2. QED
      BY <1>1, <3>1, MinOfNats
  <2>2. PICK n : n = Min(Bad)
    OBVIOUS
  <2>3. PICK P \in SUBSET Server : P # {} /\ Cardinality(P) = n /\ Tops(P) = {}
    BY <2>1, <2>2
  <2>4. PICK x \in P : TRUE
    BY <2>3
  <2>5. IsFiniteSet(P) /\ IsFiniteSet(P \ {x}) /\ Cardinality(P \ {x}) = n - 1 /\ n \in Nat
    <3>1. IsFiniteSet(P)
      BY ServerAssumption, FS_Subset
    <3>2. QED
      BY <2>1, <2>2, <2>3, <2>4, <3>1, FS_RemoveElement
  <2>6. n - 1 \in Nat
    BY <2>5, FS_CardinalityType
  <2>7. n - 1 \notin Bad
    <3> HIDE DEF Bad
    <3>1. ~(n <= n - 1)
      BY <2>5
    <3>2. QED
      BY <2>1, <2>2, <3>1
  <2>8. P \ {x} = {} \/ Tops(P \ {x}) # {}
    BY <2>5, <2>6, <2>7
  <2>9. \A i \in P : f[i] \in Nat
    OBVIOUS
  <2>10. CASE P \ {x} = {}
    <3>1. \A j \in P : f[j] <= f[x]
      BY <2>4, <2>9, <2>10
    <3>2. QED
      BY <2>3, <2>4, <3>1
  <2>11. ASSUME NEW y \in Tops(P \ {x}) PROVE FALSE
    <3>1. y \in P /\ \A j \in P : j = x \/ f[j] <= f[y]
      BY <2>11
    <3>2. CASE f[x] <= f[y]
      <4>1. \A j \in P : f[j] <= f[y]
        BY <3>1, <3>2
      <4>2. QED
        BY <2>3, <3>1, <4>1
    <3>3. CASE ~(f[x] <= f[y])
      <4>1. \A j \in P : f[j] <= f[x]
        BY <2>4, <2>9, <3>1, <3>3
      <4>2. QED
        BY <2>3, <2>4, <4>1
    <3>4. QED
      BY <3>2, <3>3
  <2>12. QED
    BY <2>8, <2>10, <2>11
<1>2. IsFiniteSet(Server) /\ Server # {}
  BY ServerAssumption
<1>3. Cardinality(Server) \in Nat
  BY <1>2, FS_CardinalityType
<1>4. Tops(Server) # {}
  BY <1>1, <1>2, <1>3
<1>5. QED
  BY <1>4

\* The node that decides is one whose commit index is the largest.
LEMMA ForemostLeads ==
    ASSUME commitIndex \in [Server -> Nat]
    PROVE  Foremost \in Server /\ \A j \in Server : commitIndex[j] <= commitIndex[Foremost]
<1>1. \E i \in Server : \A j \in Server : commitIndex[j] <= commitIndex[i]
    BY SomeNodeIsForemost
<1>2. QED
    BY <1>1, Zenon DEF Foremost

\* Two nodes have committed the same entries as far as both have.
LEMMA CommitsAgree ==
    ASSUME CommitInv, ~staleAck, NEW i \in Server, NEW j \in Server, commitIndex[i] <= commitIndex[j]
    PROVE  HasUpTo(log[j], commitIndex[i], log[i])
<1> DEFINE n == commitIndex[i]
           m == commitIndex[j]
<1>1. TypeOK /\ CommitsDurable
    BY DEF CommitInv, AckInv, MatchInv, LogInv, TypeInv
<1>2. n \in Nat /\ m \in Nat /\ Len(log[i]) \in Nat /\ Len(log[j]) \in Nat /\ n <= m
    BY <1>1, NodeTypes
<1>3. CASE n = 0
    BY <1>2, <1>3 DEF HasUpTo
<1>4. CASE n > 0
  <2>1. PICK pre \in Prefix : Durable(pre) /\ n <= Len(pre) /\ HasUpTo(log[i], n, pre)
    BY <1>1, <1>4 DEF CommitsDurable
  <2>2. m > 0
    BY <1>2, <1>4
  <2>3. PICK qre \in Prefix : Durable(qre) /\ m <= Len(qre) /\ HasUpTo(log[j], m, qre)
    BY <1>1, <2>2 DEF CommitsDurable
  <2>4. PICK Q \in SUBSET Server : GuardedBy(Q, pre)
    BY <2>1 DEF Durable
  <2>5. PICK R \in SUBSET Server : GuardedBy(R, qre)
    BY <2>3 DEF Durable
  <2>6. PICK p \in Q : p \in R
    BY <2>4, <2>5, MajoritiesMeet DEF GuardedBy
  <2>7. Has(log[p], pre) /\ Has(log[p], qre)
    BY <2>4, <2>5, <2>6 DEF GuardedBy, Guard
  <2>8. Len(pre) \in Nat /\ Len(qre) \in Nat
    BY PrefixType
  <2> HIDE DEF n, m
  <2>9. ASSUME NEW k \in 1..n PROVE log[j][k] = log[i][k]
    <3>1. k \in 1..m /\ k \in 1..Len(pre) /\ k \in 1..Len(qre)
      BY <1>2, <2>1, <2>3, <2>8
    <3>2. log[i][k] = pre[k] /\ log[j][k] = qre[k] /\ log[p][k] = pre[k] /\ log[p][k] = qre[k]
      BY <2>1, <2>3, <2>7, <3>1 DEF Has, HasUpTo
    <3>3. QED
      BY <3>2
  <2>10. n <= Len(log[j]) /\ n <= Len(log[i])
    BY <1>2, <2>1, <2>3 DEF HasUpTo
  <2>11. QED
    BY <2>9, <2>10 DEF HasUpTo, n
<1>5. QED
    BY <1>2, <1>3, <1>4

\* d is what every node has committed, as far as it has, and no more.
Decides(d) ==
    /\ d \in Seq(Entry)
    /\ \E i \in Server : Len(d) = commitIndex[i]
    /\ \A i \in Server : commitIndex[i] <= Len(d) /\ HasUpTo(log[i], commitIndex[i], d)

\* What the mapping takes for decided is that.
DecidedSound == ~staleAck => Decides(Committed(Foremost))

\* Durable prefixes of two nodes meet in a node of both majorities.
LEMMA DecidedNow == CommitInv => DecidedSound
<1> SUFFICES ASSUME CommitInv, ~staleAck PROVE Decides(Committed(Foremost))
    BY DEF DecidedSound
<1> DEFINE n == commitIndex[Foremost]
<1>1. TypeOK
    BY DEF CommitInv, AckInv, MatchInv, LogInv, TypeInv
<1>2. Foremost \in Server /\ \A j \in Server : commitIndex[j] <= n
    BY <1>1, ForemostLeads DEF TypeOK
<1>3. PICK f \in Server : f = Foremost
    BY <1>2
<1>4. /\ log[f] \in Seq(Entry) /\ Len(log[f]) \in Nat /\ commitIndex[f] \in Nat
      /\ \A j \in Server : commitIndex[j] \in Nat
    BY <1>1, NodeTypes
<1>5. commitIndex[f] <= Len(log[f])
  <2>1. HasUpTo(log[f], commitIndex[f], log[f])
    BY <1>4, CommitsAgree
  <2>2. QED
    BY <2>1 DEF HasUpTo
<1>6. Committed(f) = SubSeq(log[f], 1, commitIndex[f])
    BY <1>4, <1>5 DEF Committed, Smaller
<1>7. PICK d : d = Committed(f)
    OBVIOUS
<1>8. /\ d \in Seq(Entry) /\ Len(d) = commitIndex[f]
      /\ \A k \in 1..commitIndex[f] : d[k] = log[f][k]
  <2>1. 1 \in Nat \ {0}
    OBVIOUS
  <2>2. /\ d \in Seq(Entry)
        /\ Len(d) = IF 1 <= commitIndex[f] THEN commitIndex[f] - 1 + 1 ELSE 0
        /\ \A k \in 1..(commitIndex[f] - 1 + 1) : d[k] = log[f][1 + k - 1]
    BY <1>4, <1>5, <1>6, <1>7, <2>1, PartOfLog
  <2>3. commitIndex[f] - 1 + 1 = commitIndex[f] /\ \A k \in 1..commitIndex[f] : 1 + k - 1 = k
    BY <1>4
  <2>4. QED
    BY <1>4, <2>2, <2>3
<1>9. ASSUME NEW i \in Server PROVE commitIndex[i] <= Len(d) /\ HasUpTo(log[i], commitIndex[i], d)
  <2>1. commitIndex[i] <= commitIndex[f]
    BY <1>2, <1>3
  <2>2. HasUpTo(log[f], commitIndex[i], log[i])
    BY <2>1, CommitsAgree
  <2>3. \A k \in 1..commitIndex[i] : k \in 1..commitIndex[f]
    BY <1>4, <2>1
  <2>4. QED
    BY <1>8, <2>1, <2>2, <2>3 DEF HasUpTo
<1>10. QED
    BY <1>3, <1>7, <1>8, <1>9 DEF Decides

\* And after a step.
LEMMA DecidedNext == CommitInv /\ [NodeStep]_vars => DecidedSound'
    BY DecidedNow, CommitStep, PTL

\* A node's state machine is given an entry.
Gives(i) == \E en \in Entry : applied' = [applied EXCEPT ![i] = Append(@, en)]

\* A node's commit index is set.
Sets(i) == \E n \in Nat : commitIndex' = [commitIndex EXCEPT ![i] = n]

\* A push gives at most one entry, at the node whose commit index is set.
LEMMA NotifyGives ==
    ASSUME TypeOK, NEW i \in Server, NEW lg \in Seq(Entry), NEW commit \in Nat, commit <= Len(lg),
           NotifyApplier(i, lg, commit)
    PROVE  UNCHANGED applied \/ Gives(i)
<1> DEFINE batch == Unapplied(i, lg, commit)
<1>1. lastApplied[i] \in Nat /\ applyC[i] \in Seq(Entry)
    BY NodeTypes
<1>2. batch \in Seq(Entry) /\ Len(batch) \in Nat
  <2>1. lastApplied[i] + 1 \in Nat \ {0}
    BY <1>1
  <2>2. QED
    BY <2>1, PartOfLog, LogType DEF Unapplied
<1> HIDE DEF batch
<1>3. ASSUME NEW k \in 1..(Len(batch) - 1), NEW before, before = Offer(applyC[i], SubSeq(batch, 1, k)),
             before # <<>>, applied' = [applied EXCEPT ![i] = Append(@, Head(before))]
      PROVE  Gives(i)
  <2>1. 1 \in Nat \ {0} /\ k \in Nat /\ k <= Len(batch)
    BY <1>2
  <2>2. SubSeq(batch, 1, k) \in Seq(Entry)
    BY <1>2, <2>1, PartOfLog
  <2>3. before \in Seq(Entry)
    BY <1>1, <1>3, <2>2, OfferKept
  <2>4. Head(before) \in Entry
    BY <1>3, <2>3, HeadTailProperties
  <2>5. QED
    BY <1>3, <2>4 DEF Gives
<1>4. QED
    BY <1>3 DEF NotifyApplier, batch

\* What the abstract log sees of a step: a node's commit index is set, with an entry
\* given to its state machine or not, or an entry is given, or nothing.
LEMMA KnownMoves ==
    ASSUME CommitInv, [NodeStep]_vars, ~staleAck
    PROVE  \/ \E i \in Server : Sets(i) /\ (UNCHANGED applied \/ Gives(i))
           \/ UNCHANGED commitIndex /\ (UNCHANGED applied \/ \E i \in Server : Gives(i))
<1>1. LogInv /\ TypeOK /\ TypeOK'
    BY StepFacts DEF CommitInv, AckInv, MatchInv
<1>2. ASSUME NEW c \in DOMAIN appendCalls, Follows(c)
      PROVE  \E i \in Server : Sets(i) /\ (UNCHANGED applied \/ Gives(i))
  <2> DEFINE d == c.dst
             commit == Smaller(c.commit, c.prev + Len(c.entries))
  <2>1. /\ AcceptEntries(c) /\ c.phase = "sent" /\ c.commit > commitIndex[d]
        /\ commitIndex' = [commitIndex EXCEPT ![d] = commit] /\ NotifyApplier(d, log'[d], commit)
    BY <1>2 DEF Follows, AcceptEntries, AdoptLeader
  <2>2. /\ c.commit \in Nat /\ c.prev \in Nat /\ c.entries \in Seq(Entry) /\ d \in Server
        /\ Len(c.entries) \in Nat
    BY <1>1, <2>1, CallType, LogType
  <2>3. commitIndex[d] \in Nat /\ c.commit > 0
    <3>1. commitIndex[d] \in Nat
      BY <1>1, <2>2, NodeTypes
    <3>2. QED
      BY <2>1, <2>2, <3>1
  <2>4. PICK pre \in Prefix : c.commit <= Len(pre) /\ Has(log'[d], pre)
    BY <2>1, <2>3, FollowerCommits
  <2>5. log'[d] \in Seq(Entry) /\ Len(log'[d]) \in Nat /\ Len(pre) \in Nat
    BY <1>1, <2>2, LogType, PrefixType DEF TypeOK
  <2> HIDE DEF d
  <2>6. commit \in Nat /\ commit <= c.commit
    BY <2>2 DEF Smaller
  <2>7. commit <= Len(log'[d])
    BY <2>2, <2>4, <2>5, <2>6 DEF Has, HasUpTo
  <2> HIDE DEF commit
  <2>8. PICK lg \in Seq(Entry) : lg = log'[d]
    BY <2>5
  <2>9. NotifyApplier(d, lg, commit) /\ commit <= Len(lg)
    BY <2>1, <2>7, <2>8
  <2>10. UNCHANGED applied \/ Gives(d)
    BY <1>1, <2>2, <2>6, <2>9, NotifyGives
  <2>11. Sets(d)
    BY <2>1, <2>6 DEF Sets
  <2>12. QED
    BY <2>2, <2>10, <2>11
<1>3. ASSUME NEW c \in DOMAIN appendCalls, Commits(c)
      PROVE  \E i \in Server : Sets(i) /\ (UNCHANGED applied \/ Gives(i))
  <2> DEFINE L == c.src
             can == CommittableAt(L, Answered(c))
             n == Max(can)
  <2>1. can # {} /\ commitIndex' = [commitIndex EXCEPT ![L] = n] /\ NotifyApplier(L, log[L], n)
    BY <1>3 DEF Commits
  <2>2. L \in Server
    BY <1>1, CallType
  <2>3. log[L] \in Seq(Entry) /\ Len(log[L]) \in Nat /\ commitIndex[L] \in Nat
    BY <1>1, <2>2, NodeTypes
  <2>4. can \in SUBSET Nat /\ \A x \in can : x <= Len(log[L])
    BY <2>3 DEF CommittableAt
  <2> HIDE DEF L, can
  <2>5. n \in Nat /\ n <= Len(log[L])
    BY <2>1, <2>3, <2>4, MaxOfNats
  <2> HIDE DEF n
  <2>6. UNCHANGED applied \/ Gives(L)
    BY <1>1, <2>1, <2>2, <2>3, <2>5, NotifyGives
  <2>7. Sets(L)
    BY <2>1, <2>5 DEF Sets
  <2>8. QED
    BY <2>2, <2>6, <2>7
<1>4. CASE ElectionStep
    BY <1>4 DEF ElectionStep, StartElection, HandleRequestVote, HandleVoteReply, VoteCallFails,
                TallyVotes, logVars, applyVars
<1>5. CASE ReplicationStep
  <2>1. ASSUME NEW i \in Server, SendHeartbeats(i) PROVE UNCHANGED <<commitIndex, applied>>
    BY <2>1 DEF SendHeartbeats, logVars, applyVars
  <2>2. ASSUME NEW i \in Server, NEW cmd \in Command, Propose(i, cmd)
        PROVE  UNCHANGED <<commitIndex, applied>>
    BY <2>2 DEF Propose, applyVars
  <2>3. ASSUME NEW c \in DOMAIN appendCalls,
               ReadLog(c) \/ RejectAppend(c) \/ RefuseEntries(c) \/ AppendCallFails(c)
        PROVE  UNCHANGED <<commitIndex, applied>>
    BY <2>3 DEF ReadLog, RejectAppend, RefuseEntries, AppendCallFails, logVars, applyVars
  <2>4. ASSUME NEW c \in DOMAIN appendCalls, AcceptEntries(c)
        PROVE  (UNCHANGED <<commitIndex, applied>>) \/ Follows(c)
    <3>1. log'[c.dst] = Merge(log[c.dst], c.prev, c.entries)
      BY <1>1, <2>4, CallType DEF AcceptEntries, TypeOK
    <3>2. QED
      BY <2>4, <3>1 DEF AcceptEntries, Follows, LeaderIsAhead
  <2>5. ASSUME NEW c \in DOMAIN appendCalls, HandleAppendReply(c)
        PROVE  (UNCHANGED <<commitIndex, applied>>) \/ Commits(c)
    <3>1. (UNCHANGED <<commitIndex, applied>>) \/ Acks(c)
      BY <2>5 DEF HandleAppendReply, Acks, nodeVars
    <3>2. ASSUME Acks(c) PROVE (UNCHANGED <<commitIndex, applied>>) \/ Commits(c)
      BY <3>2 DEF Acks, UpdateCommitIndex, Commits, Answered
    <3>3. QED
      BY <3>1, <3>2
  <2>6. QED
    BY <1>2, <1>3, <1>5, <2>1, <2>2, <2>3, <2>4, <2>5 DEF ReplicationStep, HandleAppendEntries
<1>6. CASE ApplyStep
  <2>1. ASSUME NEW i \in Server, TakeEntry(i) PROVE UNCHANGED commitIndex /\ Gives(i)
    <3>1. applyC[i] \in Seq(Entry) /\ applyC[i] # <<>>
      BY <1>1, <2>1, NodeTypes DEF TakeEntry
    <3>2. Head(applyC[i]) \in Entry
      BY <3>1, HeadTailProperties
    <3>3. QED
      BY <2>1, <3>2 DEF TakeEntry, logVars, Gives
  <2>2. ASSUME NEW i \in Server, RecordApplied(i) PROVE UNCHANGED <<commitIndex, applied>>
    BY <2>2 DEF RecordApplied, logVars
  <2>3. QED
    BY <1>6, <2>1, <2>2 DEF ApplyStep
<1>7. CASE UNCHANGED vars
    BY <1>7 DEF vars, logVars, applyVars
<1>8. QED
    BY <1>4, <1>5, <1>6, <1>7 DEF NodeStep

\* From one step to the next what is decided only grows, and as far as some commit
\* index reaches.
LEMMA DecidedGrows ==
    ASSUME CommitInv, [NodeStep]_vars, ~staleAck', NEW d, d = Committed(Foremost),
           NEW e, e = Committed(Foremost)'
    PROVE  /\ d \in Seq(Entry) /\ e \in Seq(Entry) /\ Len(d) \in Nat /\ Len(e) \in Nat
           /\ \E i \in Server : Len(d) = commitIndex[i]
           /\ \E i \in Server : Len(e) = commitIndex'[i]
           /\ \A i \in Server : commitIndex[i] <= Len(d) /\ commitIndex'[i] <= Len(e)
           /\ \A i \in Server : HasUpTo(log'[i], commitIndex'[i], e)
           /\ Len(d) <= Len(e) /\ SubSeq(e, 1, Len(d)) = d
<1>1. AckInv /\ TypeOK /\ TypeOK'
    BY StepFacts DEF CommitInv, AckInv, MatchInv
<1>2. ~staleAck
    BY <1>1, MatchMoves
<1>3. Decides(d)
    BY <1>2, DecidedNow DEF DecidedSound
<1>4. /\ e \in Seq(Entry)
      /\ \E i \in Server : Len(e) = commitIndex'[i]
      /\ \A i \in Server : commitIndex'[i] <= Len(e) /\ HasUpTo(log'[i], commitIndex'[i], e)
  <2>1. Decides(Committed(Foremost))'
    BY DecidedNext DEF DecidedSound
  <2>2. QED
    BY <2>1 DEF Decides
<1>5. Len(d) \in Nat /\ Len(e) \in Nat
    BY <1>3, <1>4, LogType DEF Decides
<1>6. PICK i \in Server : Len(d) = commitIndex[i]
    BY <1>3 DEF Decides
<1>7. /\ commitIndex[i] \in Nat /\ commitIndex'[i] \in Nat /\ commitIndex'[i] >= commitIndex[i]
      /\ HasUpTo(log'[i], commitIndex[i], log[i])
    BY CommitKept
<1>8. Len(d) <= Len(e)
  <2>1. commitIndex'[i] <= Len(e)
    BY <1>4
  <2>2. QED
    BY <1>5, <1>6, <1>7, <2>1
<1>9. ASSUME NEW k \in 1..Len(d) PROVE e[k] = d[k]
  <2>1. k \in 1..commitIndex[i] /\ k \in 1..commitIndex'[i]
    BY <1>5, <1>6, <1>7
  <2>2. log'[i][k] = e[k]
    BY <1>4, <2>1 DEF HasUpTo
  <2>3. log'[i][k] = log[i][k]
    BY <1>7, <2>1 DEF HasUpTo
  <2>4. HasUpTo(log[i], commitIndex[i], d)
    BY <1>3 DEF Decides
  <2>5. log[i][k] = d[k]
    BY <2>1, <2>4 DEF HasUpTo
  <2>6. QED
    BY <2>2, <2>3, <2>5
<1>10. SubSeq(e, 1, Len(d)) = d
  <2>1. d \in Seq(Entry)
    BY <1>3 DEF Decides
  <2>2. SubSeq(e, 1, Len(d)) = SubSeq(d, 1, Len(d))
    BY <1>4, <1>5, <1>8, <1>9, <2>1, SamePrefix
  <2>3. QED
    BY <2>1, <2>2, SubSeqFull
<1>11. QED
    BY <1>3, <1>4, <1>5, <1>8, <1>10 DEF Decides

\* Without a new commit index nothing is decided.
LEMMA DecidedStays ==
    ASSUME CommitInv, [NodeStep]_vars, ~staleAck', UNCHANGED commitIndex
    PROVE  UNCHANGED Committed(Foremost)
<1>1. PICK d : d = Committed(Foremost)
    OBVIOUS
<1>2. PICK e : e = Committed(Foremost)'
    OBVIOUS
<1>3. /\ d \in Seq(Entry) /\ e \in Seq(Entry) /\ Len(d) \in Nat /\ Len(e) \in Nat
      /\ \E i \in Server : Len(e) = commitIndex'[i]
      /\ \A i \in Server : commitIndex[i] <= Len(d)
      /\ Len(d) <= Len(e) /\ SubSeq(e, 1, Len(d)) = d
    BY <1>1, <1>2, DecidedGrows
<1>4. Len(e) = Len(d)
    BY <1>3
<1>5. SubSeq(e, 1, Len(e)) = e
    BY <1>3, SubSeqFull
<1>6. QED
    BY <1>1, <1>2, <1>3, <1>4, <1>5

\* A commit index that moves is a step of the abstract log.
LEMMA SetsLearn ==
    ASSUME CommitInv, [NodeStep]_vars, ~staleAck', NEW i \in Server, Sets(i)
    PROVE  UNCHANGED commitIndex \/ OneLog!Learn(i)
<1>1. PICK d : d = Committed(Foremost)
    OBVIOUS
<1>2. PICK e : e = Committed(Foremost)'
    OBVIOUS
<1>3. /\ d \in Seq(Entry) /\ e \in Seq(Entry) /\ Len(d) \in Nat /\ Len(e) \in Nat
      /\ \E j \in Server : Len(e) = commitIndex'[j]
      /\ \A j \in Server : commitIndex[j] <= Len(d) /\ commitIndex'[j] <= Len(e)
      /\ Len(d) <= Len(e) /\ SubSeq(e, 1, Len(d)) = d
    BY <1>1, <1>2, DecidedGrows
<1>4. TypeOK
    BY DEF CommitInv, AckInv, MatchInv, LogInv, TypeInv
<1>5. PICK n \in Nat : commitIndex' = [commitIndex EXCEPT ![i] = n]
    BY DEF Sets
<1>6. commitIndex \in [Server -> Nat] /\ commitIndex'[i] = n
    BY <1>4, <1>5 DEF TypeOK
<1>7. commitIndex[i] \in Nat /\ n >= commitIndex[i]
    BY <1>6, CommitKept
<1>8. CASE n = commitIndex[i]
    BY <1>5, <1>6, <1>8
<1>9. CASE n > commitIndex[i]
  <2>1. Len(e) = IF n > Len(d) THEN n ELSE Len(d)
    <3>1. PICK j \in Server : Len(e) = commitIndex'[j]
      BY <1>3
    <3>2. n <= Len(e)
      BY <1>3, <1>6
    <3>3. CASE j = i
      BY <1>3, <1>6, <3>1, <3>3
    <3>4. CASE j # i
      <4>1. Len(e) = commitIndex[j]
        BY <1>5, <1>6, <3>1, <3>4
      <4>2. Len(e) <= Len(d)
        BY <1>3, <4>1
      <4>3. QED
        BY <1>3, <3>2, <4>2
    <3>5. QED
      BY <3>3, <3>4
  <2>2. commitIndex'[i] > commitIndex[i] /\ commitIndex' = [commitIndex EXCEPT ![i] = commitIndex'[i]]
    BY <1>5, <1>6, <1>9
  <2>3. /\ Committed(Foremost)' \in Seq(Entry)
        /\ Len(Committed(Foremost)') = IF commitIndex'[i] > Len(Committed(Foremost))
                                       THEN commitIndex'[i] ELSE Len(Committed(Foremost))
        /\ SubSeq(Committed(Foremost)', 1, Len(Committed(Foremost))) = Committed(Foremost)
    BY <1>1, <1>2, <1>3, <1>6, <2>1
  <2>4. QED
    BY <2>2, <2>3 DEF OneLog!Learn
<1>10. QED
    BY <1>6, <1>7, <1>8, <1>9

\* An entry given to a state machine is one of those decided, as far as its node knows.
LEMMA GivesHand ==
    ASSUME CommitInv, [NodeStep]_vars, ~staleAck', NEW i \in Server, Gives(i)
    PROVE  OneLog!Hand(i)
<1>1. PICK en \in Entry : applied' = [applied EXCEPT ![i] = Append(@, en)]
    BY DEF Gives
<1>2. TypeOK /\ TypeOK' /\ HeldCommitted'
    BY StepFacts, HeldCommittedStep DEF CommitInv, AckInv, MatchInv
<1>3. applied'[i] = Append(applied[i], en) /\ applied[i] \in Seq(Entry)
    BY <1>1, <1>2, NodeTypes DEF TypeOK
<1>4. en \in Elements(applied'[i])
  <2>1. Elements(applied'[i]) = Elements(applied[i]) \cup {en}
    BY <1>3, ElementsKept
  <2>2. QED
    BY <2>1
<1>5. en \in Held(i)'
    BY <1>4 DEF Held
<1>6. en.index \in 1..commitIndex'[i] /\ log'[i][en.index] = en
    BY <1>2, <1>5 DEF HeldCommitted
<1>7. PICK e : e = Committed(Foremost)'
    OBVIOUS
<1>8. HasUpTo(log'[i], commitIndex'[i], e)
  <2>1. PICK d : d = Committed(Foremost)
    OBVIOUS
  <2>2. QED
    BY <1>7, <2>1, DecidedGrows
<1>9. e[en.index] = en
    BY <1>6, <1>8 DEF HasUpTo
<1>10. applied' = [applied EXCEPT ![i] = Append(@, Committed(Foremost)'[en.index])]
    BY <1>1, <1>7, <1>9
<1>11. QED
    BY <1>6, <1>10 DEF OneLog!Hand

\* Every step of the nodes is a step of the abstract log, or none.
LEMMA StepImplements ==
    ASSUME CommitInv, [NodeStep]_vars, ~overwritten, ~overwritten'
    PROVE  [OneLog!Next]_(OneLog!vars)
<1>1. AckInv /\ TypeOK /\ TypeOK'
    BY StepFacts DEF CommitInv, AckInv, MatchInv
<1>2. CASE staleAck'
    BY <1>2 DEF OneLog!Next, OneLog!Break, Undisturbed
<1>3. CASE ~staleAck'
  <2>1. ~staleAck
    BY <1>1, <1>3, MatchMoves
  <2>2. UNCHANGED ~Undisturbed
    BY <1>3, <2>1 DEF Undisturbed
  <2>3. ASSUME UNCHANGED commitIndex, UNCHANGED applied
        PROVE  UNCHANGED OneLog!vars
    BY <1>3, <2>2, <2>3, DecidedStays DEF OneLog!vars
  <2>4. ASSUME NEW i \in Server, UNCHANGED commitIndex, Gives(i)
        PROVE  OneLog!Next
    BY <1>3, <2>2, <2>4, DecidedStays, GivesHand DEF OneLog!Next
  <2>5. ASSUME NEW i \in Server, OneLog!Learn(i), UNCHANGED applied \/ Gives(i)
        PROVE  OneLog!Next
    BY <1>3, <2>2, <2>5, GivesHand DEF OneLog!Next
  <2>6. ASSUME NEW i \in Server, Sets(i), UNCHANGED applied \/ Gives(i)
        PROVE  [OneLog!Next]_(OneLog!vars)
    BY <1>3, <2>3, <2>4, <2>5, <2>6, SetsLearn
  <2>7. QED
    BY <2>1, <2>3, <2>4, <2>6, KnownMoves
<1>4. QED
    BY <1>2, <1>3

\* At the start nothing is decided.
LEMMA InitImplements == Init => OneLog!Init
<1> SUFFICES ASSUME Init PROVE OneLog!Init
    OBVIOUS
<1>1. /\ commitIndex = [i \in Server |-> 0] /\ applied = [i \in Server |-> <<>>]
      /\ (~Undisturbed) = FALSE
      /\ \A i \in Server : log[i] = <<>>
    BY DEF Init, Undisturbed
<1>2. Foremost \in Server
    BY <1>1, ForemostLeads
<1>3. Committed(Foremost) = SubSeq(<<>>, 1, Smaller(0, 0))
    BY <1>1, <1>2, EmptySeq DEF Committed
<1>4. Smaller(0, 0) = 0 /\ SubSeq(<<>>, 1, 0) = <<>>
    BY SubSeqEmpty DEF Smaller
<1>5. QED
    BY <1>1, <1>3, <1>4 DEF OneLog!Init

-----------------------------------------------------------------------------
(***************************************************************************)
(* The theorems.                                                           *)
(***************************************************************************)
\* What a node has committed is in the logs of a majority, in every behaviour in
\* which no leader has counted an answer to a request of an earlier term and no
\* request has carried other entries than were read: commit indexes move only in
\* updateCommitIndex and in handleAppendEntries, which follows a number it was sent.
THEOREM CommittedIsReplicated == Spec => []CommittedOnMajority
<1>1. (~overwritten => CommitInv) => CommittedOnMajority
  <2> SUFFICES ASSUME CommitInv, ~staleAck, NEW i \in Server, NEW n \in 1..commitIndex[i]
               PROVE  n <= Len(log[i]) /\ Cardinality(Holders(i, n)) >= Majority
      BY DEF CommittedOnMajority, MajorityHoldsCommitted, Undisturbed
  <2>1. TypeOK /\ CommitsDurable
      BY DEF CommitInv, AckInv, MatchInv, LogInv, TypeInv
  <2>2. commitIndex[i] \in Nat /\ commitIndex[i] > 0 /\ Len(log[i]) \in Nat
      BY <2>1, NodeTypes
  <2>3. PICK pre \in Prefix : /\ Durable(pre) /\ commitIndex[i] <= Len(pre)
                              /\ HasUpTo(log[i], commitIndex[i], pre)
      BY <2>1, <2>2 DEF CommitsDurable
  <2>4. Len(pre) \in Nat /\ n \in 1..Len(pre)
      BY <2>2, <2>3, PrefixType
  <2>5. n <= Len(log[i]) /\ log[i][n] = pre[n]
      BY <2>2, <2>3 DEF HasUpTo
  <2>6. PICK quorum \in SUBSET Server : GuardedBy(quorum, pre)
      BY <2>3 DEF Durable
  <2>7. quorum \subseteq Holders(i, n)
    <3>1. ASSUME NEW j \in quorum PROVE n <= Len(log[j]) /\ log[j][n] = log[i][n]
      <4>1. Has(log[j], pre) /\ Len(log[j]) \in Nat
          BY <2>1, <2>6, NodeTypes DEF GuardedBy, Guard
      <4>2. QED
          BY <2>4, <2>5, <4>1 DEF Has, HasUpTo
    <3>2. QED
        BY <3>1 DEF Holders
  <2>8. Cardinality(quorum) <= Cardinality(Holders(i, n))
    <3>1. IsFiniteSet(Holders(i, n))
        BY ServerAssumption, FS_Subset DEF Holders
    <3>2. QED
        BY <2>7, <3>1, FS_Subset
  <2>9. /\ Majority \in Nat /\ Cardinality(quorum) \in Nat /\ Cardinality(Holders(i, n)) \in Nat
        /\ Cardinality(quorum) >= Majority
    <3>1. IsFiniteSet(Holders(i, n)) /\ IsFiniteSet(quorum) /\ IsFiniteSet(Server)
        BY ServerAssumption, FS_Subset DEF Holders
    <3>2. Cardinality(Server) \in Nat
        BY <3>1, FS_CardinalityType
    <3>3. QED
        BY <2>6, <3>1, <3>2, FS_CardinalityType DEF GuardedBy, Majority
  <2>10. QED
      BY <2>5, <2>8, <2>9
<1>2. QED
    BY <1>1, CommitInvariant, PTL

\* A leader has every entry that any node of its term or an earlier one has
\* committed, with the same proviso: the log comparison of handleRequestVote is what
\* carries committed entries from one leader to the next, although ReadLog sends in
\* an old term what its node learnt in a later one.
THEOREM LeadersComplete == Spec => []LeaderCompleteness
<1>1. (~overwritten => CommitInv) => LeaderCompleteness
  <2> SUFFICES ASSUME CommitInv, ~staleAck, NEW i \in Server, NEW j \in Server,
                      state[j] = Leader, currentTerm[i] <= currentTerm[j]
               PROVE  /\ commitIndex[i] <= Len(log[j])
                      /\ SubSeq(log[i], 1, commitIndex[i]) = SubSeq(log[j], 1, commitIndex[i])
      BY DEF LeaderCompleteness, Undisturbed
  <2> DEFINE n == commitIndex[i]
  <2>1. TypeOK /\ CommitsDurable /\ VoteInv
      BY DEF CommitInv, AckInv, MatchInv, LogInv, TypeInv
  <2>2. /\ n \in Nat /\ log[i] \in Seq(Entry) /\ log[j] \in Seq(Entry)
        /\ Len(log[i]) \in Nat /\ Len(log[j]) \in Nat
        /\ currentTerm[i] \in Nat /\ currentTerm[j] \in Nat
      BY <2>1, NodeTypes
  <2>3. n <= Len(log[i]) /\ n <= Len(log[j]) /\ \A k \in 1..n : log[i][k] = log[j][k]
    <3>1. CASE n = 0
        BY <2>2, <3>1
    <3>2. CASE n > 0
      <4>1. PICK pre \in Prefix : /\ Durable(pre) /\ TermOf(pre) <= currentTerm[i]
                                  /\ n <= Len(pre) /\ HasUpTo(log[i], n, pre)
          BY <2>1, <3>2 DEF CommitsDurable
      <4>2. [node |-> j, term |-> currentTerm[j]] \in winners
          BY <2>1 DEF VoteInv, ElectionSafety
      <4>3. TermOf(pre) \in Nat /\ Len(pre) \in Nat
          BY PrefixType
      <4>4. currentTerm[j] >= TermOf(pre)
          BY <2>2, <4>1, <4>3
      <4>5. Has(log[j], pre)
          BY <4>1, <4>2, <4>4 DEF Durable, Firm, WinnersHave
      <4> HIDE DEF n
      <4>6. \A k \in 1..n : k \in 1..Len(pre)
          BY <2>2, <4>1, <4>3
      <4>7. QED
          BY <2>2, <4>1, <4>3, <4>5, <4>6 DEF Has, HasUpTo
    <3>3. QED
        BY <2>2, <3>1, <3>2
  <2> HIDE DEF n
  <2>4. QED
      BY <2>2, <2>3, SamePrefix DEF n
<1>2. QED
    BY <1>1, CommitInvariant, PTL

\* No step takes a commit index back, with the same proviso: the smaller of the
\* leader's commit index and the last entry sent, which handleAppendEntries assigns,
\* is always the former.
THEOREM CommitsMonotonic == Spec => CommitMonotonic
<1>1. (~overwritten => CommitInv) /\ [Next]_vars
        => [Undisturbed' => \A i \in Server : commitIndex'[i] >= commitIndex[i]]_vars
    BY CommitKept, StepOfNode DEF Undisturbed
<1>2. QED
    BY <1>1, CommitInvariant, PTL DEF Spec, CommitMonotonic

\* Only committed entries, as they stand in the log, are handed to the state
\* machine, with the same proviso: an entry that waits in applyC, where no handler
\* looks at it again, is never overtaken by a truncation.
THEOREM AppliedIsCommitted == Spec => []AppliedCommitted
<1>1. (~overwritten => CommitInv) => AppliedCommitted
  <2> SUFFICES ASSUME CommitInv, ~staleAck, NEW i \in Server, NEW k \in 1..Len(applied[i])
               PROVE  /\ applied[i][k].index <= commitIndex[i]
                      /\ log[i][applied[i][k].index] = applied[i][k]
      BY DEF AppliedCommitted, Undisturbed
  <2>1. applied[i][k] \in Held(i)
      BY DEF Held, Elements
  <2>2. /\ applied[i][k].index \in 1..commitIndex[i]
        /\ log[i][applied[i][k].index] = applied[i][k]
      BY <2>1 DEF CommitInv, HeldCommitted
  <2>3. commitIndex[i] \in Nat
      BY NodeTypes DEF CommitInv, AckInv, MatchInv, LogInv, TypeInv
  <2>4. QED
      BY <2>2, <2>3
<1>2. QED
    BY <1>1, CommitInvariant, PTL

\* As long as no push has found the queue full, which shows in a queue at its
\* capacity, no entry is applied for the first time before its predecessor, and (with
\* the same proviso) what is applied after an entry is the next one or an earlier one:
\* the pushes start after a lastApplied that is behind what waits in applyC and what
\* applyLoop has taken, so they repeat entries but leave none out.
THEOREM NoEntrySkipped == Spec /\ []QueueHasRoom => []AppliedWithoutGap
<1>1. (~overwritten => FeedInv /\ CommitInv) => AppliedWithoutGap
  <2> SUFFICES ASSUME FeedInv, CommitInv, NEW i \in Server, NEW k \in 1..Len(applied[i])
               PROVE  /\ applied[i][k].index > 1 =>
                           \E l \in 1..(k - 1) : applied[i][l].index = applied[i][k].index - 1
                      /\ ~staleAck => applied[i][k].index
                                        <= (IF k = 1 THEN 1 ELSE applied[i][k - 1].index + 1)
      BY DEF AppliedWithoutGap
  <2>1. TypeOK
      BY DEF CommitInv, AckInv, MatchInv, LogInv, TypeInv
  <2>2. applied[i] \in Seq(Entry) /\ Len(applied[i]) \in Nat
      BY <2>1, NodeTypes, LogType
  <2>3. \A l \in 1..Len(applied[i]) : l \in 1..Len(Fed(i)) /\ Fed(i)[l] = applied[i][l]
      BY <2>1, FedBegins
  <2>4. k \in 1..Len(Fed(i)) /\ Fed(i)[k] = applied[i][k]
      BY <2>3
  <2>5. ASSUME applied[i][k].index > 1
        PROVE  \E l \in 1..(k - 1) : applied[i][l].index = applied[i][k].index - 1
    <3>1. PICK l \in 1..(k - 1) : Fed(i)[l].index = Fed(i)[k].index - 1
        BY <2>4, <2>5 DEF FeedInv, NoGap
    <3>2. l \in 1..Len(applied[i])
        BY <2>2
    <3>3. Fed(i)[l] = applied[i][l]
        BY <2>3, <3>2
    <3>4. QED
        BY <2>4, <3>1, <3>3
  <2>6. ASSUME ~staleAck
        PROVE  applied[i][k].index <= (IF k = 1 THEN 1 ELSE applied[i][k - 1].index + 1)
    <3>1. Fed(i)[k].index <= (IF k = 1 THEN 1 ELSE Fed(i)[k - 1].index + 1)
        BY <2>4, <2>6 DEF FeedInv, InTurn
    <3>2. k # 1 => k - 1 \in 1..Len(applied[i])
        BY <2>2
    <3>3. k # 1 => Fed(i)[k - 1] = applied[i][k - 1]
        BY <2>3, <3>2
    <3>4. QED
        BY <2>4, <3>1, <3>3
  <2>7. QED
      BY <2>5, <2>6
<1>2. Init => (~overwritten => FeedInv /\ CommitInv)
    BY CommitInit, FeedInit
<1>3. (~overwritten => FeedInv /\ CommitInv) /\ QueueHasRoom' /\ [Next]_vars
        => (~overwritten => FeedInv /\ CommitInv)'
    BY CommitStep, FeedStep, StepOfNode
<1>4. QED
    BY <1>1, <1>2, <1>3, PTL DEF Spec

\* The nodes implement one replicated log, for every cluster, queue and bound, until a
\* leader counts an answer to a request of an earlier term or a request carries other
\* entries than its sender read: whatever calls are lost,
\* late or overtaken and whoever is elected, no two nodes take different entries for
\* the committed one of an index, an entry decided once is never replaced, and no
\* state machine is given any other.
THEOREM RaftIsOneLog == Spec => ImplementsReplicatedLog
<1>1. Init => OneLog!Init
    BY InitImplements
<1>2. (~overwritten => CommitInv) /\ [Next]_vars => [OneLog!Next]_(OneLog!vars)
  <2>1. CASE overwritten'
    BY <2>1 DEF OneLog!Next, OneLog!Break, Undisturbed
  <2>2. CASE ~overwritten'
    BY <2>2, StepOfNode, StepImplements
  <2>3. QED
    BY <2>1, <2>2
<1>3. QED
    BY <1>1, <1>2, CommitInvariant, PTL DEF Spec, ImplementsReplicatedLog, OneLog!Spec

\* Two state machines never get different entries for one index, with the same proviso:
\* what AppliedAgree denies to them is only that each gets every entry once.
AppliedSame ==
    Undisturbed => \A i, j \in Server : \A k \in 1..Len(applied[i]) : \A l \in 1..Len(applied[j]) :
        applied[i][k].index = applied[j][l].index => applied[i][k] = applied[j][l]

\* The commands that two masters apply differ at most in how often each comes, whatever
\* elections, lost calls and late answers lie between the two: entries are pushed from
\* a node's own log and wait in its own queue, and still agree.
THEOREM StateMachinesAgree == Spec => []AppliedSame
<1>1. ASSUME CommitInv, ~staleAck, NEW i \in Server, NEW j \in Server, commitIndex[i] <= commitIndex[j],
             NEW k \in 1..Len(applied[i]), NEW l \in 1..Len(applied[j]),
             applied[i][k].index = applied[j][l].index
      PROVE  applied[i][k] = applied[j][l]
  <2>1. applied[i][k] \in Held(i) /\ applied[j][l] \in Held(j)
    BY DEF Held, Elements
  <2>2. /\ applied[i][k].index \in 1..commitIndex[i] /\ log[i][applied[i][k].index] = applied[i][k]
        /\ log[j][applied[j][l].index] = applied[j][l]
    BY <1>1, <2>1 DEF CommitInv, HeldCommitted
  <2>3. HasUpTo(log[j], commitIndex[i], log[i])
    BY <1>1, CommitsAgree
  <2>4. QED
    BY <1>1, <2>2, <2>3 DEF HasUpTo
<1>2. (~overwritten => CommitInv) => AppliedSame
  <2> SUFFICES ASSUME CommitInv, ~staleAck, NEW i \in Server, NEW j \in Server,
                      NEW k \in 1..Len(applied[i]), NEW l \in 1..Len(applied[j]),
                      applied[i][k].index = applied[j][l].index
               PROVE  applied[i][k] = applied[j][l]
    BY DEF AppliedSame, Undisturbed
  <2>1. commitIndex[i] \in Nat /\ commitIndex[j] \in Nat
    BY NodeTypes DEF CommitInv, AckInv, MatchInv, LogInv, TypeInv
  <2>2. CASE commitIndex[i] <= commitIndex[j]
    BY <1>1, <2>2
  <2>3. CASE commitIndex[j] <= commitIndex[i]
    BY <1>1, <2>3
  <2>4. QED
    BY <2>1, <2>2, <2>3
<1>3. QED
    BY <1>2, CommitInvariant, PTL
=============================================================================

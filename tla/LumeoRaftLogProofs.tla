------------------------ MODULE LumeoRaftLogProofs ------------------------
(***************************************************************************)
(* Theorems about the logs of LumeoRaft, for any finite set of nodes and   *)
(* any bounds.                                                             *)
(*                                                                         *)
(*   LogsMatch          Spec => []LogMatching                              *)
(*   LeadersAppendOnly  Spec => LeaderAppendOnly                           *)
(*   LeadersUpToDate    Spec => LeaderUpToDate                             *)
(***************************************************************************)
EXTENDS LumeoRaftProofs

-----------------------------------------------------------------------------
(***************************************************************************)
(* The two kinds of step: of the nodes, and of the memory that a request   *)
(* shares with a log after it has been read (OverwriteEntries).  What the  *)
(* logs promise is about behaviours without the second kind.               *)
(***************************************************************************)
LEMMA NodeStepIsStep == [NodeStep]_vars => [Next]_vars
    BY DEF Next

\* Unless a request carries other entries than were read, a step is a node's, and
\* none has before.
LEMMA StepOfNode ==
    ASSUME [Next]_vars, ~overwritten'
    PROVE  [NodeStep]_vars /\ ~overwritten
<1>1. CASE ElectionStep
  <2>1. UNCHANGED overwritten
    <3>1. ASSUME NEW i \in Server, StartElection(i) PROVE UNCHANGED overwritten
      BY <3>1 DEF StartElection
    <3>2. ASSUME NEW m \in voteRequests, HandleRequestVote(m) PROVE UNCHANGED overwritten
      BY <3>2 DEF HandleRequestVote
    <3>3. ASSUME NEW e \in elections,
                 \/ \E r \in voteReplies : HandleVoteReply(e, r)
                 \/ \E p \in e.waiting : VoteCallFails(e, p)
                 \/ TallyVotes(e)
          PROVE  UNCHANGED overwritten
      BY <3>3 DEF HandleVoteReply, VoteCallFails, TallyVotes
    <3>4. QED
      BY <1>1, <3>1, <3>2, <3>3 DEF ElectionStep
  <2>2. QED
    BY <1>1, <2>1 DEF NodeStep
<1>2. CASE ReplicationStep
  <2>1. ASSUME NEW i \in Server, SendHeartbeats(i) \/ \E cmd \in Command : Propose(i, cmd)
        PROVE  UNCHANGED overwritten
    BY <2>1 DEF SendHeartbeats, Propose
  <2>2. ASSUME NEW c \in DOMAIN appendCalls,
               ReadLog(c) \/ HandleAppendEntries(c) \/ HandleAppendReply(c) \/ AppendCallFails(c)
        PROVE  UNCHANGED overwritten
    BY <2>2 DEF ReadLog, HandleAppendEntries, RejectAppend, RefuseEntries, AcceptEntries,
                HandleAppendReply, AppendCallFails
  <2>3. QED
    BY <1>2, <2>1, <2>2 DEF ReplicationStep, NodeStep
<1>3. CASE ApplyStep
    BY <1>3 DEF NodeStep, ApplyStep, TakeEntry, RecordApplied
<1>4. CASE UNCHANGED vars
    BY <1>4 DEF vars
<1>5. ASSUME NEW c \in DOMAIN appendCalls, OverwriteEntries(c) PROVE FALSE
    BY <1>5 DEF OverwriteEntries
<1>6. QED
    BY <1>1, <1>2, <1>3, <1>4, <1>5 DEF Next, NodeStep

-----------------------------------------------------------------------------
(***************************************************************************)
(* What each operator does to a log, entry by entry.                       *)
(***************************************************************************)
LEMMA LogType ==
    ASSUME NEW lg \in Seq(Entry)
    PROVE  /\ Len(lg) \in Nat
           /\ \A n \in 1..Len(lg) : lg[n] \in Entry /\ lg[n].term \in Nat /\ lg[n].index \in Nat \ {0}
           /\ \A n \in 1..Len(lg) : TermAt(lg, n) = lg[n].term
           /\ TermAt(lg, 0) = 0
<1>1. Len(lg) \in Nat
    BY LenProperties
<1>2. \A n \in 1..Len(lg) : lg[n] \in Entry
    BY ElementOfSeq
<1>3. QED
    BY <1>1, <1>2 DEF Entry, TermAt

\* The prefix of a log that is kept, or the rest that is sent.
LEMMA PartOfLog ==
    ASSUME NEW lg \in Seq(Entry), NEW m \in Nat \ {0}, NEW n \in Nat, n <= Len(lg)
    PROVE  /\ SubSeq(lg, m, n) \in Seq(Entry)
           /\ Len(SubSeq(lg, m, n)) = IF m <= n THEN n - m + 1 ELSE 0
           /\ \A k \in 1..(n - m + 1) : SubSeq(lg, m, n)[k] = lg[m + k - 1]
<1>1. \A k \in m..n : lg[k] \in Entry
    BY ElementOfSeq, LenProperties
<1>2. QED
    BY <1>1, SubSeqProperties

\* The rest of a log after its first p entries, as it is sent.
LEMMA RestOfLog ==
    ASSUME NEW lg \in Seq(Entry), NEW p \in Nat, NEW rest, rest = SubSeq(lg, p + 1, Len(lg))
    PROVE  /\ rest \in Seq(Entry) /\ Len(rest) \in Nat
           /\ Len(rest) = IF p < Len(lg) THEN Len(lg) - p ELSE 0
           /\ \A k \in 1..Len(rest) : p + k \in 1..Len(lg) /\ rest[k] = lg[p + k]
<1>1. PICK n \in Nat : n = Len(lg)
    BY LogType
<1>2. p + 1 \in Nat \ {0} /\ n <= n
    BY <1>1
<1>3. /\ rest \in Seq(Entry)
      /\ Len(rest) = IF p + 1 <= n THEN n - (p + 1) + 1 ELSE 0
      /\ \A k \in 1..(n - (p + 1) + 1) : rest[k] = lg[p + 1 + k - 1]
    BY <1>1, <1>2, PartOfLog
<1>4. PICK z \in Nat : z = Len(rest)
    BY <1>3, LogType
<1>5. z = IF p < n THEN n - p ELSE 0
    BY <1>3, <1>4
<1>6. \A k \in 1..z : p + k \in 1..n /\ k \in 1..(n - (p + 1) + 1) /\ p + 1 + k - 1 = p + k
    BY <1>5
<1>7. QED
    BY <1>1, <1>3, <1>4, <1>5, <1>6

\* The append loop leaves the log alone when every entry sent is there, with its
\* term; otherwise it cuts the log at the first that is not, and puts it and the
\* rest in its place.
KeptWhole(lg, prev, es) ==
    /\ Merge(lg, prev, es) = lg
    /\ \A k \in 1..Len(es) : prev + k <= Len(lg) /\ lg[prev + k].term = es[k].term

CutAt(lg, prev, es, k) ==
    LET new == Merge(lg, prev, es)
    IN  /\ prev + k <= Len(lg) + 1
        /\ Len(new) = prev + Len(es)
        /\ \A n \in 1..(prev + k - 1) : new[n] = lg[n]
        /\ \A j \in k..Len(es) : new[prev + j] = es[j]
        /\ \A j \in 1..(k - 1) : lg[prev + j].term = es[j].term
        /\ TermAt(lg, prev + k) # es[k].term \/ prev + k > Len(lg)

\* The two outcomes of the append loop are all there are.
LEMMA MergeShape ==
    ASSUME NEW lg \in Seq(Entry), NEW es \in Seq(Entry), NEW prev \in Nat, prev <= Len(lg)
    PROVE  \/ KeptWhole(lg, prev, es)
           \/ \E k \in 1..Len(es) : CutAt(lg, prev, es, k)
<1> DEFINE fresh == {k \in 1..Len(es) : TermAt(lg, prev + k) # es[k].term
                                        \/ prev + k > Len(lg)}
<1>0. Len(lg) \in Nat /\ Len(es) \in Nat
    BY LenProperties
<1>1. \A k \in 1..Len(es) : k \notin fresh => prev + k <= Len(lg) /\ lg[prev + k].term = es[k].term
    BY <1>0 DEF TermAt
<1>2. CASE fresh = {}
  <2>1. Merge(lg, prev, es) = lg
    BY <1>2 DEF Merge
  <2> HIDE DEF fresh
  <2>2. QED
    BY <1>1, <1>2, <2>1 DEF KeptWhole
<1>3. CASE fresh # {}
  <2> DEFINE k == Min(fresh)
  <2>0. fresh \in SUBSET Nat
    BY <1>0
  <2>1. k \in fresh /\ \A y \in fresh : k <= y
    <3> HIDE DEF fresh
    <3>1. QED
      BY <1>3, <2>0, MinOfNats
  <2>2. k \in 1..Len(es) /\ (TermAt(lg, prev + k) # es[k].term \/ prev + k > Len(lg))
    BY <2>1
  <2>3. Merge(lg, prev, es) = SubSeq(lg, 1, prev + k - 1) \o SubSeq(es, k, Len(es))
    BY <1>3 DEF Merge
  <2> HIDE DEF k
  <2>4. \A j \in 1..(k - 1) : prev + j <= Len(lg) /\ lg[prev + j].term = es[j].term
    <3>1. ASSUME NEW j \in 1..(k - 1) PROVE j \in 1..Len(es) /\ j \notin fresh
      <4>1. j \in 1..Len(es) /\ j < k
        BY <1>0, <2>2
      <4> HIDE DEF fresh
      <4>2. QED
        BY <2>0, <2>1, <4>1
    <3> HIDE DEF fresh
    <3>2. QED
      BY <1>1, <3>1
  <2> HIDE DEF fresh
  <2>5. k \in Nat \ {0} /\ prev + k - 1 \in Nat /\ prev + k - 1 <= Len(lg)
    <3>1. CASE k = 1
      BY <3>1, <1>0
    <3>2. CASE k # 1
      <4>1. k - 1 \in 1..(k - 1)
        BY <2>2, <3>2, <1>0
      <4>2. prev + (k - 1) <= Len(lg)
        BY <4>1, <2>4
      <4>3. QED
        BY <4>2, <2>2, <1>0
    <3>3. QED
      BY <3>1, <3>2
  <2> DEFINE head == SubSeq(lg, 1, prev + k - 1)
             rest == SubSeq(es, k, Len(es))
  <2>6. /\ head \in Seq(Entry) /\ Len(head) = prev + k - 1
        /\ \A n \in 1..(prev + k - 1) : head[n] = lg[n]
    <3>1. 1 \in Nat \ {0} /\ \A n \in 1..(prev + k - 1) : 1 + n - 1 = n
      BY <2>5
    <3>2. /\ head \in Seq(Entry)
          /\ Len(head) = IF 1 <= prev + k - 1 THEN prev + k - 1 - 1 + 1 ELSE 0
          /\ \A n \in 1..(prev + k - 1 - 1 + 1) : head[n] = lg[1 + n - 1]
      BY <2>5, <3>1, PartOfLog
    <3> HIDE DEF head
    <3>3. QED
      BY <2>5, <3>1, <3>2
  <2>7. /\ rest \in Seq(Entry) /\ Len(rest) = Len(es) - k + 1
        /\ \A n \in 1..(Len(es) - k + 1) : rest[n] = es[k + n - 1]
    BY <1>0, <2>2, <2>5, PartOfLog
  <2> DEFINE new == head \o rest
  <2>8. Merge(lg, prev, es) = new
    BY <2>3
  <2> HIDE DEF head, rest
  <2>9. /\ Len(new) = prev + Len(es)
        /\ \A n \in 1..(prev + k - 1) : new[n] = lg[n]
        /\ \A j \in k..Len(es) : new[prev + j] = es[j]
    <3>0. /\ Len(new) = Len(head) + Len(rest)
          /\ \A n \in 1..(Len(head) + Len(rest)) :
               new[n] = IF n <= Len(head) THEN head[n] ELSE rest[n - Len(head)]
      BY <2>6, <2>7, ConcatProperties
    <3> HIDE DEF new
    <3>1. /\ Len(new) = Len(head) + Len(rest)
          /\ \A n \in 1..Len(head) : new[n] = head[n]
          /\ \A n \in 1..Len(rest) : new[Len(head) + n] = rest[n]
      <4>1. Len(head) \in Nat /\ Len(rest) \in Nat
        BY <2>6, <2>7, LenProperties
      <4>2. ASSUME NEW n \in 1..Len(rest) PROVE new[Len(head) + n] = rest[n]
        BY <3>0, <4>1
      <4>3. QED
        BY <3>0, <4>1, <4>2
    <3>2. ASSUME NEW j \in k..Len(es) PROVE new[prev + j] = es[j]
      <4>1. /\ j - k + 1 \in 1..Len(rest) /\ Len(head) + (j - k + 1) = prev + j
            /\ k + (j - k + 1) - 1 = j
        BY <1>0, <2>2, <2>5, <2>6, <2>7
      <4>2. new[prev + j] = rest[j - k + 1]
        BY <3>1, <4>1
      <4>3. rest[j - k + 1] = es[k + (j - k + 1) - 1]
        BY <2>7, <4>1
      <4>4. QED
        BY <4>1, <4>2, <4>3
    <3>3. QED
      BY <1>0, <2>2, <2>5, <2>6, <2>7, <3>1, <3>2
  <2> HIDE DEF new
  <2>10. CutAt(lg, prev, es, k)
    BY <1>0, <2>2, <2>4, <2>5, <2>8, <2>9 DEF CutAt
  <2>11. QED
    BY <2>2, <2>10
<1>4. QED
    BY <1>2, <1>3

-----------------------------------------------------------------------------
(***************************************************************************)
(* What a step can do to a call, to a log and to the winners.              *)
(***************************************************************************)
SentCalls == {c \in DOMAIN appendCalls : c.phase = "sent"}

\* A call in progress has the fields of its phase, with their types.
LEMMA CallType ==
    ASSUME TypeOK, NEW c \in DOMAIN appendCalls
    PROVE  /\ c.src \in Server /\ c.dst \in Server /\ c.term \in Nat
           /\ c.phase \in {"spawned", "sent", "replied"}
           /\ c.phase = "spawned" => c \in Spawned /\ c.commit \in Nat
           /\ c.phase = "sent" => /\ c \in Sent /\ c.commit \in Nat /\ c.prev \in Nat
                                  /\ c.prevTerm \in Nat /\ c.entries \in Seq(Entry)
           /\ c.phase = "replied" => /\ c \in Replied /\ c.success \in BOOLEAN /\ c.last \in Nat
                                     /\ c.replyTerm \in Nat
<1>1. c \in Spawned \cup Sent \cup Replied
    BY DEF TypeOK
<1>2. QED
    BY <1>1 DEF Spawned, Sent, Replied

\* The calls that a step adds: those of a leader's heartbeat, the one whose
\* goroutine has read the log, and the one that has been answered.
Spawns(c) ==
    /\ c.phase = "spawned" /\ c.src \in Server /\ c.dst \in Peers(c.src)
    /\ state[c.src] = Leader /\ c.term = currentTerm[c.src] /\ c.commit = commitIndex[c.src]
    /\ \E i \in Server : SendHeartbeats(i)

Reads(b, c) ==
    /\ ReadLog(b)
    /\ b.phase = "spawned" /\ c.phase = "sent"
    /\ c.src = b.src /\ c.dst = b.dst /\ c.term = b.term /\ c.commit = b.commit
    /\ c.prev = nextIndex[b.src][b.dst] - 1
    /\ c.prevTerm = TermAt(log[b.src], c.prev)
    /\ c.entries = SubSeq(log[b.src], c.prev + 1, Len(log[b.src]))

Answers(b, c) ==
    /\ HandleAppendEntries(b)
    /\ b.phase = "sent" /\ c.phase = "replied"
    /\ c.src = b.src /\ c.dst = b.dst /\ c.term = b.term
    /\ c.success => AcceptEntries(b)
    /\ c.replyTerm = currentTerm[b.dst]
    /\ c.last = IF b.entries = <<>> THEN 0 ELSE b.entries[Len(b.entries)].index

CallMoved(c) ==
    \/ c \in DOMAIN appendCalls
    \/ Spawns(c)
    \/ \E b \in DOMAIN appendCalls : Reads(b, c) \/ Answers(b, c)

\* No other call comes to be in a step.
LEMMA CallMoves ==
    ASSUME TypeInv, [NodeStep]_vars
    PROVE  \A c \in DOMAIN appendCalls' : CallMoved(c)
<1> USE DEF TypeInv
<1>1. ASSUME UNCHANGED appendCalls PROVE \A c \in DOMAIN appendCalls' : CallMoved(c)
    BY <1>1 DEF CallMoved
<1>2. ASSUME NEW i \in Server, SendHeartbeats(i) PROVE \A c \in DOMAIN appendCalls' : CallMoved(c)
  <2> DEFINE call(p) == [phase |-> "spawned", src |-> i, dst |-> p, term |-> currentTerm[i],
                         commit |-> commitIndex[i]]
  <2>1. appendCalls' = appendCalls (+) SetToBag({call(p) : p \in Peers(i)}) /\ state[i] = Leader
    BY <1>2 DEF SendHeartbeats
  <2>2. \A p \in Peers(i) : Spawns(call(p))
    BY <1>2, <2>1 DEF Spawns
  <2> HIDE DEF call
  <2>3. DOMAIN appendCalls' = DOMAIN appendCalls \cup {call(p) : p \in Peers(i)}
    BY <2>1 DEF (+), SetToBag
  <2>4. QED
    BY <2>2, <2>3 DEF CallMoved
<1>3. ASSUME NEW b \in DOMAIN appendCalls, ReadLog(b) PROVE \A c \in DOMAIN appendCalls' : CallMoved(c)
  <2> DEFINE next == nextIndex[b.src][b.dst]
             d == [phase |-> "sent", src |-> b.src, dst |-> b.dst, term |-> b.term,
                   commit |-> b.commit, prev |-> next - 1, prevTerm |-> TermAt(log[b.src], next - 1),
                   entries |-> SubSeq(log[b.src], next, Len(log[b.src]))]
  <2>1. appendCalls' = After(b, d) /\ b.phase = "spawned"
    BY <1>3 DEF ReadLog
  <2>2. b.src \in Server /\ b.dst \in Server
    BY CallType
  <2>3. next \in Nat /\ next - 1 + 1 = next
    <3>1. nextIndex[b.src] \in [Server -> Nat]
      BY <2>2 DEF TypeOK
    <3>2. next \in Nat
      BY <2>2, <3>1
    <3> HIDE DEF next
    <3>3. QED
      BY <3>2
  <2> HIDE DEF next
  <2>4. Reads(b, d)
    BY <1>3, <2>1, <2>3 DEF Reads, next
  <2> HIDE DEF d
  <2>5. DOMAIN appendCalls' \subseteq DOMAIN appendCalls \cup {d}
    BY <2>1, CallDomains
  <2>6. QED
    BY <2>4, <2>5 DEF CallMoved
<1>4. ASSUME NEW b \in DOMAIN appendCalls, b.phase = "sent", HandleAppendEntries(b),
             NEW success \in BOOLEAN, NEW conflict, Answer(b, success, conflict),
             success => AcceptEntries(b)
      PROVE  \A c \in DOMAIN appendCalls' : CallMoved(c)
  <2> DEFINE last == IF b.entries = <<>> THEN 0 ELSE b.entries[Len(b.entries)].index
             d == [phase |-> "replied", src |-> b.src, dst |-> b.dst, term |-> b.term,
                   replyTerm |-> currentTerm[b.dst], success |-> success, conflict |-> conflict,
                   last |-> last]
  <2>1. appendCalls' = After(b, d)
    BY <1>4 DEF Answer
  <2>2. Answers(b, d)
    BY <1>4 DEF Answers
  <2> HIDE DEF d
  <2>3. DOMAIN appendCalls' \subseteq DOMAIN appendCalls \cup {d}
    BY <2>1, CallDomains
  <2>4. QED
    BY <2>2, <2>3 DEF CallMoved
<1>5. ASSUME NEW b \in DOMAIN appendCalls, HandleAppendEntries(b)
      PROVE  \A c \in DOMAIN appendCalls' : CallMoved(c)
  <2>1. b.phase = "sent"
    BY <1>5 DEF HandleAppendEntries, RejectAppend, RefuseEntries, AcceptEntries, AdoptLeader
  <2>2. CASE RejectAppend(b)
    BY <1>4, <1>5, <2>1, <2>2 DEF RejectAppend
  <2>3. CASE RefuseEntries(b)
    BY <1>4, <1>5, <2>1, <2>3 DEF RefuseEntries
  <2>4. CASE AcceptEntries(b)
    BY <1>4, <1>5, <2>1, <2>4 DEF AcceptEntries
  <2>5. QED
    BY <1>5, <2>2, <2>3, <2>4 DEF HandleAppendEntries
<1>6. ASSUME NEW b \in DOMAIN appendCalls, HandleAppendReply(b) \/ AppendCallFails(b)
      PROVE  \A c \in DOMAIN appendCalls' : CallMoved(c)
  <2>1. appendCalls' = Without(b)
    BY <1>6 DEF HandleAppendReply, AppendCallFails
  <2>2. DOMAIN appendCalls' \subseteq DOMAIN appendCalls
    BY <2>1, CallDomains
  <2>3. QED
    BY <2>2 DEF CallMoved
<1>7. CASE ElectionStep
  <2>1. UNCHANGED appendCalls
    BY <1>7 DEF ElectionStep, StartElection, HandleRequestVote, HandleVoteReply, VoteCallFails, TallyVotes
  <2>2. QED
    BY <1>1, <2>1
<1>8. CASE ReplicationStep
  <2>1. ASSUME NEW i \in Server, NEW cmd \in Command, Propose(i, cmd) PROVE UNCHANGED appendCalls
    BY <2>1 DEF Propose
  <2>2. QED
    BY <1>1, <1>2, <1>3, <1>5, <1>6, <1>8, <2>1 DEF ReplicationStep
<1>9. CASE ApplyStep
  <2>1. UNCHANGED appendCalls
    BY <1>9 DEF ApplyStep, TakeEntry, RecordApplied
  <2>2. QED
    BY <1>1, <2>1
<1>10. CASE UNCHANGED vars
    BY <1>1, <1>10 DEF vars
<1>11. QED
    BY <1>7, <1>8, <1>9, <1>10 DEF NodeStep

\* The log of a node changes when it takes a command or accepts a leader's entries.
LogMoved(i) ==
    \/ log'[i] = log[i]
    \/ \E cmd \in Command : Propose(i, cmd)
    \/ \E c \in DOMAIN appendCalls : AcceptEntries(c) /\ c.dst = i

\* Nothing else changes a log.
LEMMA LogMoves ==
    ASSUME TypeOK, [NodeStep]_vars
    PROVE  \A i \in Server : LogMoved(i)
<1>1. ASSUME UNCHANGED log PROVE \A i \in Server : LogMoved(i)
    BY <1>1 DEF LogMoved
<1>2. ASSUME NEW i \in Server, NEW cmd \in Command, Propose(i, cmd) PROVE \A j \in Server : LogMoved(j)
  <2>1. \A j \in Server : j # i => log'[j] = log[j]
    BY <1>2 DEF Propose, TypeOK
  <2>2. QED
    BY <1>2, <2>1 DEF LogMoved
<1>3. ASSUME NEW c \in DOMAIN appendCalls, AcceptEntries(c) PROVE \A j \in Server : LogMoved(j)
  <2>1. \A j \in Server : j # c.dst => log'[j] = log[j]
    BY <1>3 DEF AcceptEntries, TypeOK
  <2>2. QED
    BY <1>3, <2>1 DEF LogMoved
<1>4. CASE ElectionStep
  <2>1. UNCHANGED log
    BY <1>4 DEF ElectionStep, StartElection, HandleRequestVote, HandleVoteReply, VoteCallFails,
                TallyVotes, logVars
  <2>2. QED
    BY <1>1, <2>1
<1>5. CASE ReplicationStep
  <2>1. ASSUME NEW i \in Server, SendHeartbeats(i) PROVE UNCHANGED log
    BY <2>1 DEF SendHeartbeats, logVars
  <2>2. ASSUME NEW c \in DOMAIN appendCalls,
               \/ ReadLog(c) \/ RejectAppend(c) \/ RefuseEntries(c) \/ HandleAppendReply(c)
               \/ AppendCallFails(c)
        PROVE  UNCHANGED log
    BY <2>2 DEF ReadLog, RejectAppend, RefuseEntries, HandleAppendReply, AppendCallFails, logVars
  <2>3. QED
    BY <1>1, <1>2, <1>3, <1>5, <2>1, <2>2 DEF ReplicationStep, HandleAppendEntries
<1>6. CASE ApplyStep
  <2>1. UNCHANGED log
    BY <1>6 DEF ApplyStep, TakeEntry, RecordApplied, logVars
  <2>2. QED
    BY <1>1, <2>1
<1>7. CASE UNCHANGED vars
    BY <1>1, <1>7 DEF vars, logVars
<1>8. QED
    BY <1>4, <1>5, <1>6, <1>7 DEF NodeStep

\* A poll is won: the one step that makes a winner and a leader.
Wins(e) ==
    /\ e \in elections /\ TallyVotes(e)
    /\ state[e.node] = Candidate /\ currentTerm[e.node] = e.term
    /\ Cardinality(e.granted) + 1 >= Majority
    /\ winners' = winners \cup {[node |-> e.node, term |-> e.term]}
    /\ state' = [state EXCEPT ![e.node] = Leader]
    /\ matchIndex' = [matchIndex EXCEPT ![e.node] = [p \in Server |-> 0]]
    /\ UNCHANGED <<currentTerm, votedFor, log, voteReplies, voteRequests, appendCalls, staleAck, commitIndex>>

\* No leader gives up its role within its term, and no other node takes it.
RoleKept(i) ==
    /\ state[i] = Leader /\ currentTerm'[i] = currentTerm[i] => state'[i] = Leader
    /\ LeadKept(i)

\* A step elects one leader, or roles move only down.
LEMMA RoleMoves ==
    ASSUME TypeOK, [NodeStep]_vars
    PROVE  \/ \E e \in elections : Wins(e)
           \/ /\ UNCHANGED winners
              /\ \A i \in Server : RoleKept(i)
<1> USE DEF Follower, Candidate, Leader
<1>1. ASSUME UNCHANGED nodeVars PROVE \A i \in Server : RoleKept(i)
    BY <1>1 DEF nodeVars, RoleKept, LeadKept
<1>2. ASSUME NEW i \in Server, NEW term \in Nat, term > currentTerm[i], StepDown(i, term)
      PROVE  \A j \in Server : RoleKept(j)
    BY <1>2 DEF StepDown, RoleKept, LeadKept, TypeOK
<1>3. ASSUME NEW c \in DOMAIN appendCalls, AdoptLeader(c) PROVE \A i \in Server : RoleKept(i)
  <2>1. c.dst \in Server /\ c.term \in Nat
    BY CallType
  <2>2. ASSUME NEW j \in Server PROVE RoleKept(j)
    <3>1. CASE j # c.dst
      BY <1>3, <2>1, <3>1 DEF AdoptLeader, RoleKept, LeadKept, TypeOK
    <3>2. CASE j = c.dst
      <4>1. /\ c.term >= currentTerm[j] /\ currentTerm'[j] = c.term /\ currentTerm[j] \in Nat
            /\ state'[j] = IF c.term > currentTerm[j] THEN Follower ELSE state[j]
        BY <1>3, <2>1, <3>2 DEF AdoptLeader, TypeOK
      <4>2. QED
        BY <2>1, <4>1 DEF RoleKept, LeadKept
    <3>3. QED
      BY <3>1, <3>2
  <2>3. QED
    BY <2>2
<1>4. ASSUME NEW i \in Server, StartElection(i) PROVE UNCHANGED winners /\ \A j \in Server : RoleKept(j)
    BY <1>4 DEF StartElection, RoleKept, LeadKept, TypeOK
<1>5. ASSUME NEW m \in voteRequests, HandleRequestVote(m)
      PROVE  UNCHANGED winners /\ \A j \in Server : RoleKept(j)
  <2>1. m.to \in Server /\ m.term \in Nat /\ UNCHANGED winners
    BY <1>5 DEF TypeOK, VoteRequest, HandleRequestVote
  <2>2. /\ currentTerm' = [currentTerm EXCEPT ![m.to] = Larger(@, m.term)]
        /\ state' = [state EXCEPT ![m.to] = IF m.term > currentTerm[m.to] THEN Follower ELSE @]
    BY <1>5 DEF HandleRequestVote
  <2>3. ASSUME NEW j \in Server PROVE RoleKept(j)
    <3>1. CASE j # m.to
      BY <2>1, <2>2, <3>1 DEF RoleKept, LeadKept, TypeOK
    <3>2. CASE j = m.to
      <4>1. /\ currentTerm'[j] = Larger(currentTerm[j], m.term) /\ currentTerm[j] \in Nat
            /\ state'[j] = IF m.term > currentTerm[j] THEN Follower ELSE state[j]
        BY <2>1, <2>2, <3>2 DEF TypeOK
      <4>2. QED
        BY <2>1, <4>1 DEF RoleKept, LeadKept, Larger
    <3>3. QED
      BY <3>1, <3>2
  <2>4. QED
    BY <2>1, <2>3
<1>6. ASSUME NEW e \in elections, NEW r \in voteReplies, HandleVoteReply(e, r)
      PROVE  UNCHANGED winners /\ \A j \in Server : RoleKept(j)
  <2>1. e.node \in Server /\ r.term \in Nat /\ UNCHANGED winners
    BY <1>6 DEF TypeOK, Election, VoteReply, HandleVoteReply
  <2>2. \/ r.term > currentTerm[e.node] /\ StepDown(e.node, r.term)
        \/ UNCHANGED <<currentTerm, state, votedFor>>
    BY <1>6 DEF HandleVoteReply
  <2>3. CASE UNCHANGED <<currentTerm, state, votedFor>>
    BY <2>1, <2>3 DEF RoleKept, LeadKept
  <2>4. QED
    BY <1>2, <2>1, <2>2, <2>3
<1>7. ASSUME NEW e \in elections, NEW p \in e.waiting, VoteCallFails(e, p)
      PROVE  UNCHANGED winners /\ \A j \in Server : RoleKept(j)
    BY <1>1, <1>7 DEF VoteCallFails
<1>8. ASSUME NEW e \in elections, TallyVotes(e)
      PROVE  Wins(e) \/ (UNCHANGED winners /\ \A j \in Server : RoleKept(j))
  <2>1. UNCHANGED <<currentTerm, votedFor, log, voteReplies, voteRequests, appendCalls, staleAck, commitIndex>>
    BY <1>8 DEF TallyVotes, logVars
  <2>2. CASE UNCHANGED <<state, winners>>
    BY <2>1, <2>2 DEF RoleKept, LeadKept
  <2>3. CASE ~UNCHANGED <<state, winners>>
    BY <1>8, <2>1, <2>3 DEF TallyVotes, Wins
  <2>4. QED
    BY <2>2, <2>3
<1>9. ASSUME NEW c \in DOMAIN appendCalls, HandleAppendReply(c)
      PROVE  UNCHANGED winners /\ \A j \in Server : RoleKept(j)
  <2>1. c.phase = "replied" /\ UNCHANGED winners
    BY <1>9 DEF HandleAppendReply, voteVars
  <2>2. c.src \in Server /\ c.replyTerm \in Nat
    BY <2>1, CallType
  <2>3. \/ c.replyTerm > currentTerm[c.src] /\ StepDown(c.src, c.replyTerm)
        \/ UNCHANGED <<currentTerm, state, votedFor>>
    BY <1>9 DEF HandleAppendReply
  <2>4. CASE UNCHANGED <<currentTerm, state, votedFor>>
    BY <2>1, <2>4 DEF RoleKept, LeadKept
  <2>5. QED
    BY <1>2, <2>1, <2>2, <2>3, <2>4
<1>10. CASE ElectionStep
    BY <1>4, <1>5, <1>6, <1>7, <1>8, <1>10 DEF ElectionStep
<1>11. CASE ReplicationStep
  <2>1. ASSUME NEW i \in Server, SendHeartbeats(i) \/ \E cmd \in Command : Propose(i, cmd)
        PROVE  UNCHANGED nodeVars
    BY <2>1 DEF SendHeartbeats, Propose
  <2>2. ASSUME NEW c \in DOMAIN appendCalls, ReadLog(c) \/ RejectAppend(c) \/ AppendCallFails(c)
        PROVE  UNCHANGED nodeVars
    BY <2>2 DEF ReadLog, RejectAppend, AppendCallFails
  <2>3. ASSUME NEW c \in DOMAIN appendCalls, RefuseEntries(c) \/ AcceptEntries(c)
        PROVE  AdoptLeader(c)
    BY <2>3 DEF RefuseEntries, AcceptEntries
  <2>4. UNCHANGED winners
    BY <1>11, KeptByReplication DEF voteVars
  <2>5. QED
    BY <1>1, <1>3, <1>9, <1>11, <2>1, <2>2, <2>3, <2>4 DEF ReplicationStep, HandleAppendEntries
<1>12. CASE ApplyStep
  <2>1. UNCHANGED nodeVars /\ UNCHANGED winners
    BY <1>12 DEF ApplyStep, TakeEntry, RecordApplied, voteVars
  <2>2. QED
    BY <1>1, <2>1
<1>13. CASE UNCHANGED vars
    BY <1>1, <1>13 DEF vars, voteVars
<1>14. QED
    BY <1>10, <1>11, <1>12, <1>13 DEF NodeStep

-----------------------------------------------------------------------------
(***************************************************************************)
(* Links.  Every entry, in a log or in a call on its way, comes with its   *)
(* index and with the term of the entry before it.  Only Propose makes a   *)
(* new link: the other steps copy, cut or drop.                            *)
(***************************************************************************)
Link(n, en, prev) == [index |-> n, entry |-> en, prev |-> prev]

LogLinks(lg) == {Link(n, lg[n], TermAt(lg, n - 1)) : n \in 1..Len(lg)}

CallLinks(c) ==
    {Link(c.prev + k, c.entries[k], IF k = 1 THEN c.prevTerm ELSE c.entries[k - 1].term) :
        k \in 1..Len(c.entries)}

Links == (UNION {LogLinks(log[i]) : i \in Server}) \cup (UNION {CallLinks(c) : c \in SentCalls})

\* A request for the whole log names no entry before it.
SentFromStart == \A c \in SentCalls : c.prev = 0 => c.prevTerm = 0

\* A link's fields have their types.
LEMMA LinkType ==
    ASSUME TypeOK, NEW l \in Links
    PROVE  l.index \in Nat \ {0} /\ l.entry \in Entry /\ l.entry.term \in Nat /\ l.prev \in Nat
<1>1. CASE \E i \in Server : l \in LogLinks(log[i])
  <2>1. PICK i \in Server : l \in LogLinks(log[i])
    BY <1>1
  <2>2. log[i] \in Seq(Entry)
    BY DEF TypeOK
  <2>3. PICK n \in 1..Len(log[i]) : l = Link(n, log[i][n], TermAt(log[i], n - 1))
    BY <2>1 DEF LogLinks
  <2>4. n \in Nat \ {0} /\ n - 1 \in Nat /\ log[i][n] \in Entry /\ log[i][n].term \in Nat
    BY <2>2, LogType
  <2>5. TermAt(log[i], n - 1) \in Nat
    BY <2>2, <2>4, TermAtType
  <2>6. QED
    BY <2>3, <2>4, <2>5 DEF Link
<1>2. CASE \E c \in SentCalls : l \in CallLinks(c)
  <2>1. PICK c \in SentCalls : l \in CallLinks(c)
    BY <1>2
  <2>2. c.entries \in Seq(Entry) /\ c.prev \in Nat /\ c.prevTerm \in Nat
    BY <2>1, CallType DEF SentCalls
  <2>3. PICK k \in 1..Len(c.entries) :
           l = Link(c.prev + k, c.entries[k], IF k = 1 THEN c.prevTerm ELSE c.entries[k - 1].term)
    BY <2>1 DEF CallLinks
  <2>4. c.prev + k \in Nat \ {0} /\ c.entries[k] \in Entry /\ c.entries[k].term \in Nat
    BY <2>2, LogType
  <2>5. (IF k = 1 THEN c.prevTerm ELSE c.entries[k - 1].term) \in Nat
    <3>1. CASE k = 1
      BY <2>2, <3>1
    <3>2. CASE k # 1
      <4>1. k - 1 \in 1..Len(c.entries)
        BY <2>2, <3>2, LogType
      <4>2. QED
        BY <2>2, <3>2, <4>1, LogType
    <3>3. QED
      BY <3>1, <3>2
  <2>6. QED
    BY <2>3, <2>4, <2>5 DEF Link
<1>3. QED
    BY <1>1, <1>2 DEF Links

\* The link of the n-th entry of a log.
LEMMA LinkIn ==
    ASSUME NEW lg, NEW n \in 1..Len(lg)
    PROVE  \E l \in LogLinks(lg) : l.index = n /\ l.entry = lg[n] /\ l.prev = TermAt(lg, n - 1)
<1> DEFINE l == Link(n, lg[n], TermAt(lg, n - 1))
<1>1. l \in LogLinks(lg)
    BY DEF LogLinks
<1>2. l.index = n /\ l.entry = lg[n] /\ l.prev = TermAt(lg, n - 1)
    BY DEF Link
<1>3. QED
    BY <1>1, <1>2

\* Each entry of a log whose links are known is in a known link.
LEMMA LinkOf ==
    ASSUME NEW lg, LogLinks(lg) \subseteq Links, NEW n \in 1..Len(lg)
    PROVE  \E l \in Links : l.index = n /\ l.entry = lg[n] /\ l.prev = TermAt(lg, n - 1)
    BY LinkIn

\* The links of the logs are among the links.
LEMMA LinksOfLog == \A i \in Server : LogLinks(log[i]) \subseteq Links
    BY DEF Links

\* The links of what a call sends are links of the log it has read.
LEMMA ReadLinks ==
    ASSUME TypeInv, NEW b \in DOMAIN appendCalls, NEW c, Reads(b, c)
    PROVE  CallLinks(c) \subseteq LogLinks(log[b.src])
<1> DEFINE lg == log[b.src]
<1>0. b.src \in Server /\ b.dst \in Server
    BY CallType DEF TypeInv
<1>1. lg \in Seq(Entry) /\ Len(lg) \in Nat
    BY <1>0, LogType DEF TypeInv, TypeOK
<1>2. c.prev \in Nat /\ c.prev + 1 \in Nat \ {0}
  <2>1. nextIndex[b.src][b.dst] \in Nat /\ nextIndex[b.src][b.dst] >= 1
    <3>1. nextIndex[b.src] \in [Server -> Nat]
      BY <1>0 DEF TypeInv, TypeOK
    <3>2. QED
      BY <1>0, <3>1 DEF TypeInv, PositiveNext
  <2>2. QED
    BY <2>1 DEF Reads
<1>3. c.entries = SubSeq(lg, c.prev + 1, Len(lg)) /\ c.prevTerm = TermAt(lg, c.prev)
    BY DEF Reads
<1> HIDE DEF lg
<1>4. PICK p \in Nat : p = c.prev
    BY <1>2
<1>5. /\ Len(c.entries) \in Nat
      /\ \A k \in 1..Len(c.entries) : c.prev + k \in 1..Len(lg) /\ c.entries[k] = lg[c.prev + k]
  <2>1. c.entries = SubSeq(lg, p + 1, Len(lg))
    BY <1>3, <1>4
  <2>2. /\ Len(c.entries) \in Nat
        /\ \A k \in 1..Len(c.entries) : p + k \in 1..Len(lg) /\ c.entries[k] = lg[p + k]
    BY <1>1, <2>1, RestOfLog
  <2>3. QED
    BY <1>4, <2>2
<1> DEFINE before(k) == IF k = 1 THEN c.prevTerm ELSE c.entries[k - 1].term
<1>6. ASSUME NEW k \in 1..Len(c.entries)
      PROVE  before(k) = TermAt(lg, c.prev + k - 1)
    <2>1. CASE k = 1
      BY <1>2, <1>3, <2>1
    <2>2. CASE k # 1
      <3>2. k - 1 \in 1..Len(c.entries) /\ c.prev + (k - 1) = c.prev + k - 1
        BY <1>2, <1>5, <2>2
      <3>3. c.prev + k - 1 \in 1..Len(lg) /\ c.entries[k - 1] = lg[c.prev + k - 1]
        BY <1>5, <3>2
      <3>4. QED
        BY <2>2, <3>3 DEF TermAt
    <2>3. QED
      BY <2>1, <2>2
<1> HIDE DEF before
<1>7. ASSUME NEW k \in 1..Len(c.entries)
      PROVE  Link(c.prev + k, c.entries[k], before(k)) \in LogLinks(lg)
    <2>1. PICK n \in 1..Len(lg) : n = c.prev + k /\ c.entries[k] = lg[n]
      BY <1>5
    <2>2. before(k) = TermAt(lg, n - 1)
      <3>1. c.prev + k - 1 = n - 1
        BY <1>2, <2>1
      <3>2. QED
        BY <1>6, <3>1
    <2>3. QED
      BY <2>1, <2>2 DEF LogLinks
<1>8. QED
    BY <1>7 DEF CallLinks, lg, before

\* The links of a log after the append loop are its own or those of the entries
\* sent, when the log has what the sender says comes before them.
LEMMA MergeLinks ==
    ASSUME NEW lg \in Seq(Entry), NEW es \in Seq(Entry), NEW prev \in Nat, prev <= Len(lg),
           NEW c, c.prev = prev, c.entries = es, c.prevTerm = TermAt(lg, prev)
    PROVE  LogLinks(Merge(lg, prev, es)) \subseteq LogLinks(lg) \cup CallLinks(c)
<1> DEFINE new == Merge(lg, prev, es)
<1>0. Len(lg) \in Nat /\ Len(es) \in Nat
    BY LogType
<1>1. CASE KeptWhole(lg, prev, es)
    BY <1>1 DEF KeptWhole
<1>2. ASSUME NEW k \in 1..Len(es), CutAt(lg, prev, es, k)
      PROVE  LogLinks(new) \subseteq LogLinks(lg) \cup CallLinks(c)
  <2>1. /\ prev + k <= Len(lg) + 1
        /\ Len(new) = prev + Len(es)
        /\ \A n \in 1..(prev + k - 1) : new[n] = lg[n]
        /\ \A j \in k..Len(es) : new[prev + j] = es[j]
        /\ \A j \in 1..(k - 1) : lg[prev + j].term = es[j].term
    BY <1>2 DEF CutAt
  <2> HIDE DEF new
  <2>2. \A n \in 0..(prev + k - 1) : TermAt(new, n) = TermAt(lg, n)
    BY <1>0, <2>1 DEF TermAt
  <2>3. ASSUME NEW n \in 1..Len(new), n < prev + k
        PROVE  Link(n, new[n], TermAt(new, n - 1)) \in LogLinks(lg)
    <3>1. n \in 1..Len(lg) /\ new[n] = lg[n] /\ TermAt(new, n - 1) = TermAt(lg, n - 1)
      BY <1>0, <2>1, <2>2, <2>3
    <3>2. QED
      BY <3>1 DEF LogLinks
  <2>4. ASSUME NEW n \in 1..Len(new), n >= prev + k
        PROVE  Link(n, new[n], TermAt(new, n - 1)) \in CallLinks(c)
    <3> DEFINE j == n - prev
    <3>1. j \in k..Len(es) /\ j \in 1..Len(es) /\ prev + j = n
      BY <1>0, <2>1, <2>4
    <3> HIDE DEF j
    <3>2. new[n] = es[j]
      BY <2>1, <3>1
    <3>3. TermAt(new, n - 1) = IF j = 1 THEN c.prevTerm ELSE es[j - 1].term
      <4>1. CASE j > k
        <5>1. j - 1 \in k..Len(es) /\ prev + (j - 1) = n - 1 /\ n - 1 \in 1..Len(new) /\ j # 1
          BY <1>0, <2>1, <3>1, <4>1
        <5>2. new[n - 1] = es[j - 1]
          BY <2>1, <5>1
        <5>3. QED
          BY <5>1, <5>2 DEF TermAt
      <4>2. CASE j = k /\ k = 1
        <5>1. n - 1 = prev /\ prev \in 0..(prev + k - 1)
          BY <3>1, <4>2
        <5>2. QED
          BY <2>2, <4>2, <5>1
      <4>3. CASE j = k /\ k # 1
        <5>1. /\ j - 1 \in 1..(k - 1) /\ prev + (j - 1) = n - 1 /\ n - 1 \in 1..Len(lg)
              /\ n - 1 \in 0..(prev + k - 1)
          BY <1>0, <2>1, <3>1, <4>3
        <5>2. lg[n - 1].term = es[j - 1].term
          BY <2>1, <5>1
        <5>3. TermAt(new, n - 1) = lg[n - 1].term
          BY <2>2, <5>1 DEF TermAt
        <5>4. QED
          BY <4>3, <5>2, <5>3
      <4>4. QED
        BY <3>1, <4>1, <4>2, <4>3
    <3>4. QED
      BY <3>1, <3>2, <3>3 DEF CallLinks
  <2>5. QED
    <3>1. \A n \in 1..Len(new) : n < prev + k \/ n >= prev + k
      BY <1>0, <2>1
    <3>2. \A n \in 1..Len(new) : Link(n, new[n], TermAt(new, n - 1)) \in LogLinks(lg) \cup CallLinks(c)
      BY <2>3, <2>4, <3>1
    <3>3. QED
      BY <3>2 DEF LogLinks
<1>3. QED
    BY <1>1, <1>2, MergeShape

NewLink(i, cmd) == Link(Len(log[i]) + 1, NewEntry(i, cmd), LastTerm(log[i]))

\* Propose adds the one link of its entry to the leader's log.
LEMMA ProposeLinks ==
    ASSUME TypeOK, NEW i \in Server, NEW cmd \in Command, Propose(i, cmd)
    PROVE  /\ LogLinks(log'[i]) \subseteq LogLinks(log[i]) \cup {NewLink(i, cmd)}
           /\ \A j \in Server : j # i => log'[j] = log[j]
           /\ Len(log'[i]) = Len(log[i]) + 1 /\ log'[i][Len(log[i]) + 1] = NewEntry(i, cmd)
           /\ \A n \in 1..Len(log[i]) : log'[i][n] = log[i][n]
           /\ NewEntry(i, cmd) \in Entry
<1> DEFINE en == NewEntry(i, cmd)
           new == Append(log[i], en)
<1>1. log[i] \in Seq(Entry) /\ Len(log[i]) \in Nat /\ currentTerm[i] \in Nat
    BY LogType DEF TypeOK
<1>2. en \in Entry
    BY <1>1 DEF NewEntry, Entry
<1>3. log' = [log EXCEPT ![i] = new]
    BY DEF Propose
<1> HIDE DEF en
<1>4. /\ new \in Seq(Entry) /\ Len(new) = Len(log[i]) + 1 /\ new[Len(log[i]) + 1] = en
      /\ \A n \in 1..Len(log[i]) : new[n] = log[i][n]
    BY <1>1, <1>2, AppendProperties
<1> HIDE DEF new
<1>5. log'[i] = new /\ \A j \in Server : j # i => log'[j] = log[j]
    BY <1>3 DEF TypeOK
<1>6. \A n \in 0..Len(log[i]) : TermAt(new, n) = TermAt(log[i], n)
    BY <1>1, <1>4 DEF TermAt
<1>7. ASSUME NEW n \in 1..Len(new)
      PROVE  Link(n, new[n], TermAt(new, n - 1)) \in LogLinks(log[i]) \cup {NewLink(i, cmd)}
  <2>1. CASE n \in 1..Len(log[i])
    <3>1. new[n] = log[i][n] /\ TermAt(new, n - 1) = TermAt(log[i], n - 1)
      BY <1>1, <1>4, <1>6, <2>1
    <3>2. QED
      BY <2>1, <3>1 DEF LogLinks
  <2>2. CASE n = Len(log[i]) + 1
    <3>1. n - 1 = Len(log[i]) /\ Len(log[i]) \in 0..Len(log[i])
      BY <1>1, <2>2
    <3>2. new[n] = en /\ TermAt(new, n - 1) = LastTerm(log[i])
      BY <1>4, <1>6, <2>2, <3>1 DEF LastTerm
    <3>3. QED
      BY <2>2, <3>2 DEF NewLink, en
  <2>3. QED
    BY <1>1, <1>4, <2>1, <2>2
<1>8. LogLinks(new) \subseteq LogLinks(log[i]) \cup {NewLink(i, cmd)}
    BY <1>7 DEF LogLinks
<1>9. QED
    BY <1>2, <1>4, <1>5, <1>8 DEF en

\* A node that accepts entries has the links it had and those it was sent.
LEMMA AcceptLinks ==
    ASSUME TypeOK, SentFromStart, NEW c \in DOMAIN appendCalls, AcceptEntries(c)
    PROVE  /\ c \in SentCalls /\ c.prev <= Len(log[c.dst]) /\ c.prevTerm = TermAt(log[c.dst], c.prev)
           /\ log'[c.dst] = Merge(log[c.dst], c.prev, c.entries)
           /\ LogLinks(log'[c.dst]) \subseteq LogLinks(log[c.dst]) \cup CallLinks(c)
<1>1. c.phase = "sent"
    BY DEF AcceptEntries, AdoptLeader
<1>2. c \in SentCalls /\ c.dst \in Server /\ c.prev \in Nat /\ c.entries \in Seq(Entry)
    BY <1>1, CallType DEF SentCalls
<1>3. log[c.dst] \in Seq(Entry) /\ Len(log[c.dst]) \in Nat
    BY <1>2, LogType DEF TypeOK
<1>4. c.prev <= Len(log[c.dst]) /\ c.prevTerm = TermAt(log[c.dst], c.prev)
  <2>1. CASE c.prev = 0
    <3>1. c.prevTerm = 0
      BY <1>2, <2>1 DEF SentFromStart
    <3>2. QED
      BY <1>3, <2>1, <3>1, LogType
  <2>2. CASE c.prev # 0
    <3>1. c.prev > 0
      BY <1>2, <2>2
    <3>2. ~(c.prev > Len(log[c.dst])) /\ TermAt(log[c.dst], c.prev) = c.prevTerm
      BY <3>1 DEF AcceptEntries, Mismatch
    <3>3. QED
      BY <1>2, <1>3, <3>2
  <2>3. QED
    BY <2>1, <2>2
<1>5. log'[c.dst] = Merge(log[c.dst], c.prev, c.entries)
    BY <1>2 DEF AcceptEntries, TypeOK
<1>6. QED
    BY <1>2, <1>3, <1>4, <1>5, MergeLinks

\* Only a leader that takes a command makes a link that was not there.
LEMMA LinksGrow ==
    ASSUME TypeInv, SentFromStart, [NodeStep]_vars
    PROVE  \/ Links' \subseteq Links
           \/ \E i \in Server : \E cmd \in Command :
                 Propose(i, cmd) /\ Links' \subseteq Links \cup {NewLink(i, cmd)}
<1>0. TypeOK
    BY DEF TypeInv
<1>1. ASSUME NEW c \in SentCalls' PROVE CallLinks(c) \subseteq Links
  <2>1. CallMoved(c) /\ c.phase = "sent"
    BY <1>1, CallMoves DEF SentCalls
  <2>2. CASE c \in DOMAIN appendCalls
    BY <2>1, <2>2 DEF SentCalls, Links
  <2>3. ASSUME NEW b \in DOMAIN appendCalls, Reads(b, c) PROVE CallLinks(c) \subseteq Links
    BY <1>0, <2>3, ReadLinks, CallType DEF Links
  <2>4. QED
    BY <2>1, <2>2, <2>3 DEF CallMoved, Spawns, Answers
<1>2. ASSUME NEW i \in Server, NEW cmd \in Command, Propose(i, cmd)
      PROVE  Links' \subseteq Links \cup {NewLink(i, cmd)}
  <2>1. \A j \in Server : LogLinks(log'[j]) \subseteq Links \cup {NewLink(i, cmd)}
    BY <1>0, <1>2, ProposeLinks DEF Links
  <2>2. Links' = (UNION {LogLinks(log'[j]) : j \in Server}) \cup (UNION {CallLinks(c) : c \in SentCalls'})
    BY DEF Links, LogLinks, CallLinks, TermAt, Link
  <2>3. QED
    BY <1>1, <2>1, <2>2
<1>3. CASE \A i \in Server : \A cmd \in Command : ~Propose(i, cmd)
  <2>1. ASSUME NEW j \in Server PROVE LogLinks(log'[j]) \subseteq Links
    <3>1. CASE log'[j] = log[j]
      BY <3>1 DEF Links
    <3>2. ASSUME NEW c \in DOMAIN appendCalls, AcceptEntries(c), c.dst = j
          PROVE  LogLinks(log'[j]) \subseteq Links
      BY <1>0, <3>2, AcceptLinks DEF Links
    <3>3. QED
      BY <1>0, <1>3, <3>1, <3>2, LogMoves DEF LogMoved
  <2>2. Links' = (UNION {LogLinks(log'[j]) : j \in Server}) \cup (UNION {CallLinks(c) : c \in SentCalls'})
    BY DEF Links, LogLinks, CallLinks, TermAt, Link
  <2>3. QED
    BY <1>1, <2>1, <2>2
<1>4. QED
    BY <1>2, <1>3

-----------------------------------------------------------------------------
(***************************************************************************)
(* What a step can do to polls, requests for votes and answers to them.    *)
(***************************************************************************)
PollMoved(e) ==
    \/ \E f \in elections : e.node = f.node /\ e.term = f.term
    \/ e.node \in Server /\ StartElection(e.node) /\ e.term = currentTerm[e.node] + 1

RequestMoved(m) ==
    \/ m \in voteRequests
    \/ /\ m.cand \in Server /\ StartElection(m.cand) /\ m.term = currentTerm[m.cand] + 1
       /\ m.lastLogIndex = Len(log[m.cand]) /\ m.lastLogTerm = LastTerm(log[m.cand])

ReplyMoved(r) ==
    \/ r \in voteReplies
    \/ \E m \in voteRequests : r.cand = m.cand /\ r.ballot = m.term

\* Where the polls, requests and answers after a step come from.
LEMMA PollMoves ==
    ASSUME TypeOK, [NodeStep]_vars
    PROVE  /\ \A e \in elections'    : PollMoved(e)
           /\ \A m \in voteRequests' : RequestMoved(m)
           /\ \A r \in voteReplies'  : ReplyMoved(r)
<1> DEFINE Moved == /\ \A e \in elections'    : PollMoved(e)
                    /\ \A m \in voteRequests' : RequestMoved(m)
                    /\ \A r \in voteReplies'  : ReplyMoved(r)
<1>1. ASSUME UNCHANGED voteVars PROVE Moved
    BY <1>1 DEF voteVars, PollMoved, RequestMoved, ReplyMoved
<1>2. ASSUME NEW i \in Server, StartElection(i) PROVE Moved
  <2> DEFINE poll == [node |-> i, term |-> currentTerm[i] + 1, waiting |-> Peers(i), granted |-> {}]
             request(p) == [cand |-> i, to |-> p, term |-> currentTerm[i] + 1,
                            lastLogIndex |-> Len(log[i]), lastLogTerm |-> LastTerm(log[i])]
  <2>1. /\ elections' = elections \cup {poll} /\ UNCHANGED voteReplies
        /\ voteRequests' = voteRequests \cup {request(p) : p \in Peers(i)}
    BY <1>2 DEF StartElection
  <2>2. PollMoved(poll) /\ \A p \in Peers(i) : RequestMoved(request(p))
    BY <1>2 DEF PollMoved, RequestMoved
  <2> HIDE DEF poll, request
  <2>3. \A e \in elections' : PollMoved(e)
    BY <2>1, <2>2 DEF PollMoved
  <2>4. \A m \in voteRequests' : RequestMoved(m)
    BY <2>1, <2>2 DEF RequestMoved
  <2>5. QED
    BY <2>1, <2>3, <2>4 DEF ReplyMoved
<1>3. ASSUME NEW m \in voteRequests, HandleRequestVote(m) PROVE Moved
  <2>1. UNCHANGED elections /\ voteRequests' \subseteq voteRequests
    BY <1>3 DEF HandleRequestVote
  <2>2. PICK r : voteReplies' \subseteq voteReplies \cup {r} /\ r.cand = m.cand /\ r.ballot = m.term
    <3> DEFINE r == [cand |-> m.cand, from |-> m.to, ballot |-> m.term, term |-> currentTerm[m.to],
                     granted |-> Grants(m, m.to, IF m.term > currentTerm[m.to] THEN Nil
                                                 ELSE votedFor[m.to])]
    <3>1. voteReplies' \subseteq voteReplies \cup {r}
      BY <1>3 DEF HandleRequestVote
    <3>2. r.cand = m.cand /\ r.ballot = m.term
      OBVIOUS
    <3> HIDE DEF r
    <3>3. QED
      BY <3>1, <3>2
  <2>3. QED
    BY <2>1, <2>2 DEF PollMoved, RequestMoved, ReplyMoved
<1>4. ASSUME NEW e \in elections, NEW f, f.node = e.node, f.term = e.term,
             elections' \subseteq elections \cup {f}, voteRequests' \subseteq voteRequests,
             voteReplies' \subseteq voteReplies
      PROVE  Moved
  <2>1. \A g \in elections' : PollMoved(g)
    BY <1>4 DEF PollMoved
  <2>2. QED
    BY <1>4, <2>1 DEF RequestMoved, ReplyMoved
<1>5. ASSUME NEW e \in elections, NEW r \in voteReplies, HandleVoteReply(e, r) PROVE Moved
  <2>1. e \in Election /\ r \in VoteReply /\ r.granted \in BOOLEAN
    BY DEF TypeOK, VoteReply
  <2>2. PICK ok \in BOOLEAN : elections' = (elections \ {e}) \cup {Counted(e, r.from, ok)}
    BY <1>5, <2>1 DEF HandleVoteReply
  <2>3. Counted(e, r.from, ok).node = e.node /\ Counted(e, r.from, ok).term = e.term
    BY <2>1, CountedPoll
  <2>4. QED
    BY <1>4, <1>5, <2>2, <2>3 DEF HandleVoteReply
<1>6. ASSUME NEW e \in elections, NEW p \in e.waiting, VoteCallFails(e, p) PROVE Moved
  <2>1. e \in Election
    BY DEF TypeOK
  <2>2. /\ elections' = (elections \ {e}) \cup {Counted(e, p, FALSE)}
        /\ voteRequests' \subseteq voteRequests /\ voteReplies' \subseteq voteReplies
    BY <1>6 DEF VoteCallFails
  <2>3. Counted(e, p, FALSE).node = e.node /\ Counted(e, p, FALSE).term = e.term
    BY <2>1, CountedPoll
  <2>4. QED
    BY <1>4, <2>2, <2>3
<1>7. ASSUME NEW e \in elections, TallyVotes(e) PROVE Moved
  <2>1. elections' \subseteq elections /\ UNCHANGED <<voteRequests, voteReplies>>
    BY <1>7 DEF TallyVotes
  <2>2. QED
    BY <1>4, <2>1
<1>8. CASE ElectionStep
    BY <1>2, <1>3, <1>5, <1>6, <1>7, <1>8 DEF ElectionStep
<1>9. CASE ReplicationStep
    BY <1>1, <1>9, KeptByReplication
<1>10. CASE ApplyStep
    BY <1>1, <1>10 DEF ApplyStep, TakeEntry, RecordApplied
<1>11. CASE UNCHANGED vars
    BY <1>1, <1>11 DEF vars
<1>12. QED
    BY <1>8, <1>9, <1>10, <1>11 DEF NodeStep

-----------------------------------------------------------------------------
(***************************************************************************)
(* The invariant behind Log Matching.                                      *)
(***************************************************************************)
\* No poll, request or answer is of a term its candidate has not reached.
VotesOld ==
    /\ \A e \in elections : e.term >= 1 /\ e.term <= currentTerm[e.node]
    /\ \A m \in voteRequests : m.term <= currentTerm[m.cand]
    /\ \A r \in voteReplies : r.ballot <= currentTerm[r.cand]

\* Who has won a term leads it until it leaves it.
WinnersLead ==
    \A w \in winners : /\ w.term >= 1 /\ w.term <= currentTerm[w.node]
                       /\ w.term = currentTerm[w.node] => state[w.node] = Leader

\* Every call is from the winner of its term to one of its peers.
CallsOfWinners ==
    \A c \in DOMAIN appendCalls : c.dst # c.src /\ [node |-> c.src, term |-> c.term] \in winners

\* Entries stand at their own index, come from a winner, and terms never decrease.
LinksSound ==
    \A l \in Links : /\ l.entry.index = l.index
                     /\ \E w \in winners : w.term = l.entry.term
                     /\ l.prev <= l.entry.term
                     /\ (l.index = 1) => (l.prev = 0)
                     /\ (l.index > 1) => (l.prev >= 1)

\* A term and an index name one entry and one predecessor, and the entries of a
\* term follow each other without another term's in between.
LinksAgree ==
    \A l, k \in Links : (l.entry.term = k.entry.term) =>
        /\ (l.index = k.index) => (l.entry = k.entry /\ l.prev = k.prev)
        /\ (l.index < k.index) => (k.prev = k.entry.term)

\* A leader's log holds every entry of its term that is anywhere, and none of a
\* later term.
LeaderHasTerm ==
    \A i \in Server : state[i] = Leader =>
        /\ \A l \in Links : (l.entry.term = currentTerm[i]) =>
              l.index <= Len(log[i]) /\ log[i][l.index] = l.entry
        /\ \A n \in 1..Len(log[i]) : log[i][n].term <= currentTerm[i]

\* The candidate i can no longer win the term: a majority has not voted for it in
\* the term and never will.
Doomed(i, term) ==
    \E quorum \in SUBSET Server :
        /\ Cardinality(quorum) >= Majority
        /\ \A p \in quorum : /\ ~Ballot(p, i, term) /\ currentTerm[p] >= term
                             /\ (currentTerm[p] = term) => (votedFor[p] \notin {i, Nil})

\* A candidate that can still win has only entries of earlier terms: a call whose
\* goroutine reads the log after its node has stepped down may spread entries of a
\* term later than the call's, but then that later term has its winner.
PollSafe ==
    \A e \in elections : (currentTerm[e.node] = e.term) =>
        \/ \A n \in 1..Len(log[e.node]) : log[e.node][n].term < e.term
        \/ Doomed(e.node, e.term)
        \/ [node |-> e.node, term |-> e.term] \in winners

LogInv ==
    /\ TypeInv /\ VoteInv /\ VotesOld /\ WinnersLead /\ CallsOfWinners /\ SentFromStart
    /\ LinksSound /\ LinksAgree /\ LeaderHasTerm /\ PollSafe

\* The invariant of the logs holds at the start.
LEMMA LogInit == Init => LogInv
<1> SUFFICES ASSUME Init PROVE LogInv
    OBVIOUS
<1>1. TypeInv /\ VoteInv
    BY TypeInit, VoteInit
<1>2. /\ DOMAIN appendCalls = {} /\ elections = {} /\ voteRequests = {} /\ voteReplies = {} /\ winners = {}
      /\ \A i \in Server : state[i] # Leader /\ log[i] = <<>>
    BY DEF Init, Follower, Leader, EmptyBag, SetToBag
<1>3. Links = {}
  <2>1. 1..Len(<<>>) = {}
    BY EmptySeq
  <2>2. \A i \in Server : LogLinks(log[i]) = {}
    BY <1>2, <2>1 DEF LogLinks
  <2>3. QED
    BY <1>2, <2>2 DEF Links, SentCalls
<1>4. QED
    BY <1>1, <1>2, <1>3 DEF LogInv, VotesOld, WinnersLead, CallsOfWinners, SentFromStart, SentCalls,
        LinksSound, LinksAgree, LeaderHasTerm, PollSafe

\* The facts about a step that the parts of the invariant share.
LEMMA StepFacts ==
    ASSUME LogInv, [NodeStep]_vars
    PROVE  /\ TypeOK /\ TypeInv' /\ TypeOK' /\ VoteInv' /\ BallotsKept
           /\ \A i \in Server : /\ VoteKept(i) /\ currentTerm[i] \in Nat /\ currentTerm'[i] \in Nat
                                /\ currentTerm'[i] >= currentTerm[i]
           /\ winners \subseteq winners'
<1>1. TypeOK /\ TypeInv' /\ TypeOK' /\ VoteInv' /\ BallotsKept
    BY NodeStepIsStep, TypeStep, VoteStep DEF LogInv, TypeInv
<1>2. \A i \in Server : VoteKept(i)
    BY <1>1, NodeStepIsStep, KeptByNext
<1>3. winners \subseteq winners'
    BY <1>1, RoleMoves DEF Wins
<1>4. \A i \in Server : currentTerm[i] \in Nat /\ currentTerm'[i] \in Nat
    BY <1>1 DEF TypeOK
<1>5. QED
    BY <1>1, <1>2, <1>3, <1>4 DEF VoteKept

\* A poll is of a term its candidate has just entered.
LEMMA VotesOldStep ==
    ASSUME LogInv, [NodeStep]_vars
    PROVE  VotesOld'
<1>1. TypeOK /\ TypeOK'
    BY StepFacts
<1>2. \A i \in Server : /\ currentTerm'[i] >= currentTerm[i]
                        /\ currentTerm[i] \in Nat /\ currentTerm'[i] \in Nat
    BY StepFacts
<1>3. \A i \in Server : StartElection(i) => currentTerm'[i] = currentTerm[i] + 1
    BY <1>1 DEF StartElection, TypeOK
<1>4. VotesOld
    BY DEF LogInv
<1>5. \A e \in elections' : e.term >= 1 /\ e.term <= currentTerm'[e.node]
  <2>1. SUFFICES ASSUME NEW e \in elections' PROVE e.term >= 1 /\ e.term <= currentTerm'[e.node]
    OBVIOUS
  <2>2. e.node \in Server /\ e.term \in Nat
    BY <1>1 DEF TypeOK, Election
  <2>3. PollMoved(e)
    BY <1>1, PollMoves
  <2>4. CASE \E f \in elections : e.node = f.node /\ e.term = f.term
    BY <1>2, <1>4, <2>2, <2>4 DEF VotesOld
  <2>5. CASE StartElection(e.node) /\ e.term = currentTerm[e.node] + 1
    BY <1>2, <1>3, <2>2, <2>5
  <2>6. QED
    BY <2>3, <2>4, <2>5 DEF PollMoved
<1>6. \A m \in voteRequests' : m.term <= currentTerm'[m.cand]
  <2>1. SUFFICES ASSUME NEW m \in voteRequests' PROVE m.term <= currentTerm'[m.cand]
    OBVIOUS
  <2>2. m.cand \in Server /\ m.term \in Nat
    BY <1>1 DEF TypeOK, VoteRequest
  <2>3. RequestMoved(m)
    BY <1>1, PollMoves
  <2>4. CASE m \in voteRequests
    BY <1>2, <1>4, <2>2, <2>4 DEF VotesOld
  <2>5. CASE StartElection(m.cand) /\ m.term = currentTerm[m.cand] + 1
    BY <1>2, <1>3, <2>2, <2>5
  <2>6. QED
    BY <2>3, <2>4, <2>5 DEF RequestMoved
<1>7. \A r \in voteReplies' : r.ballot <= currentTerm'[r.cand]
  <2>1. SUFFICES ASSUME NEW r \in voteReplies' PROVE r.ballot <= currentTerm'[r.cand]
    OBVIOUS
  <2>2. r.cand \in Server /\ r.ballot \in Nat
    BY <1>1 DEF TypeOK, VoteReply
  <2>3. ReplyMoved(r)
    BY <1>1, PollMoves
  <2>4. r.ballot <= currentTerm[r.cand]
    BY <1>4, <2>3 DEF VotesOld, ReplyMoved
  <2>5. QED
    BY <1>2, <2>2, <2>4
<1>8. QED
    BY <1>5, <1>6, <1>7 DEF VotesOld

\* Terms only grow, and a leader gives up its role only for a later one.
LEMMA WinnersLeadStep ==
    ASSUME LogInv, [NodeStep]_vars
    PROVE  WinnersLead'
<1>1. TypeOK /\ TypeOK'
    BY StepFacts
<1>2. \A i \in Server : /\ currentTerm'[i] >= currentTerm[i]
                        /\ currentTerm[i] \in Nat /\ currentTerm'[i] \in Nat
    BY StepFacts
<1>3. WinnersLead /\ VotesOld
    BY DEF LogInv
<1>4. SUFFICES ASSUME NEW w \in winners'
               PROVE  /\ w.term >= 1 /\ w.term <= currentTerm'[w.node]
                      /\ w.term = currentTerm'[w.node] => state'[w.node] = Leader
    BY DEF WinnersLead
<1>5. w.node \in Server /\ w.term \in Nat
    BY <1>1 DEF TypeOK
<1>6. ASSUME w \in winners PROVE /\ w.term >= 1 /\ w.term <= currentTerm[w.node]
                                 /\ w.term <= currentTerm'[w.node]
                                 /\ w.term = currentTerm'[w.node] => /\ state[w.node] = Leader
                                                                     /\ currentTerm[w.node] = w.term
  <2>1. /\ w.term >= 1 /\ w.term <= currentTerm[w.node]
        /\ w.term = currentTerm[w.node] => state[w.node] = Leader
    BY <1>3, <1>6 DEF WinnersLead
  <2>2. QED
    BY <1>2, <1>5, <2>1
<1>7. CASE UNCHANGED winners /\ \A i \in Server : RoleKept(i)
    BY <1>5, <1>6, <1>7 DEF RoleKept
<1>8. ASSUME NEW e \in elections, Wins(e)
      PROVE  /\ w.term >= 1 /\ w.term <= currentTerm'[w.node]
             /\ w.term = currentTerm'[w.node] => state'[w.node] = Leader
  <2>1. e.node \in Server /\ e.term \in Nat /\ e.term >= 1 /\ e.term <= currentTerm[e.node]
    BY <1>1, <1>3 DEF TypeOK, Election, VotesOld
  <2>2. /\ winners' = winners \cup {[node |-> e.node, term |-> e.term]} /\ currentTerm' = currentTerm
        /\ \A j \in Server : state'[j] = IF j = e.node THEN Leader ELSE state[j]
    BY <1>1, <1>8, <2>1 DEF Wins, TypeOK
  <2>3. CASE w \in winners
    BY <1>5, <1>6, <2>2, <2>3
  <2>4. CASE w.node = e.node /\ w.term = e.term
    BY <2>1, <2>2, <2>4
  <2>5. QED
    BY <2>2, <2>3, <2>4
<1>9. QED
    BY <1>1, <1>7, <1>8, RoleMoves

\* A heartbeat is sent by a leader, and leaders are winners.
LEMMA CallsOfWinnersStep ==
    ASSUME LogInv, [NodeStep]_vars
    PROVE  CallsOfWinners'
<1>1. winners \subseteq winners' /\ TypeOK
    BY StepFacts
<1>2. SUFFICES ASSUME NEW c \in DOMAIN appendCalls'
               PROVE  c.dst # c.src /\ [node |-> c.src, term |-> c.term] \in winners
    BY <1>1 DEF CallsOfWinners
<1>3. CallMoved(c)
    BY CallMoves DEF LogInv
<1>4. CASE c \in DOMAIN appendCalls
    BY <1>4 DEF LogInv, CallsOfWinners
<1>5. CASE Spawns(c)
    BY <1>5 DEF Spawns, Peers, LogInv, VoteInv, ElectionSafety
<1>6. ASSUME NEW b \in DOMAIN appendCalls, Reads(b, c) \/ Answers(b, c)
      PROVE  c.dst # c.src /\ [node |-> c.src, term |-> c.term] \in winners
  <2>1. c.src = b.src /\ c.dst = b.dst /\ c.term = b.term
    BY <1>6 DEF Reads, Answers
  <2>2. QED
    BY <2>1 DEF LogInv, CallsOfWinners
<1>7. QED
    BY <1>3, <1>4, <1>5, <1>6 DEF CallMoved

\* The goroutine that reads the log takes the term of the sentinel for prev = 0.
LEMMA SentFromStartStep ==
    ASSUME LogInv, [NodeStep]_vars
    PROVE  SentFromStart'
<1>1. SUFFICES ASSUME NEW c \in SentCalls', c.prev = 0 PROVE c.prevTerm = 0
    BY DEF SentFromStart
<1>2. CallMoved(c) /\ c.phase = "sent"
    BY CallMoves DEF SentCalls, LogInv
<1>3. CASE c \in DOMAIN appendCalls
    BY <1>1, <1>2, <1>3 DEF LogInv, SentFromStart, SentCalls
<1>4. ASSUME NEW b \in DOMAIN appendCalls, Reads(b, c) PROVE c.prevTerm = 0
  <2>1. c.prevTerm = TermAt(log[b.src], 0) /\ b.src \in Server
    BY <1>1, <1>4, CallType DEF Reads, LogInv, TypeInv
  <2>2. QED
    BY <2>1, LogType DEF LogInv, TypeInv, TypeOK
<1>5. QED
    BY <1>2, <1>3, <1>4 DEF CallMoved, Spawns, Answers

-----------------------------------------------------------------------------
(***************************************************************************)
(* What the links say of whole logs.                                       *)
(***************************************************************************)
\* The terms of a log never decrease.
LEMMA TermsOrdered ==
    ASSUME LinksSound, NEW lg \in Seq(Entry), LogLinks(lg) \subseteq Links,
           NEW n \in 1..Len(lg), NEW m \in 1..Len(lg), n <= m
    PROVE  lg[n].term <= lg[m].term
<1> DEFINE D == {k \in n..m : lg[k].term >= lg[n].term}
<1>1. Len(lg) \in Nat /\ \A k \in 1..Len(lg) : lg[k].term \in Nat
    BY LogType
<1>2. D \in SUBSET Nat /\ n \in D /\ m \in Nat /\ \A y \in D : y <= m
    BY <1>1
<1>3. \A k \in n..m : k \in 1..Len(lg) /\ (k < m => k + 1 \in n..m /\ k + 1 \in 1..Len(lg))
    BY <1>1
<1>4. \A k \in D : k \in n..m /\ lg[k].term >= lg[n].term
    OBVIOUS
<1>5. \A k \in n..m : lg[k].term >= lg[n].term => k \in D
    OBVIOUS
<1> HIDE DEF D
<1>6. Max(D) \in D /\ \A y \in D : y <= Max(D)
    BY <1>2, MaxOfNats
<1> DEFINE x == Max(D)
<1> HIDE DEF x
<1>7. x \in D /\ x \in n..m /\ lg[x].term >= lg[n].term /\ \A y \in D : y <= x
    BY <1>4, <1>6 DEF x
<1>8. ASSUME x < m PROVE FALSE
  <2>1. x + 1 \in n..m /\ x + 1 \in 1..Len(lg) /\ x \in 1..Len(lg)
    BY <1>3, <1>7, <1>8
  <2>2. PICK l \in Links : l.index = x + 1 /\ l.entry = lg[x + 1] /\ l.prev = TermAt(lg, (x + 1) - 1)
    BY <2>1, LinkOf
  <2>3. l.prev = lg[x].term
    <3>1. (x + 1) - 1 = x
      BY <2>1
    <3>2. QED
      BY <2>1, <2>2, <3>1 DEF TermAt
  <2>4. lg[x].term <= lg[x + 1].term
    BY <2>2, <2>3 DEF LinksSound
  <2>5. x + 1 \in D
    BY <1>1, <1>5, <1>7, <2>1, <2>4
  <2>6. QED
    BY <1>7, <2>1, <2>5
<1>9. x = m
    BY <1>7, <1>8
<1>10. QED
    BY <1>7, <1>9, <1>1

\* What LinksAgree says, of any set of links: those of the next state, say.
Agreeing(K) ==
    \A l, k \in K : (l.entry.term = k.entry.term) =>
        /\ (l.index = k.index) => (l.entry = k.entry /\ l.prev = k.prev)
        /\ (l.index < k.index) => (k.prev = k.entry.term)

\* Two logs that hold an entry of the same term at an index agree up to it.
LEMMA LogsAgreeIn ==
    ASSUME NEW K, Agreeing(K), NEW lg \in Seq(Entry), LogLinks(lg) \subseteq K,
           NEW mg \in Seq(Entry), LogLinks(mg) \subseteq K,
           NEW n \in Nat \ {0}, n <= Len(lg), n <= Len(mg), lg[n].term = mg[n].term
    PROVE  \A k \in 1..n : lg[k] = mg[k]
<1> DEFINE D == {k \in 1..n : lg[k].term # mg[k].term}
<1>1. Len(lg) \in Nat /\ Len(mg) \in Nat
    BY LogType
<1>2. \A k \in 1..n : k \in 1..Len(lg) /\ k \in 1..Len(mg) /\ (k < n => k + 1 \in 1..n)
    BY <1>1
<1>3. D \in SUBSET Nat /\ \A y \in D : y <= n
    BY <1>1
<1>4. \A k \in 1..n : lg[k].term = mg[k].term \/ k \in D
    OBVIOUS
<1>5. \A k \in D : k \in 1..n /\ lg[k].term # mg[k].term
    OBVIOUS
<1> HIDE DEF D
<1>6. ASSUME NEW k \in 1..n, lg[k].term = mg[k].term
      PROVE  lg[k] = mg[k] /\ TermAt(lg, k - 1) = TermAt(mg, k - 1)
  <2>1. PICK l \in LogLinks(lg) : l.index = k /\ l.entry = lg[k] /\ l.prev = TermAt(lg, k - 1)
    BY <1>2, LinkIn
  <2>2. PICK h \in LogLinks(mg) : h.index = k /\ h.entry = mg[k] /\ h.prev = TermAt(mg, k - 1)
    BY <1>2, LinkIn
  <2>3. l \in K /\ h \in K
    OBVIOUS
  <2>4. QED
    BY <1>6, <2>1, <2>2, <2>3 DEF Agreeing
<1>7. D = {}
  <2>1. SUFFICES ASSUME D # {} PROVE FALSE
    OBVIOUS
  <2> DEFINE x == Max(D)
  <2>2. x \in D /\ \A y \in D : y <= x
    BY <1>3, <2>1, MaxOfNats
  <2> HIDE DEF x
  <2>3. x \in 1..n /\ lg[x].term # mg[x].term /\ x # n
    BY <1>5, <2>2
  <2>4. x + 1 \in 1..n /\ (x + 1) - 1 = x /\ ~(x + 1 <= x)
    BY <1>2, <2>3
  <2>5. lg[x + 1].term = mg[x + 1].term
    BY <1>4, <2>2, <2>4
  <2>6. TermAt(lg, (x + 1) - 1) = TermAt(mg, (x + 1) - 1)
    BY <1>6, <2>4, <2>5
  <2>7. TermAt(lg, x) = lg[x].term /\ TermAt(mg, x) = mg[x].term
    BY <1>2, <2>3 DEF TermAt
  <2>8. QED
    BY <2>3, <2>4, <2>6, <2>7
<1>8. QED
    BY <1>4, <1>6, <1>7

\* Log Matching for any two logs made of links that agree: from a common term at n
\* back to the start, by induction downwards.
LEMMA LogsAgree ==
    ASSUME LinksAgree, NEW lg \in Seq(Entry), LogLinks(lg) \subseteq Links,
           NEW mg \in Seq(Entry), LogLinks(mg) \subseteq Links,
           NEW n \in Nat \ {0}, n <= Len(lg), n <= Len(mg), lg[n].term = mg[n].term
    PROVE  \A k \in 1..n : lg[k] = mg[k]
<1>1. Agreeing(Links)
    BY DEF Agreeing, LinksAgree
<1>2. QED
    BY <1>1, LogsAgreeIn

-----------------------------------------------------------------------------
(***************************************************************************)
(* The step of the invariant.                                              *)
(***************************************************************************)
\* A node that leads before and after a step stays in its term, and its log is
\* left alone or gets one more command: a request of its own term that it could
\* accept would come from itself.
LEMMA LeaderLogKept ==
    ASSUME LogInv, [NodeStep]_vars, NEW i \in Server, state[i] = Leader, state'[i] = Leader
    PROVE  /\ currentTerm'[i] = currentTerm[i]
           /\ log'[i] = log[i] \/ \E cmd \in Command : Propose(i, cmd)
<1>1. TypeOK /\ TypeOK'
    BY StepFacts
<1>2. currentTerm'[i] = currentTerm[i]
  <2>1. CASE \A j \in Server : RoleKept(j)
    BY <2>1 DEF RoleKept, LeadKept
  <2>2. ASSUME NEW e \in elections, Wins(e) PROVE currentTerm'[i] = currentTerm[i]
    BY <2>2 DEF Wins
  <2>3. QED
    BY <1>1, <2>1, <2>2, RoleMoves
<1>3. ASSUME NEW c \in DOMAIN appendCalls, AcceptEntries(c), c.dst = i PROVE FALSE
  <2>1. currentTerm'[i] = c.term /\ c.src \in Server /\ c.term \in Nat
    BY <1>1, <1>3, CallType DEF AcceptEntries, AdoptLeader, TypeOK
  <2>2. /\ [node |-> c.src, term |-> c.term] \in winners
        /\ [node |-> i, term |-> currentTerm[i]] \in winners
        /\ c.src # i
    BY <1>3 DEF LogInv, CallsOfWinners, VoteInv, ElectionSafety
  <2>3. QED
    BY <1>2, <2>1, <2>2 DEF LogInv, VoteInv, ElectionSafety
<1>4. QED
    BY <1>1, <1>2, <1>3, LogMoves DEF LogMoved

\* The entries of the leader's own term are the last ones of its log, and the
\* entry before a new one is of the leader's term or an earlier one.
LEMMA LeaderLastTerm ==
    ASSUME LogInv, NEW i \in Server, state[i] = Leader
    PROVE  /\ LastTerm(log[i]) \in Nat /\ LastTerm(log[i]) <= currentTerm[i]
           /\ Len(log[i]) \in Nat
           /\ Len(log[i]) = 0 => LastTerm(log[i]) = 0
           /\ Len(log[i]) > 0 => LastTerm(log[i]) >= 1
           /\ \A n \in 1..Len(log[i]) : log[i][n].term = currentTerm[i] => LastTerm(log[i]) = currentTerm[i]
<1> DEFINE lg == log[i]
<1>1. lg \in Seq(Entry) /\ currentTerm[i] \in Nat
    BY DEF LogInv, TypeInv, TypeOK
<1>2. Len(lg) \in Nat /\ LastTerm(lg) \in Nat /\ TermAt(lg, 0) = 0
    BY <1>1, LogType, LastTermType
<1>3. \A n \in 1..Len(lg) : lg[n].term <= currentTerm[i] /\ lg[n].term \in Nat
    BY <1>1, LogType DEF LogInv, LeaderHasTerm
<1>4. LogLinks(lg) \subseteq Links
    BY LinksOfLog
<1> HIDE DEF lg
<1>5. CASE Len(lg) = 0
    BY <1>1, <1>2, <1>5 DEF LastTerm, lg
<1>6. CASE Len(lg) > 0
  <2>1. Len(lg) \in 1..Len(lg) /\ LastTerm(lg) = lg[Len(lg)].term
    BY <1>2, <1>6 DEF LastTerm, TermAt
  <2>2. PICK l \in Links : l.entry = lg[Len(lg)]
    BY <1>4, <2>1, LinkOf
  <2>3. LastTerm(lg) >= 1
    BY <2>1, <2>2 DEF LogInv, LinksSound, WinnersLead
  <2>4. \A n \in 1..Len(lg) : lg[n].term <= LastTerm(lg)
    BY <1>1, <1>2, <1>4, <2>1, TermsOrdered DEF LogInv
  <2>5. QED
    BY <1>1, <1>2, <1>3, <1>6, <2>1, <2>3, <2>4 DEF lg
<1>7. QED
    BY <1>2, <1>5, <1>6

\* The link that a leader adds: its own term, after the last entry.
LEMMA NewLinkIs ==
    ASSUME NEW i, NEW cmd
    PROVE  /\ NewLink(i, cmd).index = Len(log[i]) + 1 /\ NewLink(i, cmd).entry = NewEntry(i, cmd)
           /\ NewLink(i, cmd).prev = LastTerm(log[i])
           /\ NewEntry(i, cmd).term = currentTerm[i] /\ NewEntry(i, cmd).index = Len(log[i]) + 1
    BY DEF NewLink, Link, NewEntry

\* A leader's new entry is of its term, which no entry of its log is above.
LEMMA LinksSoundStep ==
    ASSUME LogInv, [NodeStep]_vars
    PROVE  LinksSound'
<1>1. winners \subseteq winners' /\ LinksSound /\ TypeInv /\ SentFromStart
    BY StepFacts DEF LogInv
<1>2. CASE Links' \subseteq Links
    BY <1>1, <1>2 DEF LinksSound
<1>3. ASSUME NEW i \in Server, NEW cmd \in Command, Propose(i, cmd),
             Links' \subseteq Links \cup {NewLink(i, cmd)}
      PROVE  LinksSound'
  <2> DEFINE l == NewLink(i, cmd)
  <2>1. state[i] = Leader /\ [node |-> i, term |-> currentTerm[i]] \in winners
    BY <1>3 DEF Propose, LogInv, VoteInv, ElectionSafety
  <2>2. /\ l.index = Len(log[i]) + 1 /\ l.prev = LastTerm(log[i])
        /\ l.entry.term = currentTerm[i] /\ l.entry.index = Len(log[i]) + 1
    BY NewLinkIs
  <2> HIDE DEF l
  <2>3. /\ l.entry.index = l.index
        /\ \E w \in winners : w.term = l.entry.term
        /\ l.prev <= l.entry.term
        /\ (l.index = 1) => (l.prev = 0)
        /\ (l.index > 1) => (l.prev >= 1)
    BY <2>1, <2>2, LeaderLastTerm
  <2>4. QED
    BY <1>1, <1>3, <2>3 DEF LinksSound, l
<1>4. QED
    BY <1>1, <1>2, <1>3, LinksGrow

\* A leader's new entry is the first anywhere of its term at its index, as the
\* leader has all entries of its term.
LEMMA LinksAgreeStep ==
    ASSUME LogInv, [NodeStep]_vars
    PROVE  LinksAgree'
<1>1. LinksAgree /\ TypeInv /\ TypeOK /\ SentFromStart
    BY DEF LogInv, TypeInv
<1>2. CASE Links' \subseteq Links
    BY <1>1, <1>2 DEF LinksAgree
<1>3. ASSUME NEW i \in Server, NEW cmd \in Command, Propose(i, cmd),
             Links' \subseteq Links \cup {NewLink(i, cmd)}
      PROVE  LinksAgree'
  <2> DEFINE l == NewLink(i, cmd)
  <2>1. state[i] = Leader
    BY <1>3 DEF Propose
  <2>2. l.index = Len(log[i]) + 1 /\ l.prev = LastTerm(log[i]) /\ l.entry.term = currentTerm[i]
    BY NewLinkIs
  <2> HIDE DEF l
  <2>3. Len(log[i]) \in Nat
    BY <2>1, LeaderLastTerm
  <2>4. ASSUME NEW k \in Links, k.entry.term = l.entry.term
        PROVE  k.index < l.index /\ k.index # l.index /\ ~(l.index < k.index) /\ l.prev = l.entry.term
    <3>1. k.index \in Nat \ {0} /\ k.index <= Len(log[i]) /\ log[i][k.index] = k.entry
      BY <1>1, <2>1, <2>2, <2>4, LinkType DEF LogInv, LeaderHasTerm
    <3>2. k.index \in 1..Len(log[i])
      BY <2>3, <3>1
    <3>3. QED
      BY <2>1, <2>2, <2>3, <2>4, <3>1, <3>2, LeaderLastTerm
  <2>5. ~(l.index < l.index)
    BY <2>2, <2>3
  <2>6. QED
    BY <1>1, <1>3, <2>4, <2>5 DEF LinksAgree, l
<1>4. QED
    BY <1>1, <1>2, <1>3, LinksGrow

\* The node and the voters of a poll that wins hold ballots, so it is not doomed.
LEMMA WinnerNotDoomed ==
    ASSUME VoteInv, NEW e \in elections, Cardinality(e.granted) + 1 >= Majority
    PROVE  ~Doomed(e.node, e.term)
<1> DEFINE Q == e.granted \cup {e.node}
<1>1. e.node \in Server /\ e.granted \in SUBSET Server /\ e.granted \subseteq Peers(e.node)
    BY DEF VoteInv, TypeOK, Election, PollsOfPeers
<1>2. Q \in SUBSET Server /\ Cardinality(Q) >= Majority
  <2>1. IsFiniteSet(e.granted)
    BY <1>1, ServerAssumption, FS_Subset
  <2>2. e.node \notin e.granted
    BY <1>1 DEF Peers
  <2>3. Cardinality(Q) = Cardinality(e.granted) + 1
    BY <2>1, <2>2, FS_AddElement
  <2>4. QED
    BY <1>1, <2>3
<1>3. \A p \in Q : Ballot(p, e.node, e.term)
    BY <1>1 DEF Ballot
<1> HIDE DEF Q
<1>4. SUFFICES ASSUME Doomed(e.node, e.term) PROVE FALSE
    OBVIOUS
<1>5. PICK R \in SUBSET Server : /\ Cardinality(R) >= Majority
                                 /\ \A p \in R : ~Ballot(p, e.node, e.term)
    BY <1>4 DEF Doomed
<1>6. QED
    BY <1>2, <1>3, <1>5, MajoritiesMeet

\* A rival's win dooms a candidate.
LEMMA RivalDooms ==
    ASSUME VoteInv, NEW i \in Server, NEW w \in winners, w.node # i
    PROVE  Doomed(i, w.term)
<1>1. PICK quorum \in SUBSET Server : BackedBy(quorum, w.node, w.term)
    BY DEF VoteInv, WinnersBacked
<1>2. w.node \in Server /\ w.term \in Nat /\ \A p \in quorum : currentTerm[p] \in Nat
    BY DEF VoteInv, TypeOK
<1>3. ASSUME NEW p \in quorum
      PROVE  /\ ~Ballot(p, i, w.term) /\ currentTerm[p] >= w.term
             /\ (currentTerm[p] = w.term) => (votedFor[p] \notin {i, Nil})
  <2>1. Bound(p, w.node, w.term) /\ ~Ballot(p, i, w.term)
    BY <1>1 DEF BackedBy
  <2>2. w.node # Nil
    BY <1>2, NilNoServer
  <2>3. QED
    BY <1>2, <2>1, <2>2 DEF Bound
<1>4. QED
    BY <1>1, <1>3 DEF BackedBy, Doomed

\* A candidate that can no longer win never will.
LEMMA DoomedStays ==
    ASSUME LogInv, [NodeStep]_vars, NEW i \in Server, NEW term \in Nat, Doomed(i, term)
    PROVE  Doomed(i, term)'
<1>1. PICK quorum \in SUBSET Server :
        /\ Cardinality(quorum) >= Majority
        /\ \A p \in quorum : /\ ~Ballot(p, i, term) /\ currentTerm[p] >= term
                             /\ (currentTerm[p] = term) => (votedFor[p] \notin {i, Nil})
    BY DEF Doomed
<1>2. BallotsKept /\ \A p \in Server : VoteKept(p) /\ currentTerm[p] \in Nat /\ currentTerm'[p] \in Nat
    BY StepFacts
<1>3. ASSUME NEW p \in quorum
      PROVE  /\ currentTerm'[p] >= term
             /\ (currentTerm'[p] = term) => (votedFor'[p] \notin {i, Nil})
    BY <1>1, <1>2 DEF VoteKept
<1>4. ASSUME NEW p \in quorum, Ballot(p, i, term)' PROVE FALSE
  <2>1. FreshBallot(p, i, term)
    BY <1>1, <1>2, <1>4 DEF BallotsKept
  <2>2. QED
    BY <1>3, <2>1 DEF FreshBallot
<1>5. QED
    BY <1>1, <1>3, <1>4 DEF Doomed

\* A node that has just won finds no entry of its term anywhere, and none of a
\* later term in its log.
LEMMA WinnerFindsNone ==
    ASSUME LogInv, VoteInv', NEW e \in elections, Wins(e)
    PROVE  /\ \A l \in Links : l.entry.term # e.term
           /\ \A n \in 1..Len(log[e.node]) : log[e.node][n].term < e.term
<1>1. e.node \in Server /\ e.term \in Nat
    BY DEF LogInv, TypeInv, TypeOK, Election
<1>2. winners' = winners \cup {[node |-> e.node, term |-> e.term]}
    BY DEF Wins
<1>3. \A w \in winners : w.term # e.term
  <2>1. SUFFICES ASSUME NEW w \in winners, w.term = e.term PROVE FALSE
    OBVIOUS
  <2>2. w.node = e.node
    BY <1>2, <2>1 DEF VoteInv, ElectionSafety
  <2>3. state[w.node] = Leader
    BY <2>1, <2>2 DEF LogInv, WinnersLead, Wins
  <2>4. QED
    BY <2>2, <2>3 DEF Wins, Leader, Candidate
<1>4. \A l \in Links : l.entry.term # e.term
    BY <1>3 DEF LogInv, LinksSound
<1>5. \A n \in 1..Len(log[e.node]) : log[e.node][n].term < e.term
  <2>1. ~Doomed(e.node, e.term)
    BY WinnerNotDoomed DEF LogInv, Wins
  <2>2. [node |-> e.node, term |-> e.term] \notin winners
    BY <1>3
  <2>3. QED
    BY <2>1, <2>2 DEF LogInv, PollSafe, Wins
<1>6. QED
    BY <1>4, <1>5

\* Who wins had no entry of the term anywhere, by the invariant of the polls; from then
\* on only the leader makes such entries.
LEMMA LeaderHasTermStep ==
    ASSUME LogInv, [NodeStep]_vars
    PROVE  LeaderHasTerm'
<1>1. TypeInv /\ TypeOK /\ TypeOK' /\ VoteInv' /\ SentFromStart
    BY StepFacts DEF LogInv
<1>2. ASSUME NEW i \in Server, state[i] = Leader, state'[i] = Leader
      PROVE  /\ \A l \in Links' : (l.entry.term = currentTerm'[i]) =>
                  l.index <= Len(log'[i]) /\ log'[i][l.index] = l.entry
             /\ \A n \in 1..Len(log'[i]) : log'[i][n].term <= currentTerm'[i]
  <2>1. currentTerm'[i] = currentTerm[i] /\ currentTerm[i] \in Nat
    BY <1>1, <1>2, LeaderLogKept DEF TypeOK
  <2>2. /\ \A l \in Links : (l.entry.term = currentTerm[i]) =>
              l.index <= Len(log[i]) /\ log[i][l.index] = l.entry
        /\ \A n \in 1..Len(log[i]) : log[i][n].term <= currentTerm[i]
    BY <1>2 DEF LogInv, LeaderHasTerm
  <2>3. Len(log[i]) \in Nat
    BY <1>2, LeaderLastTerm
  <2>4. ASSUME NEW cmd \in Command, Propose(i, cmd)
        PROVE  /\ \A l \in Links : (l.entry.term = currentTerm[i]) =>
                    l.index <= Len(log'[i]) /\ log'[i][l.index] = l.entry
               /\ \A n \in 1..Len(log'[i]) : log'[i][n].term <= currentTerm[i]
    <3>1. /\ Len(log'[i]) = Len(log[i]) + 1 /\ log'[i][Len(log[i]) + 1] = NewEntry(i, cmd)
          /\ \A n \in 1..Len(log[i]) : log'[i][n] = log[i][n]
          /\ NewEntry(i, cmd).term = currentTerm[i]
      BY <1>1, <2>4, ProposeLinks, NewLinkIs
    <3>2. ASSUME NEW l \in Links, l.entry.term = currentTerm[i]
          PROVE  l.index <= Len(log'[i]) /\ log'[i][l.index] = l.entry
      <4>1. l.index \in 1..Len(log[i]) /\ log[i][l.index] = l.entry
        BY <1>1, <2>2, <2>3, <3>2, LinkType
      <4>2. QED
        BY <2>3, <3>1, <4>1
    <3>3. ASSUME NEW n \in 1..Len(log'[i]) PROVE log'[i][n].term <= currentTerm[i]
      <4>1. n \in 1..Len(log[i]) \/ n = Len(log[i]) + 1
        BY <2>3, <3>1
      <4>2. QED
        BY <2>1, <2>2, <3>1, <4>1
    <3>4. QED
      BY <3>2, <3>3
  <2>5. /\ \A l \in Links : (l.entry.term = currentTerm[i]) =>
              l.index <= Len(log'[i]) /\ log'[i][l.index] = l.entry
        /\ \A n \in 1..Len(log'[i]) : log'[i][n].term <= currentTerm[i]
    BY <1>2, <2>2, <2>4, LeaderLogKept
  <2>6. ASSUME NEW l \in Links', l.entry.term = currentTerm[i]
        PROVE  l.index <= Len(log'[i]) /\ log'[i][l.index] = l.entry
    <3>1. CASE l \in Links
      BY <2>5, <2>6, <3>1
    <3>2. ASSUME NEW j \in Server, NEW cmd \in Command, Propose(j, cmd), l = NewLink(j, cmd)
          PROVE  l.index <= Len(log'[i]) /\ log'[i][l.index] = l.entry
      <4>1. currentTerm[j] = currentTerm[i] /\ state[j] = Leader
        BY <2>6, <3>2, NewLinkIs DEF Propose
      <4>2. j = i
        <5>1. /\ [node |-> j, term |-> currentTerm[j]] \in winners
              /\ [node |-> i, term |-> currentTerm[i]] \in winners
          BY <1>2, <4>1 DEF LogInv, VoteInv, ElectionSafety
        <5>2. QED
          BY <4>1, <5>1 DEF LogInv, VoteInv, ElectionSafety
      <4>3. /\ Len(log'[i]) = Len(log[i]) + 1 /\ log'[i][Len(log[i]) + 1] = NewEntry(i, cmd)
            /\ l.index = Len(log[i]) + 1 /\ l.entry = NewEntry(i, cmd)
        BY <1>1, <3>2, <4>2, ProposeLinks, NewLinkIs
      <4>4. QED
        BY <2>3, <4>3
    <3>3. QED
      BY <1>1, <3>1, <3>2, LinksGrow
  <2>7. QED
    BY <2>1, <2>5, <2>6
<1>3. ASSUME NEW e \in elections, Wins(e)
      PROVE  /\ \A l \in Links' : l.entry.term # currentTerm'[e.node]
             /\ \A n \in 1..Len(log'[e.node]) : log'[e.node][n].term <= currentTerm'[e.node]
             /\ \A j \in Server : j # e.node => state'[j] = state[j]
  <2>1. /\ e.node \in Server /\ e.term \in Nat /\ currentTerm'[e.node] = e.term /\ log' = log
        /\ appendCalls' = appendCalls /\ \A j \in Server : j # e.node => state'[j] = state[j]
    BY <1>1, <1>3 DEF Wins, TypeOK, Election
  <2>2. Links' = Links
    BY <2>1 DEF Links, LogLinks, SentCalls, CallLinks, TermAt, Link
  <2>3. log[e.node] \in Seq(Entry)
    BY <1>1, <2>1 DEF TypeOK
  <2>4. \A n \in 1..Len(log[e.node]) : log[e.node][n].term \in Nat
    BY <2>3, LogType
  <2>5. QED
    BY <1>1, <1>3, <2>1, <2>2, <2>4, WinnerFindsNone
<1>4. ASSUME NEW i \in Server, state'[i] = Leader, state[i] # Leader
      PROVE  /\ \A l \in Links' : l.entry.term # currentTerm'[i]
             /\ \A n \in 1..Len(log'[i]) : log'[i][n].term <= currentTerm'[i]
    BY <1>1, <1>3, <1>4, RoleMoves DEF RoleKept, LeadKept
<1>5. QED
    BY <1>2, <1>4 DEF LeaderHasTerm

\* Entries of a candidate's term or a later one reach its log only after that term has
\* another winner, which dooms the candidate.
LEMMA PollSafeStep ==
    ASSUME LogInv, [NodeStep]_vars
    PROVE  PollSafe'
<1>1. TypeInv /\ TypeOK /\ TypeOK' /\ VoteInv' /\ VoteInv /\ winners \subseteq winners'
    BY StepFacts DEF LogInv
<1>2. \A p \in Server : /\ VoteKept(p) /\ currentTerm[p] \in Nat /\ currentTerm'[p] \in Nat
                        /\ currentTerm'[p] >= currentTerm[p]
    BY StepFacts
<1>3. SUFFICES ASSUME NEW e \in elections', currentTerm'[e.node] = e.term
               PROVE  \/ \A n \in 1..Len(log'[e.node]) : log'[e.node][n].term < e.term
                      \/ Doomed(e.node, e.term)'
                      \/ [node |-> e.node, term |-> e.term] \in winners'
    BY DEF PollSafe
<1> DEFINE i == e.node
<1>4. i \in Server /\ e.term \in Nat
    BY <1>1 DEF TypeOK, Election
<1>5. PollMoved(e)
    BY <1>1, PollMoves
<1>6. ASSUME NEW f \in elections, f.node = i, f.term = e.term
      PROVE  \/ \A n \in 1..Len(log'[i]) : log'[i][n].term < e.term
             \/ Doomed(i, e.term)'
             \/ [node |-> i, term |-> e.term] \in winners'
  <2>1. currentTerm[i] = e.term
    BY <1>2, <1>3, <1>4, <1>6 DEF LogInv, VotesOld
  <2>2. \/ \A n \in 1..Len(log[i]) : log[i][n].term < e.term
        \/ Doomed(i, e.term)
        \/ [node |-> i, term |-> e.term] \in winners
    BY <1>6, <2>1 DEF LogInv, PollSafe
  <2>3. CASE log'[i] = log[i]
    BY <1>1, <1>4, <2>2, <2>3, DoomedStays
  <2>4. ASSUME NEW cmd \in Command, Propose(i, cmd) PROVE [node |-> i, term |-> e.term] \in winners
    BY <1>1, <1>4, <2>1, <2>4 DEF Propose, VoteInv, ElectionSafety
  <2>5. ASSUME NEW c \in DOMAIN appendCalls, AcceptEntries(c), c.dst = i PROVE Doomed(i, e.term)
    <3>1. currentTerm'[i] = c.term
      <4>1. currentTerm' = [currentTerm EXCEPT ![i] = c.term]
        BY <2>5 DEF AcceptEntries, AdoptLeader
      <4>2. currentTerm \in [Server -> Nat]
        BY <1>1 DEF TypeOK
      <4> HIDE DEF i
      <4>3. QED
        BY <1>4, <4>1, <4>2
    <3>2. [node |-> c.src, term |-> c.term] \in winners /\ c.src # i
      BY <2>5 DEF LogInv, CallsOfWinners
    <3> HIDE DEF i
    <3>3. PICK w \in winners : w.node = c.src /\ w.term = c.term
      BY <3>2
    <3>4. QED
      BY <1>1, <1>3, <1>4, <3>1, <3>2, <3>3, RivalDooms DEF i
  <2>6. QED
    BY <1>1, <1>4, <2>3, <2>4, <2>5, DoomedStays, LogMoves DEF LogMoved
<1>7. ASSUME StartElection(i), e.term = currentTerm[i] + 1
      PROVE  \/ \A n \in 1..Len(log'[i]) : log'[i][n].term < e.term
             \/ Doomed(i, e.term)'
  <2>1. /\ log'[i] = log[i] /\ voteReplies' = voteReplies
        /\ elections' = elections \cup
             {[node |-> i, term |-> e.term, waiting |-> Peers(i), granted |-> {}]}
    BY <1>7 DEF StartElection, logVars
  <2>2. CASE \A n \in 1..Len(log[i]) : log[i][n].term < e.term
    BY <2>1, <2>2
  <2>3. ASSUME NEW n \in 1..Len(log[i]), ~(log[i][n].term < e.term) PROVE Doomed(i, e.term)'
    <3>0. log[i] \in Seq(Entry)
      BY <1>1, <1>4 DEF TypeOK
    <3>1. PICK l \in Links : l.entry = log[i][n]
      BY <1>4, LinkOf, LinksOfLog
    <3>2. PICK w \in winners : w.term = log[i][n].term
      BY <3>1 DEF LogInv, LinksSound
    <3>3. w.node \in Server /\ w.term \in Nat /\ w.term >= e.term
      <4>1. w.node \in Server /\ w.term \in Nat
        BY <1>1 DEF TypeOK
      <4>2. ~(w.term < e.term)
        BY <2>3, <3>2
      <4> HIDE DEF i
      <4>3. QED
        BY <1>4, <4>1, <4>2
    <3>4. w.node # i
      BY <1>2, <1>4, <1>7, <3>3 DEF LogInv, WinnersLead
    <3>5. PICK quorum \in SUBSET Server : BackedBy(quorum, w.node, w.term)
      BY <1>1 DEF VoteInv, WinnersBacked
    <3>6. ASSUME NEW p \in quorum
          PROVE  /\ p # i
                 /\ currentTerm'[p] >= e.term
                 /\ (currentTerm'[p] = e.term) => (votedFor'[p] \notin {i, Nil})
      <4>1. Bound(p, w.node, w.term) /\ p \in Server
        BY <3>5 DEF BackedBy
      <4>2. currentTerm[p] >= w.term
        BY <1>2, <3>3, <4>1 DEF Bound
      <4>3. p # i
        BY <1>2, <1>4, <1>7, <3>3, <4>2
      <4>4. currentTerm'[p] >= e.term
        BY <1>2, <1>4, <3>3, <4>1, <4>2
      <4>5. ASSUME currentTerm'[p] = e.term PROVE votedFor'[p] \notin {i, Nil}
        <5>1. w.term = e.term /\ currentTerm[p] = e.term
          BY <1>2, <1>4, <3>3, <4>1, <4>2, <4>5
        <5>2. votedFor[p] = w.node
          BY <1>2, <3>3, <4>1, <5>1 DEF Bound
        <5>3. QED
          BY <1>2, <3>3, <3>4, <4>1, <4>5, <5>1, <5>2, NilNoServer DEF VoteKept
      <4>6. QED
        BY <4>3, <4>4, <4>5
    <3>7. ASSUME NEW p \in quorum, Ballot(p, i, e.term)' PROVE FALSE
      <4>1. p \in Server /\ p # i
        BY <3>6
      <4>2. CASE \E g \in elections' : g.node = i /\ g.term = e.term /\ (p = i \/ p \in g.granted)
        <5>1. PICK g \in elections' : g.node = i /\ g.term = e.term /\ (p = i \/ p \in g.granted)
          BY <4>2
        <5>2. g \in elections
          BY <2>1, <4>1, <5>1
        <5>3. g.term <= currentTerm[i]
          BY <5>1, <5>2 DEF LogInv, VotesOld
        <5>4. QED
          BY <1>2, <1>4, <1>7, <5>1, <5>3
      <4>3. CASE \E r \in voteReplies : r.cand = i /\ r.ballot = e.term
        <5>1. e.term <= currentTerm[i]
          BY <4>3 DEF LogInv, VotesOld
        <5>2. QED
          BY <1>2, <1>4, <1>7, <5>1
      <4>4. QED
        BY <2>1, <3>7, <4>2, <4>3 DEF Ballot
    <3>8. QED
      BY <3>5, <3>6, <3>7 DEF BackedBy, Doomed
  <2>4. QED
    BY <2>2, <2>3
<1>8. QED
    BY <1>5, <1>6, <1>7 DEF PollMoved

\* Every step keeps the invariant of the logs.
LEMMA LogStep == LogInv /\ [NodeStep]_vars => LogInv'
<1> SUFFICES ASSUME LogInv, [NodeStep]_vars PROVE LogInv'
    OBVIOUS
<1>1. TypeInv' /\ VoteInv'
    BY StepFacts
<1>2. QED
    BY <1>1, VotesOldStep, WinnersLeadStep, CallsOfWinnersStep, SentFromStartStep, LinksSoundStep,
       LinksAgreeStep, LeaderHasTermStep, PollSafeStep DEF LogInv

\* The invariant of the logs holds until a request carries other entries.
LEMMA LogInvariant == Spec => [](~overwritten => LogInv)
<1>1. Init => (~overwritten => LogInv)
    BY LogInit
<1>2. (~overwritten => LogInv) /\ [Next]_vars => (~overwritten => LogInv)'
    BY LogStep, StepOfNode
<1>3. QED
    BY <1>1, <1>2, PTL DEF Spec

\* Logs with the same entries up to n have the same prefix of length n.
LEMMA SamePrefix ==
    ASSUME NEW lg \in Seq(Entry), NEW mg \in Seq(Entry), NEW n \in Nat, n <= Len(lg), n <= Len(mg)
    PROVE  (\A k \in 1..n : lg[k] = mg[k]) <=> (SubSeq(lg, 1, n) = SubSeq(mg, 1, n))
<1>1. 1 \in Nat \ {0} /\ Len(lg) \in Nat /\ Len(mg) \in Nat
    BY LogType
<1>2. /\ SubSeq(lg, 1, n) \in Seq(Entry) /\ Len(SubSeq(lg, 1, n)) = n
      /\ \A k \in 1..n : SubSeq(lg, 1, n)[k] = lg[k]
  <2>1. /\ SubSeq(lg, 1, n) \in Seq(Entry)
        /\ Len(SubSeq(lg, 1, n)) = IF 1 <= n THEN n - 1 + 1 ELSE 0
        /\ \A k \in 1..(n - 1 + 1) : SubSeq(lg, 1, n)[k] = lg[1 + k - 1]
    BY <1>1, PartOfLog
  <2>2. \A k \in 1..n : 1 + k - 1 = k /\ k \in 1..(n - 1 + 1)
    OBVIOUS
  <2>3. QED
    BY <2>1, <2>2
<1>3. /\ SubSeq(mg, 1, n) \in Seq(Entry) /\ Len(SubSeq(mg, 1, n)) = n
      /\ \A k \in 1..n : SubSeq(mg, 1, n)[k] = mg[k]
  <2>1. /\ SubSeq(mg, 1, n) \in Seq(Entry)
        /\ Len(SubSeq(mg, 1, n)) = IF 1 <= n THEN n - 1 + 1 ELSE 0
        /\ \A k \in 1..(n - 1 + 1) : SubSeq(mg, 1, n)[k] = mg[1 + k - 1]
    BY <1>1, PartOfLog
  <2>2. \A k \in 1..n : 1 + k - 1 = k /\ k \in 1..(n - 1 + 1)
    OBVIOUS
  <2>3. QED
    BY <2>1, <2>2
<1>4. ASSUME \A k \in 1..n : lg[k] = mg[k] PROVE SubSeq(lg, 1, n) = SubSeq(mg, 1, n)
    BY <1>2, <1>3, <1>4, SeqEqual
<1>5. ASSUME SubSeq(lg, 1, n) = SubSeq(mg, 1, n), NEW k \in 1..n PROVE lg[k] = mg[k]
    BY <1>2, <1>3, <1>5
<1>6. QED
    BY <1>4, <1>5

\* Log Matching, for any number of nodes and any interleaving of proposals, reads
\* of the log, late calls and elections, until a request carries other entries than
\* its sender read under the lock (the slice it keeps is the log's own memory, which
\* a truncation reuses): the test of prevLogIndex and prevLogTerm in
\* handleAppendEntries and the truncation of its append loop are enough, even though
\* sendHeartbeats reads the log after it has captured the term.  That one reuse of
\* memory is thus the only way in which logs can come to disagree.
THEOREM LogsMatch == Spec => []LogMatching
<1>1. (~overwritten => LogInv) => LogMatching
  <2> SUFFICES ASSUME LogInv, NEW i \in Server, NEW j \in Server,
                      NEW n \in 1..Smaller(Len(log[i]), Len(log[j])),
                      log[i][n].term = log[j][n].term
               PROVE  SubSeq(log[i], 1, n) = SubSeq(log[j], 1, n)
      BY DEF LogMatching
  <2>1. log[i] \in Seq(Entry) /\ log[j] \in Seq(Entry)
      BY DEF LogInv, TypeInv, TypeOK
  <2>2. Len(log[i]) \in Nat /\ Len(log[j]) \in Nat
      BY <2>1, LogType
  <2>3. n \in Nat \ {0} /\ n <= Len(log[i]) /\ n <= Len(log[j])
      BY <2>2 DEF Smaller
  <2>4. \A k \in 1..n : log[i][k] = log[j][k]
      BY <2>1, <2>3, LinksOfLog, LogsAgree DEF LogInv
  <2>5. QED
      BY <2>1, <2>3, <2>4, SamePrefix
<1>2. QED
    BY <1>1, LogInvariant, PTL

\* No entry is removed from or changed in the log of a node while it leads: a
\* leader only appends, in Propose, and handleAppendEntries never accepts a
\* request of a term in which its own node leads.  (As long as requests carry what
\* was read.)
THEOREM LeadersAppendOnly == Spec => LeaderAppendOnly
<1>1. (~overwritten => LogInv) /\ [Next]_vars =>
        [~overwritten' => \A i \in Server : (state[i] = Leader /\ state'[i] = Leader) =>
            /\ Len(log'[i]) >= Len(log[i])
            /\ SubSeq(log'[i], 1, Len(log[i])) = log[i]]_vars
  <2> SUFFICES ASSUME LogInv, [NodeStep]_vars, NEW i \in Server, state[i] = Leader, state'[i] = Leader
               PROVE  /\ Len(log'[i]) >= Len(log[i])
                      /\ SubSeq(log'[i], 1, Len(log[i])) = log[i]
      BY StepOfNode
  <2>1. TypeOK /\ TypeOK'
      BY StepFacts
  <2>2. log[i] \in Seq(Entry) /\ log'[i] \in Seq(Entry) /\ Len(log[i]) \in Nat
      BY <2>1, LogType DEF TypeOK
  <2>3. SubSeq(log[i], 1, Len(log[i])) = log[i]
      BY <2>2, SubSeqFull
  <2>4. CASE log'[i] = log[i]
      BY <2>2, <2>3, <2>4
  <2>5. ASSUME NEW cmd \in Command, Propose(i, cmd)
        PROVE  /\ Len(log'[i]) >= Len(log[i])
               /\ SubSeq(log'[i], 1, Len(log[i])) = log[i]
    <3>1. Len(log'[i]) = Len(log[i]) + 1 /\ \A n \in 1..Len(log[i]) : log'[i][n] = log[i][n]
      BY <2>1, <2>5, ProposeLinks
    <3>2. Len(log[i]) <= Len(log'[i]) /\ Len(log[i]) <= Len(log[i])
      BY <2>2, <3>1
    <3>3. SubSeq(log'[i], 1, Len(log[i])) = SubSeq(log[i], 1, Len(log[i]))
      BY <2>2, <3>1, <3>2, SamePrefix
    <3>4. QED
      BY <2>2, <2>3, <3>2, <3>3
  <2>6. QED
      BY <2>4, <2>5, LeaderLogKept
<1>2. QED
    BY <1>1, LogInvariant, PTL DEF Spec, LeaderAppendOnly

-----------------------------------------------------------------------------
(***************************************************************************)
(* The comparison of logs in handleRequestVote.                            *)
(***************************************************************************)
\* p votes for c in this step: c starts a poll, or p grants c's request.
Casts(p, c, term) ==
    \/ p = c /\ StartElection(c) /\ term = currentTerm[c] + 1
    \/ \E m \in voteRequests :
         /\ HandleRequestVote(m) /\ m.to = p /\ m.cand = c /\ m.term = term
         /\ m.term >= currentTerm[p] /\ LogUpToDate(m, log[p])

\* Where the votes after a step come from.
LEMMA BallotMoves ==
    ASSUME TypeOK, [NodeStep]_vars, NEW p \in Server, NEW c \in Server, NEW term \in Nat,
           Ballot(p, c, term)'
    PROVE  Ballot(p, c, term) \/ Casts(p, c, term)
<1> DEFINE Polled(S) == \E e \in S : e.node = c /\ e.term = term /\ (p = c \/ p \in e.granted)
           Said(S) == \E r \in S : r.cand = c /\ r.ballot = term /\ r.from = p /\ r.granted
<1>0. Polled(elections') \/ Said(voteReplies')
    BY DEF Ballot
<1>1. ASSUME elections' = elections, voteReplies' = voteReplies PROVE Ballot(p, c, term)
    BY <1>0, <1>1 DEF Ballot
<1>2. ASSUME NEW i \in Server, StartElection(i) PROVE Ballot(p, c, term) \/ Casts(p, c, term)
  <2> DEFINE poll == [node |-> i, term |-> currentTerm[i] + 1, waiting |-> Peers(i), granted |-> {}]
  <2>1. elections' = elections \cup {poll} /\ voteReplies' = voteReplies
    BY <1>2 DEF StartElection
  <2>2. CASE Polled({poll})
    BY <1>2, <2>2 DEF Casts
  <2> HIDE DEF poll
  <2>3. QED
    BY <1>0, <2>1, <2>2 DEF Ballot
<1>3. ASSUME NEW m \in voteRequests, HandleRequestVote(m)
      PROVE  Ballot(p, c, term) \/ Casts(p, c, term)
  <2> DEFINE voted == IF m.term > currentTerm[m.to] THEN Nil ELSE votedFor[m.to]
             grant == Grants(m, m.to, voted)
             reply == [cand |-> m.cand, from |-> m.to, ballot |-> m.term,
                       term |-> currentTerm[m.to], granted |-> grant]
  <2>1. elections' = elections /\ voteReplies' \subseteq voteReplies \cup {reply}
    BY <1>3 DEF HandleRequestVote
  <2>2. grant => m.term >= currentTerm[m.to] /\ LogUpToDate(m, log[m.to])
    BY DEF Grants
  <2> HIDE DEF grant
  <2>3. CASE Said({reply})
    <3>1. m.cand = c /\ m.term = term /\ m.to = p /\ grant
      BY <2>3
    <3>2. QED
      BY <1>3, <2>2, <3>1 DEF Casts
  <2> HIDE DEF reply
  <2>4. QED
    BY <1>0, <2>1, <2>3 DEF Ballot
<1>4. ASSUME NEW e \in elections, NEW r \in voteReplies, HandleVoteReply(e, r) PROVE Ballot(p, c, term)
  <2>1. e \in Election /\ r \in VoteReply
    BY DEF TypeOK
  <2>2. PICK ok \in BOOLEAN : /\ elections' = (elections \ {e}) \cup {Counted(e, r.from, ok)}
                              /\ ok => r.granted
    BY <1>4, <2>1 DEF HandleVoteReply, VoteReply
  <2> DEFINE f == Counted(e, r.from, ok)
  <2>3. /\ f.node = e.node /\ f.term = e.term
        /\ f.granted \subseteq e.granted \cup {r.from} /\ (~ok => f.granted = e.granted)
    BY <2>1, CountedPoll
  <2>4. elections' = (elections \ {e}) \cup {f} /\ voteReplies' \subseteq voteReplies
    BY <1>4, <2>2 DEF HandleVoteReply
  <2> HIDE DEF f
  <2>5. CASE Polled({f})
    BY <1>4, <2>2, <2>3, <2>5 DEF Ballot, HandleVoteReply
  <2>6. QED
    BY <1>0, <2>4, <2>5 DEF Ballot
<1>5. ASSUME NEW e \in elections, NEW q \in e.waiting, VoteCallFails(e, q) PROVE Ballot(p, c, term)
  <2> DEFINE f == Counted(e, q, FALSE)
  <2>1. e \in Election
    BY DEF TypeOK
  <2>2. f.node = e.node /\ f.term = e.term /\ f.granted = e.granted
    BY <2>1, CountedPoll
  <2>3. elections' = (elections \ {e}) \cup {f} /\ voteReplies' \subseteq voteReplies
    BY <1>5 DEF VoteCallFails
  <2> HIDE DEF f
  <2>4. QED
    BY <1>0, <2>2, <2>3 DEF Ballot
<1>6. ASSUME NEW e \in elections, TallyVotes(e) PROVE Ballot(p, c, term)
  <2>1. elections' \subseteq elections /\ voteReplies' = voteReplies
    BY <1>6 DEF TallyVotes
  <2>2. QED
    BY <1>0, <2>1 DEF Ballot
<1>7. CASE ElectionStep
    BY <1>2, <1>3, <1>4, <1>5, <1>6, <1>7 DEF ElectionStep
<1>8. CASE ReplicationStep
    BY <1>1, <1>8, KeptByReplication DEF voteVars
<1>9. CASE ApplyStep
    BY <1>1, <1>9 DEF ApplyStep, TakeEntry, RecordApplied, voteVars
<1>10. CASE UNCHANGED vars
    BY <1>1, <1>10 DEF vars, voteVars
<1>11. QED
    BY <1>7, <1>8, <1>9, <1>10 DEF NodeStep

\* Nobody else can win the term: it is won, or its candidate is doomed.
Settled(i, term) == Doomed(i, term) \/ [node |-> i, term |-> term] \in winners

\* The log that a request describes is the candidate's, as long as it can still win.
RequestsTrue ==
    \A m \in voteRequests : (currentTerm[m.cand] = m.term) =>
        \/ m.lastLogIndex = Len(log[m.cand]) /\ m.lastLogTerm = LastTerm(log[m.cand])
        \/ Settled(m.cand, m.term)

\* Whoever has voted for a candidate that can still win has gone to a later term
\* or has a log that is no more up to date than the candidate's.
VotersBehind ==
    \A i, p \in Server : \A term \in Nat : (currentTerm[i] = term /\ Ballot(p, i, term)) =>
        \/ Settled(i, term)
        \/ currentTerm[p] > term
        \/ LogUpToDate([lastLogTerm |-> LastTerm(log[i]), lastLogIndex |-> Len(log[i])], log[p])

UpToDateInv == LogInv /\ RequestsTrue /\ VotersBehind

\* Who can win a term, once settled, stays so.
LEMMA SettledStays ==
    ASSUME LogInv, [NodeStep]_vars, NEW i \in Server, NEW term \in Nat, Settled(i, term)
    PROVE  Settled(i, term)'
    BY StepFacts, DoomedStays DEF Settled

\* A node whose log changes in a term leaves the candidates of that term settled.
LEMMA LogChangeSettles ==
    ASSUME LogInv, [NodeStep]_vars, NEW i \in Server, NEW j \in Server, log'[j] # log[j],
           NEW term \in Nat, term = currentTerm'[j]
    PROVE  Settled(i, term)
<1>1. TypeOK /\ VoteInv
    BY StepFacts DEF LogInv
<1>2. \E w \in winners : w.term = term
  <2>1. ASSUME NEW cmd \in Command, Propose(j, cmd) PROVE [node |-> j, term |-> term] \in winners
    BY <1>1, <2>1 DEF Propose, nodeVars, VoteInv, ElectionSafety
  <2>2. ASSUME NEW c \in DOMAIN appendCalls, AcceptEntries(c), c.dst = j
        PROVE  [node |-> c.src, term |-> term] \in winners
    <3>1. currentTerm'[j] = c.term
      BY <1>1, <2>2 DEF AcceptEntries, AdoptLeader, TypeOK
    <3>2. QED
      BY <2>2, <3>1 DEF LogInv, CallsOfWinners
  <2>3. QED
    BY <1>1, <2>1, <2>2, LogMoves DEF LogMoved
<1>3. PICK w \in winners : w.term = term
    BY <1>2
<1>4. CASE w.node = i
  <2>1. w = [node |-> i, term |-> term]
    BY <1>1, <1>3, <1>4 DEF TypeOK
  <2>2. QED
    BY <2>1 DEF Settled
<1>5. CASE w.node # i
    BY <1>1, <1>3, <1>5, RivalDooms DEF Settled
<1>6. QED
    BY <1>4, <1>5

\* A candidate's log does not change while it can still win.
LEMMA RequestsTrueStep ==
    ASSUME UpToDateInv, [NodeStep]_vars
    PROVE  RequestsTrue'
<1>1. LogInv /\ TypeOK /\ TypeOK'
    BY StepFacts DEF UpToDateInv
<1>2. \A p \in Server : /\ currentTerm[p] \in Nat /\ currentTerm'[p] \in Nat
                        /\ currentTerm'[p] >= currentTerm[p]
    BY <1>1, StepFacts
<1>3. SUFFICES ASSUME NEW m \in voteRequests', currentTerm'[m.cand] = m.term
               PROVE  \/ m.lastLogIndex = Len(log'[m.cand]) /\ m.lastLogTerm = LastTerm(log'[m.cand])
                      \/ Settled(m.cand, m.term)'
    BY DEF RequestsTrue, LastTerm, TermAt
<1>4. m.cand \in Server /\ m.term \in Nat
    BY <1>1 DEF TypeOK, VoteRequest
<1>5. CASE log'[m.cand] # log[m.cand]
  <2>1. Settled(m.cand, m.term)
    BY <1>1, <1>3, <1>4, <1>5, LogChangeSettles
  <2>2. QED
    BY <1>1, <1>4, <2>1, SettledStays
<1>6. CASE log'[m.cand] = log[m.cand]
  <2>1. CASE m \in voteRequests
    <3>1. currentTerm[m.cand] = m.term
      BY <1>1, <1>2, <1>3, <1>4, <2>1 DEF LogInv, VotesOld
    <3>2. QED
      BY <1>1, <1>4, <1>6, <2>1, <3>1, SettledStays DEF UpToDateInv, RequestsTrue
  <2>2. CASE m \notin voteRequests
    BY <1>1, <1>6, <2>2, PollMoves DEF RequestMoved
  <2>3. QED
    BY <2>1, <2>2
<1>7. QED
    BY <1>5, <1>6

\* A voter compares logs when it votes, and takes no entry of a leader of a later term
\* without entering that term.
LEMMA VotersBehindStep ==
    ASSUME UpToDateInv, [NodeStep]_vars
    PROVE  VotersBehind'
<1>1. LogInv /\ TypeOK /\ TypeOK'
    BY StepFacts DEF UpToDateInv
<1>2. \A p \in Server : /\ currentTerm[p] \in Nat /\ currentTerm'[p] \in Nat
                        /\ currentTerm'[p] >= currentTerm[p]
    BY <1>1, StepFacts
<1>3. SUFFICES ASSUME NEW i \in Server, NEW p \in Server, NEW term \in Nat, currentTerm'[i] = term,
                      Ballot(p, i, term)'
               PROVE  \/ Settled(i, term)'
                      \/ currentTerm'[p] > term
                      \/ LogUpToDate([lastLogTerm |-> LastTerm(log'[i]), lastLogIndex |-> Len(log'[i])],
                                     log'[p])
    BY DEF VotersBehind, LogUpToDate, LastTerm, TermAt
<1> DEFINE mine(lg) == [lastLogTerm |-> LastTerm(lg), lastLogIndex |-> Len(lg)]
<1>5. CASE log'[i] # log[i]
    BY <1>1, <1>3, <1>5, LogChangeSettles, SettledStays
<1>6. CASE log'[p] # log[p] /\ currentTerm'[p] = term
    BY <1>1, <1>3, <1>6, LogChangeSettles, SettledStays
<1>7. currentTerm'[p] >= term
  <2>1. Bound(p, i, term)'
    BY <1>1, <1>3, StepFacts DEF VoteInv, BallotsBind
  <2>2. QED
    BY <1>2, <1>3, <2>1 DEF Bound
<1>8. CASE log'[i] = log[i] /\ log'[p] = log[p]
  <2>1. CASE Ballot(p, i, term)
    <3>1. currentTerm[i] = term
      <4>1. \/ \E e \in elections : e.node = i /\ e.term = term
            \/ \E r \in voteReplies : r.cand = i /\ r.ballot = term
        BY <2>1 DEF Ballot
      <4>2. term <= currentTerm[i]
        BY <1>1, <4>1 DEF LogInv, VotesOld
      <4>3. QED
        BY <1>2, <1>3, <4>2
    <3>2. \/ Settled(i, term) \/ currentTerm[p] > term
          \/ LogUpToDate(mine(log[i]), log[p])
      BY <2>1, <3>1 DEF UpToDateInv, VotersBehind
    <3>3. QED
      <4>1. CASE Settled(i, term)
        BY <1>1, <4>1, SettledStays
      <4>2. CASE currentTerm[p] > term
        BY <1>2, <1>3, <4>2
      <4>3. QED
        BY <1>8, <3>2, <4>1, <4>2
  <2>2. CASE p = i /\ StartElection(i)
    <3>1. mine(log[i]).lastLogTerm = LastTerm(log[i]) /\ mine(log[i]).lastLogIndex = Len(log[i])
      OBVIOUS
    <3>2. LogUpToDate(mine(log[i]), log[i])
      <4>1. log[i] \in Seq(Entry)
        BY <1>1 DEF TypeOK
      <4>2. Len(log[i]) \in Nat
        BY <4>1, LogType
      <4>3. QED
        BY <3>1, <4>2 DEF LogUpToDate
    <3>3. QED
      BY <1>8, <2>2, <3>2
  <2>3. ASSUME NEW m \in voteRequests, HandleRequestVote(m), m.to = p, m.cand = i, m.term = term,
               m.term >= currentTerm[p], LogUpToDate(m, log[p])
        PROVE  \/ Settled(i, term)' \/ LogUpToDate(mine(log[i]), log[p])
    <3>1. currentTerm[i] = term
      <4>1. term <= currentTerm[i]
        BY <1>1, <2>3 DEF LogInv, VotesOld
      <4>2. QED
        BY <1>2, <1>3, <4>1
    <3>2. \/ m.lastLogIndex = Len(log[i]) /\ m.lastLogTerm = LastTerm(log[i])
          \/ Settled(i, term)
      BY <2>3, <3>1 DEF UpToDateInv, RequestsTrue
    <3>3. QED
      <4>1. CASE Settled(i, term)
        BY <1>1, <4>1, SettledStays
      <4>2. CASE m.lastLogIndex = Len(log[i]) /\ m.lastLogTerm = LastTerm(log[i])
        <5>1. mine(log[i]).lastLogTerm = LastTerm(log[i]) /\ mine(log[i]).lastLogIndex = Len(log[i])
          OBVIOUS
        <5> HIDE DEF mine
        <5>2. QED
          BY <2>3, <4>2, <5>1 DEF LogUpToDate
      <4>3. QED
        BY <3>2, <4>1, <4>2
  <2> HIDE DEF mine
  <2>4. CASE Casts(p, i, term)
    <3>1. CASE p = i /\ StartElection(i)
      BY <2>2, <3>1 DEF mine
    <3>2. CASE ~(p = i /\ StartElection(i))
      <4>1. PICK m \in voteRequests :
                 /\ HandleRequestVote(m) /\ m.to = p /\ m.cand = i /\ m.term = term
                 /\ m.term >= currentTerm[p] /\ LogUpToDate(m, log[p])
        BY <2>4, <3>2 DEF Casts
      <4>2. Settled(i, term)' \/ LogUpToDate(mine(log[i]), log[p])
        BY <2>3, <4>1
      <4>3. QED
        BY <1>8, <4>2 DEF mine
    <3>3. QED
      BY <3>1, <3>2
  <2>5. QED
    BY <1>1, <1>3, <1>8, <2>1, <2>4, BallotMoves DEF mine
<1>9. QED
    BY <1>2, <1>5, <1>6, <1>7, <1>8

\* The invariant behind LeaderUpToDate holds as long.
LEMMA UpToDateInvariant == Spec => [](~overwritten => UpToDateInv)
<1>1. Init => UpToDateInv
  <2> SUFFICES ASSUME Init PROVE UpToDateInv
      OBVIOUS
  <2>1. voteRequests = {} /\ elections = {} /\ voteReplies = {}
      BY DEF Init
  <2>2. QED
      BY <2>1, LogInit DEF UpToDateInv, RequestsTrue, VotersBehind, Ballot
<1>2. UpToDateInv /\ [NodeStep]_vars => UpToDateInv'
    BY LogStep, RequestsTrueStep, VotersBehindStep DEF UpToDateInv
<1>3. (~overwritten => UpToDateInv) /\ [Next]_vars => (~overwritten => UpToDateInv)'
    BY <1>2, StepOfNode
<1>4. QED
    BY <1>1, <1>3, PTL DEF Spec

\* A node becomes leader only with a log at least as up to date as the logs of a
\* majority that has not gone to a later term: the comparison is made in
\* handleRequestVote, at the voters, and still holds when startElection counts.  (As long as
\* requests carry what was read.)
THEOREM LeadersUpToDate == Spec => LeaderUpToDate
<1>1. (~overwritten => UpToDateInv) /\ [Next]_vars =>
        [~overwritten' => \A i \in Server : (state[i] # Leader /\ state'[i] = Leader) =>
           Cardinality({j \in Server :
               LogUpToDate([lastLogTerm |-> LastTerm(log[i]), lastLogIndex |-> Len(log[i])], log[j])
               \/ currentTerm[j] > currentTerm[i]}) >= Majority]_vars
  <2> SUFFICES ASSUME UpToDateInv, [NodeStep]_vars, NEW i \in Server, state[i] # Leader, state'[i] = Leader
               PROVE  Cardinality({j \in Server :
                         LogUpToDate([lastLogTerm |-> LastTerm(log[i]), lastLogIndex |-> Len(log[i])], log[j])
                         \/ currentTerm[j] > currentTerm[i]}) >= Majority
      BY StepOfNode
  <2>1. LogInv /\ TypeOK /\ VoteInv /\ VoteInv'
      BY StepFacts DEF UpToDateInv, LogInv
  <2>2. PICK e \in elections : Wins(e)
      BY <2>1, RoleMoves DEF RoleKept, LeadKept
  <2>3. e.node = i
      BY <2>1, <2>2 DEF Wins, TypeOK
  <2>4. currentTerm[i] = e.term /\ Cardinality(e.granted) + 1 >= Majority
      BY <2>2, <2>3 DEF Wins
  <2>5. ~Settled(i, e.term)
    <3>1. ~Doomed(i, e.term)
      BY <2>1, <2>3, <2>4, WinnerNotDoomed
    <3>2. ASSUME [node |-> i, term |-> e.term] \in winners PROVE FALSE
      <4>1. PICK w \in winners : w.node = i /\ w.term = e.term
        BY <3>2
      <4>2. QED
        BY <2>1, <2>4, <4>1 DEF LogInv, WinnersLead
    <3>3. QED
      BY <3>1, <3>2 DEF Settled
  <2> DEFINE Q == e.granted \cup {i}
             S == {j \in Server :
                     LogUpToDate([lastLogTerm |-> LastTerm(log[i]), lastLogIndex |-> Len(log[i])], log[j])
                     \/ currentTerm[j] > currentTerm[i]}
  <2>6. e.granted \in SUBSET Server /\ e.granted \subseteq Peers(i)
      BY <2>1, <2>3 DEF VoteInv, TypeOK, Election, PollsOfPeers
  <2>7. Q \in SUBSET Server /\ Cardinality(Q) >= Majority
    <3>1. IsFiniteSet(e.granted)
      BY <2>6, ServerAssumption, FS_Subset
    <3>2. Cardinality(Q) = Cardinality(e.granted) + 1
      BY <2>6, <3>1, FS_AddElement DEF Peers
    <3>3. QED
      BY <2>4, <2>6, <3>2
  <2>8. \A p \in Q : Ballot(p, i, currentTerm[i])
      BY <2>3, <2>4 DEF Ballot
  <2> HIDE DEF Q
  <2>9. Q \subseteq S
    <3>1. SUFFICES ASSUME NEW p \in Q PROVE p \in S
      OBVIOUS
    <3>2. p \in Server /\ currentTerm[i] \in Nat
      BY <2>1, <2>7 DEF TypeOK
    <3>3. Ballot(p, i, currentTerm[i]) /\ ~Settled(i, currentTerm[i])
      BY <2>4, <2>5, <2>8
    <3> HIDE DEF S
    <3>4. \/ currentTerm[p] > currentTerm[i]
          \/ LogUpToDate([lastLogTerm |-> LastTerm(log[i]), lastLogIndex |-> Len(log[i])], log[p])
      BY <3>2, <3>3 DEF UpToDateInv, VotersBehind
    <3>5. QED
      BY <3>2, <3>4 DEF S
  <2>10. S \subseteq Server
      OBVIOUS
  <2> HIDE DEF S
  <2>11. Cardinality(Q) <= Cardinality(S) /\ Cardinality(Q) \in Nat /\ Cardinality(S) \in Nat
    <3>1. IsFiniteSet(S) /\ IsFiniteSet(Q)
      BY <2>9, <2>10, ServerAssumption, FS_Subset
    <3>2. QED
      BY <2>9, <3>1, FS_Subset, FS_CardinalityType
  <2>12. Majority \in Nat
    <3>1. Cardinality(Server) \in Nat
      BY ServerAssumption, FS_CardinalityType
    <3>2. QED
      BY <3>1 DEF Majority
  <2>13. QED
      BY <2>7, <2>11, <2>12 DEF S
<1>2. QED
    BY <1>1, UpToDateInvariant, PTL DEF Spec, LeaderUpToDate

=============================================================================

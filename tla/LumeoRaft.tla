----------------------------- MODULE LumeoRaft -----------------------------
(***************************************************************************)
(* The Raft node of the cluster master, internal/raft/raft.go.             *)
(*                                                                         *)
(* A node is a set of goroutines that share one RWMutex.  Every action     *)
(* below is one critical section of one of them (or one step that holds no *)
(* lock, where the code holds none):                                       *)
(*                                                                         *)
(*   StartElection       election timer callback, up to its Unlock         *)
(*   HandleRequestVote   the peer's RPC handler                            *)
(*   HandleVoteReply     the per-peer goroutine of startElection           *)
(*   VoteCallFails       the same goroutine, when the call errs            *)
(*   TallyVotes          the end of startElection, after the last reply    *)
(*   SendHeartbeats      the leader's heartbeat, its first RLock           *)
(*   ReadLog             the per-peer goroutine, its second RLock          *)
(*   OverwriteEntries    what it read changes before it is marshalled      *)
(*   HandleAppendEntries the peer's RPC handler                            *)
(*   HandleAppendReply   the per-peer goroutine, on the answer             *)
(*   AppendCallFails     the same goroutine, when the call errs            *)
(*   Propose             a client command on the leader                    *)
(*   TakeEntry           applyLoop, receive and Apply (no lock held)       *)
(*   RecordApplied       applyLoop, lastApplied under the lock             *)
(*                                                                         *)
(* A call is one TCP connection with one request and one answer: it may    *)
(* be slow or fail at any point, and calls overtake each other freely, but *)
(* the code neither repeats nor duplicates a request.                      *)
(*                                                                         *)
(* The election timer may fire in any state, on a leader too: the callback *)
(* never looks at rn.state, Timer.Stop does not recall a callback that is  *)
(* already waiting for the lock, and startElection resets the timer after  *)
(* it has unlocked, so a timer can be left running that nothing refers to. *)
(*                                                                         *)
(* Definitions named for a slip (MajorityOffByOne, GrantsTwice, ...) are   *)
(* the mutants that PROJECT.json puts in the place of the definition after *)
(* them; the specification itself uses none of them.                       *)
(***************************************************************************)
EXTENDS Integers, Sequences, FiniteSets, FiniteSetsExt, Bags

CONSTANTS
    Server,     \* the nodes; each one's Config.Peers names all the others
    Command,    \* the commands clients propose
    Nil,        \* the empty string of votedFor and leaderID
    ApplyCap,   \* capacity of applyC (1000 in the code)
    MaxTerm,    \* bound: no election is started from this term
    MaxPolls,   \* bound: polls in progress at one time
    MaxLog,     \* bound: no command is proposed on a log this long
    MaxCalls    \* bound: AppendEntries calls in progress, in total

ASSUME ServerAssumption  == IsFiniteSet(Server) /\ Server # {} /\ Nil \notin Server
ASSUME BoundsAssumption  == {ApplyCap, MaxTerm, MaxPolls, MaxLog, MaxCalls} \subseteq Nat

VARIABLES
    currentTerm, votedFor, log, state, commitIndex, lastApplied,
    nextIndex, matchIndex,   \* maps over the peers; the own slot is not used
    leaderID,
    applyC,      \* entries queued for the state machine
    applying,    \* index of the entry applyLoop took and has not recorded, or 0
    applied,     \* the entries handed to StateMachine.Apply, in order
    elections,   \* the runs of startElection that wait for votes
    winners,     \* history: the nodes that became leader, with their terms
    voteRequests, voteReplies,   \* RequestVote calls in flight
    appendCalls, \* AppendEntries calls in progress, by phase
    staleAck,    \* history: an answer to an earlier term's request was used
    overwritten  \* history: entries changed between being read and being sent

nodeVars    == <<currentTerm, votedFor, state, leaderID>>
logVars     == <<log, commitIndex>>
leaderVars  == <<nextIndex, matchIndex>>
applyVars   == <<lastApplied, applyC, applying, applied>>
voteVars    == <<elections, winners, voteRequests, voteReplies>>
vars == <<nodeVars, logVars, leaderVars, applyVars, voteVars, appendCalls, staleAck, overwritten>>

Follower  == "Follower"
Candidate == "Candidate"
Leader    == "Leader"
Role == {Follower, Candidate, Leader}

Peers(i) == Server \ {i}
MajorityOffByOne == Cardinality(Server) \div 2
Majority == (Cardinality(Server) \div 2) + 1

Larger(a, b)  == IF a > b THEN a ELSE b
Smaller(a, b) == IF a < b THEN a ELSE b

(***************************************************************************)
(* Logs.  The code keeps a sentinel of index and term 0 in slot 0; here a  *)
(* log is the sequence of the entries from index 1.                        *)
(***************************************************************************)
Entry == [index : Nat \ {0}, term : Nat, cmd : Command]

TermAt(lg, n) == IF n \in 1..Len(lg) THEN lg[n].term ELSE 0
LastTerm(lg)  == TermAt(lg, Len(lg))

\* The conflict hint: the index after the last entry below prev whose term
\* differs from the one at prev; 0 when the loop finds none.
ConflictStart(lg, prev) ==
    LET other == {n \in 1..(prev - 1) : lg[n].term # lg[prev].term}
    IN  IF other = {} THEN 0 ELSE Max(other) + 1

\* The append loop: entries that agree in term are left alone, the first that
\* does not truncates the log, and the rest are appended.
MergeKeepsConflict(lg, prev, es) ==
    lg \o SubSeq(es, Len(lg) - prev + 1, Len(es))

Merge(lg, prev, es) ==
    LET fresh == {k \in 1..Len(es) : TermAt(lg, prev + k) # es[k].term
                                     \/ prev + k > Len(lg)}
    IN  IF fresh = {} THEN lg
        ELSE LET k == Min(fresh)
             IN  SubSeq(lg, 1, prev + k - 1) \o SubSeq(es, k, Len(es))

-----------------------------------------------------------------------------
(***************************************************************************)
(* The non-blocking pushes of the entries lastApplied+1..commit to applyC, *)
(* made by whoever moves commitIndex, under the lock.  applyLoop receives  *)
(* without the lock, so it may take one entry in the middle of the loop;   *)
(* it then waits for the lock, so it takes no second one.                  *)
(***************************************************************************)
Offer(queue, batch) ==
    queue \o SubSeq(batch, 1, Smaller(Len(batch), Larger(ApplyCap - Len(queue), 0)))

UnappliedToLogEnd(i, lg, commit)  == SubSeq(lg, lastApplied[i] + 1, Len(lg))
UnappliedSkipsOne(i, lg, commit)  == SubSeq(lg, lastApplied[i] + 2, commit)
UnappliedStopsEarly(i, lg, commit) == SubSeq(lg, lastApplied[i] + 1, commit - 1)
Unapplied(i, lg, commit) == SubSeq(lg, lastApplied[i] + 1, commit)

NotifyApplier(i, lg, commit) ==
    LET batch == Unapplied(i, lg, commit)
    IN  \/ /\ applyC' = [applyC EXCEPT ![i] = Offer(@, batch)]
           /\ UNCHANGED <<applying, applied>>
        \/ \E k \in 1..(Len(batch) - 1) :
             LET before == Offer(applyC[i], SubSeq(batch, 1, k))
             IN  /\ applying[i] = 0
                 /\ before # <<>>
                 /\ applyC'   = [applyC EXCEPT ![i] =
                                   Offer(Tail(before), SubSeq(batch, k + 1, Len(batch)))]
                 /\ applying' = [applying EXCEPT ![i] = Head(before).index]
                 /\ applied'  = [applied EXCEPT ![i] = Append(@, Head(before))]

TakeEntry(i) ==
    /\ applying[i] = 0
    /\ applyC[i] # <<>>
    /\ applyC'   = [applyC EXCEPT ![i] = Tail(@)]
    /\ applying' = [applying EXCEPT ![i] = Head(applyC[i]).index]
    /\ applied'  = [applied EXCEPT ![i] = Append(@, Head(applyC[i]))]
    /\ UNCHANGED <<nodeVars, logVars, leaderVars, lastApplied, voteVars, appendCalls, staleAck, overwritten>>

RecordApplied(i) ==
    /\ applying[i] # 0
    /\ lastApplied' = [lastApplied EXCEPT ![i] = applying[i]]
    /\ applying'    = [applying EXCEPT ![i] = 0]
    /\ UNCHANGED <<nodeVars, logVars, leaderVars, applyC, applied, voteVars, appendCalls, staleAck, overwritten>>

-----------------------------------------------------------------------------
(***************************************************************************)
(* Elections.                                                              *)
(***************************************************************************)
\* stepDown(term), for a handler that changes nothing else of the node.
StepDown(i, term) ==
    /\ currentTerm' = [currentTerm EXCEPT ![i] = term]
    /\ state'       = [state EXCEPT ![i] = Follower]
    /\ votedFor'    = [votedFor EXCEPT ![i] = Nil]

StartElection(i) ==
    LET term == currentTerm[i] + 1
    IN  /\ currentTerm[i] < MaxTerm
        /\ Cardinality(elections) < MaxPolls
        /\ state'       = [state EXCEPT ![i] = Candidate]
        /\ currentTerm' = [currentTerm EXCEPT ![i] = term]
        /\ votedFor'    = [votedFor EXCEPT ![i] = i]
        /\ elections'   = elections \cup
             {[node |-> i, term |-> term, waiting |-> Peers(i), granted |-> {}]}
        /\ voteRequests' = voteRequests \cup
             {[cand |-> i, to |-> p, term |-> term, lastLogIndex |-> Len(log[i]),
               lastLogTerm |-> LastTerm(log[i])] : p \in Peers(i)}
        /\ UNCHANGED <<leaderID, logVars, leaderVars, applyVars, winners, voteReplies, appendCalls, staleAck, overwritten>>

LogUpToDate(m, lg) ==
    \/ m.lastLogTerm > LastTerm(lg)
    \/ m.lastLogTerm = LastTerm(lg) /\ m.lastLogIndex >= Len(lg)

\* The vote of node i, whose votedFor is voted once a newer term is adopted.
GrantsTwice(m, i, voted) == m.term >= currentTerm[i] /\ LogUpToDate(m, log[i])
GrantsToAnyLog(m, i, voted) == m.term >= currentTerm[i] /\ voted \in {Nil, m.cand}
Grants(m, i, voted) ==
    /\ m.term >= currentTerm[i]
    /\ voted \in {Nil, m.cand}
    /\ LogUpToDate(m, log[i])

\* The answer carries the term the node had before it stepped down.  It is
\* lost when the caller has already given the call up.
HandleRequestVote(m) ==
    LET i     == m.to
        newer == m.term > currentTerm[i]
        voted == IF newer THEN Nil ELSE votedFor[i]
        grant == Grants(m, i, voted)
        heard == \E e \in elections :
                   e.node = m.cand /\ e.term = m.term /\ i \in e.waiting
    IN  /\ m \in voteRequests
        /\ voteRequests' = voteRequests \ {m}
        /\ currentTerm'  = [currentTerm EXCEPT ![i] = Larger(@, m.term)]
        /\ state'        = [state EXCEPT ![i] = IF newer THEN Follower ELSE @]
        /\ votedFor'     = [votedFor EXCEPT ![i] = IF grant THEN m.cand ELSE voted]
        /\ voteReplies'  = IF heard
                           THEN voteReplies \cup
                                  {[cand |-> m.cand, from |-> i, ballot |-> m.term,
                                    term |-> currentTerm[i], granted |-> grant]}
                           ELSE voteReplies
        /\ UNCHANGED <<leaderID, logVars, leaderVars, applyVars, elections, winners, appendCalls, staleAck, overwritten>>

\* The poll e with peer p heard from, counting its vote when ok holds.
Counted(e, p, ok) == [e EXCEPT !.waiting = @ \ {p},
                               !.granted = IF ok THEN @ \cup {p} ELSE @]

HandleVoteReply(e, r) ==
    LET i == e.node
    IN  /\ e \in elections /\ r \in voteReplies
        /\ r.cand = i /\ r.ballot = e.term /\ r.from \in e.waiting
        /\ voteReplies' = voteReplies \ {r}
        /\ \/ /\ r.term > currentTerm[i]
              /\ StepDown(i, r.term)
              /\ elections' = (elections \ {e}) \cup {Counted(e, r.from, FALSE)}
           \/ /\ r.term <= currentTerm[i]
              /\ elections' = (elections \ {e}) \cup {Counted(e, r.from, r.granted)}
              /\ UNCHANGED <<currentTerm, state, votedFor>>
        /\ UNCHANGED <<leaderID, logVars, leaderVars, applyVars, winners, voteRequests, appendCalls, staleAck, overwritten>>

\* The call errs: no connection (the request never arrives), or a broken one (it
\* may have arrived and may still be handled; an answer on its way is lost).
VoteCallFails(e, p) ==
    /\ e \in elections /\ p \in e.waiting
    /\ elections'   = (elections \ {e}) \cup {Counted(e, p, FALSE)}
    /\ voteReplies' = {r \in voteReplies :
                         ~(r.cand = e.node /\ r.ballot = e.term /\ r.from = p)}
    /\ \/ voteRequests' = {m \in voteRequests :
                              ~(m.cand = e.node /\ m.term = e.term /\ m.to = p)}
       \/ UNCHANGED voteRequests
    /\ UNCHANGED <<nodeVars, logVars, leaderVars, applyVars, winners, appendCalls, staleAck, overwritten>>

\* startElection goes on only when every peer has answered or failed.
TallyVotes(e) ==
    LET i     == e.node
        valid == state[i] = Candidate /\ currentTerm[i] = e.term
    IN  /\ e \in elections /\ e.waiting = {}
        /\ elections' = elections \ {e}
        /\ \/ /\ valid
              /\ Cardinality(e.granted) + 1 >= Majority
              /\ state'      = [state EXCEPT ![i] = Leader]
              /\ leaderID'   = [leaderID EXCEPT ![i] = i]
              /\ nextIndex'  = [nextIndex EXCEPT ![i] = [p \in Server |-> Len(log[i]) + 1]]
              /\ matchIndex' = [matchIndex EXCEPT ![i] = [p \in Server |-> 0]]
              /\ winners'    = winners \cup {[node |-> i, term |-> e.term]}
           \/ /\ ~valid \/ Cardinality(e.granted) + 1 < Majority
              /\ UNCHANGED <<state, leaderID, leaderVars, winners>>
        /\ UNCHANGED <<currentTerm, votedFor, logVars, applyVars, voteRequests,
                       voteReplies, appendCalls, staleAck, overwritten>>

-----------------------------------------------------------------------------
(***************************************************************************)
(* Replication.  A call goes through three phases: "spawned" when the      *)
(* heartbeat has captured the term and the commit index, "sent" when its   *)
(* goroutine has read the log, "replied" when the peer has handled it.     *)
(***************************************************************************)
Without(c)  == appendCalls (-) SetToBag({c})
After(c, d) == Without(c) (+) SetToBag({d})

SendHeartbeats(i) ==
    /\ state[i] = Leader
    /\ BagCardinality(appendCalls) + Cardinality(Peers(i)) <= MaxCalls
    /\ appendCalls' = appendCalls (+)
         SetToBag({[phase |-> "spawned", src |-> i, dst |-> p, term |-> currentTerm[i],
                    commit |-> commitIndex[i]] : p \in Peers(i)})
    /\ UNCHANGED <<nodeVars, logVars, leaderVars, applyVars, voteVars, staleAck, overwritten>>

\* The node's state is not looked at again: it may have stepped down since.
ReadLog(c) ==
    LET i    == c.src
        next == nextIndex[i][c.dst]
    IN  /\ c.phase = "spawned"
        /\ appendCalls' = After(c,
             [phase |-> "sent", src |-> i, dst |-> c.dst, term |-> c.term,
              commit |-> c.commit, prev |-> next - 1, prevTerm |-> TermAt(log[i], next - 1),
              entries |-> SubSeq(log[i], next, Len(log[i]))])
        /\ UNCHANGED <<nodeVars, logVars, leaderVars, applyVars, voteVars, staleAck, overwritten>>

\* What entry k of the request can be when it is marshalled: the slice that was
\* read shares the log's array, where a truncation and the appends after it put
\* other entries, field by field, and nobody holds the lock any more.  (Appends
\* that had to move the array would have left the slice as it was.)
Torn(c, k) ==
    LET read == c.entries[k]
        lg   == log[c.src]
        now  == IF c.prev + k \in 1..Len(lg) THEN lg[c.prev + k] ELSE read
    IN  {[index |-> read.index, term |-> t, cmd |-> d] :
             t \in {read.term, now.term}, d \in {read.cmd, now.cmd}}

OverwriteEntries(c) ==
    /\ c.phase = "sent"
    /\ \E es \in [DOMAIN c.entries -> UNION {Torn(c, k) : k \in DOMAIN c.entries}] :
         /\ \A k \in DOMAIN es : es[k] \in Torn(c, k)
         /\ es # c.entries
         /\ appendCalls' = After(c, [c EXCEPT !.entries = es])
    /\ overwritten' = TRUE
    /\ UNCHANGED <<nodeVars, logVars, leaderVars, applyVars, voteVars, staleAck>>

Answer(c, success, conflict) ==
    appendCalls' = After(c,
      [phase |-> "replied", src |-> c.src, dst |-> c.dst, term |-> c.term,
       replyTerm |-> currentTerm[c.dst], success |-> success, conflict |-> conflict,
       last |-> IF c.entries = <<>> THEN 0 ELSE c.entries[Len(c.entries)].index])

\* The request is from an earlier term: nothing changes.
RejectAppend(c) ==
    /\ c.phase = "sent" /\ c.term < currentTerm[c.dst]
    /\ Answer(c, FALSE, 0)
    /\ UNCHANGED <<nodeVars, logVars, leaderVars, applyVars, voteVars, staleAck, overwritten>>

\* A candidate of the same term keeps its state and its vote; only a newer
\* term makes the node a follower.
AdoptAnyLeader(c) ==
    /\ c.phase = "sent"
    /\ leaderID' = [leaderID EXCEPT ![c.dst] = c.src]
    /\ UNCHANGED <<currentTerm, state, votedFor>>

AdoptLeader(c) ==
    LET i     == c.dst
        newer == c.term > currentTerm[i]
    IN  /\ c.phase = "sent" /\ c.term >= currentTerm[i]
        /\ currentTerm' = [currentTerm EXCEPT ![i] = c.term]
        /\ state'       = [state EXCEPT ![i] = IF newer THEN Follower ELSE @]
        /\ votedFor'    = [votedFor EXCEPT ![i] = IF newer THEN Nil ELSE @]
        /\ leaderID'    = [leaderID EXCEPT ![i] = c.src]

\* The log has no entry at prev, or one of another term.
Mismatch(c) ==
    /\ c.prev > 0
    /\ \/ c.prev > Len(log[c.dst])
       \/ TermAt(log[c.dst], c.prev) # c.prevTerm

LeaderCommitDiffers(c) == c.commit # commitIndex[c.dst]
LeaderIsAhead(c) == c.commit > commitIndex[c.dst]

RefuseEntries(c) ==
    /\ AdoptLeader(c)
    /\ Mismatch(c)
    /\ Answer(c, FALSE, IF c.prev > Len(log[c.dst]) THEN Len(log[c.dst]) + 1
                        ELSE ConflictStart(log[c.dst], c.prev))
    /\ UNCHANGED <<logVars, leaderVars, applyVars, voteVars, staleAck, overwritten>>

AcceptEntries(c) ==
    LET i      == c.dst
        lg     == Merge(log[i], c.prev, c.entries)
        commit == Smaller(c.commit, c.prev + Len(c.entries))
    IN  /\ AdoptLeader(c)
        /\ ~Mismatch(c)
        /\ Answer(c, TRUE, 0)
        /\ log' = [log EXCEPT ![i] = lg]
        /\ \/ /\ LeaderIsAhead(c)
              /\ commitIndex' = [commitIndex EXCEPT ![i] = commit]
              /\ NotifyApplier(i, lg, commit)
           \/ /\ ~LeaderIsAhead(c)
              /\ UNCHANGED <<commitIndex, applyC, applying, applied>>
        /\ UNCHANGED <<leaderVars, lastApplied, voteVars, staleAck, overwritten>>

HandleAppendEntries(c) == RejectAppend(c) \/ RefuseEntries(c) \/ AcceptEntries(c)

\* updateCommitIndex: the highest entry of the node's current term that a
\* majority is believed to hold.  It looks at the term, not at rn.state.
CommittableOfAnyTerm(i, match) ==
    {n \in (commitIndex[i] + 1)..Len(log[i]) :
        Cardinality({p \in Peers(i) : match[p] >= n}) + 1 >= Majority}

CommittableAt(i, match) ==
    {n \in (commitIndex[i] + 1)..Len(log[i]) :
        /\ log[i][n].term = currentTerm[i]
        /\ Cardinality({p \in Peers(i) : match[p] >= n}) + 1 >= Majority}

UpdateCommitIndex(i, match) ==
    LET can == CommittableAt(i, match)
    IN  \/ /\ can # {}
           /\ commitIndex' = [commitIndex EXCEPT ![i] = Max(can)]
           /\ NotifyApplier(i, log[i], Max(can))
        \/ /\ can = {}
           /\ UNCHANGED <<commitIndex, applyC, applying, applied>>

Backed(next) == IF next > 1 THEN next - 1 ELSE next

\* The goroutine compares the answer's term with the node's and nothing else:
\* neither that the node still leads, nor that the request was of this term.
HandleAppendReply(c) ==
    LET i     == c.src
        p     == c.dst
        next  == nextIndex[i][p]
    IN  /\ c.phase = "replied"
        /\ appendCalls' = Without(c)
        /\ \/ /\ c.replyTerm > currentTerm[i]
              /\ StepDown(i, c.replyTerm)
              /\ UNCHANGED <<leaderVars, commitIndex, applyC, applying, applied, staleAck>>
           \/ /\ c.replyTerm <= currentTerm[i] /\ c.success /\ c.last > 0
              /\ nextIndex'  = [nextIndex EXCEPT ![i][p] = c.last + 1]
              /\ matchIndex' = [matchIndex EXCEPT ![i][p] = c.last]
              /\ UpdateCommitIndex(i, [matchIndex[i] EXCEPT ![p] = c.last])
              /\ staleAck'   = (staleAck \/ c.term # currentTerm[i])
              /\ UNCHANGED <<currentTerm, state, votedFor>>
           \/ /\ c.replyTerm <= currentTerm[i] /\ ~(c.success /\ c.last > 0)
              /\ nextIndex'  = [nextIndex EXCEPT ![i][p] =
                                  IF c.success THEN @
                                  ELSE IF c.conflict > 0 THEN c.conflict ELSE Backed(@)]
              /\ UNCHANGED <<currentTerm, state, votedFor, matchIndex, commitIndex,
                             applyC, applying, applied, staleAck>>
        /\ UNCHANGED <<leaderID, log, lastApplied, voteVars, overwritten>>

AppendCallFails(c) ==
    /\ appendCalls' = Without(c)
    /\ UNCHANGED <<nodeVars, logVars, leaderVars, applyVars, voteVars, staleAck, overwritten>>

NewEntryAtLast(i, cmd) == [index |-> Len(log[i]), term |-> currentTerm[i], cmd |-> cmd]
NewEntry(i, cmd) == [index |-> Len(log[i]) + 1, term |-> currentTerm[i], cmd |-> cmd]

\* Propose returns nil as soon as the entry is in the leader's own log.
Propose(i, cmd) ==
    /\ state[i] = Leader
    /\ Len(log[i]) < MaxLog
    /\ log' = [log EXCEPT ![i] = Append(@, NewEntry(i, cmd))]
    /\ UNCHANGED <<nodeVars, commitIndex, leaderVars, applyVars, voteVars, appendCalls, staleAck, overwritten>>

-----------------------------------------------------------------------------
Init ==
    /\ currentTerm = [i \in Server |-> 0]
    /\ votedFor    = [i \in Server |-> Nil]
    /\ log         = [i \in Server |-> <<>>]
    /\ state       = [i \in Server |-> Follower]
    /\ commitIndex = [i \in Server |-> 0]
    /\ lastApplied = [i \in Server |-> 0]
    /\ nextIndex   = [i \in Server |-> [p \in Server |-> 0]]
    /\ matchIndex  = [i \in Server |-> [p \in Server |-> 0]]
    /\ leaderID    = [i \in Server |-> Nil]
    /\ applyC      = [i \in Server |-> <<>>]
    /\ applying    = [i \in Server |-> 0]
    /\ applied     = [i \in Server |-> <<>>]
    /\ elections = {} /\ winners = {} /\ voteRequests = {} /\ voteReplies = {}
    /\ appendCalls = EmptyBag
    /\ staleAck = FALSE /\ overwritten = FALSE

ElectionStep ==
    \/ \E i \in Server : StartElection(i)
    \/ \E m \in voteRequests : HandleRequestVote(m)
    \/ \E e \in elections :
         \/ \E r \in voteReplies : HandleVoteReply(e, r)
         \/ \E p \in e.waiting : VoteCallFails(e, p)
         \/ TallyVotes(e)

ReplicationStep ==
    \/ \E i \in Server : SendHeartbeats(i) \/ \E cmd \in Command : Propose(i, cmd)
    \/ \E c \in DOMAIN appendCalls :
         ReadLog(c) \/ HandleAppendEntries(c) \/ HandleAppendReply(c) \/ AppendCallFails(c)

ApplyStep == \E i \in Server : TakeEntry(i) \/ RecordApplied(i)

NodeStep == ElectionStep \/ ReplicationStep \/ ApplyStep

Next == NodeStep \/ \E c \in DOMAIN appendCalls : OverwriteEntries(c)

Spec == Init /\ [][Next]_vars

-----------------------------------------------------------------------------
(***************************************************************************)
(* Types.                                                                  *)
(***************************************************************************)
Election    == [node : Server, term : Nat, waiting : SUBSET Server,
                granted : SUBSET Server]
VoteRequest == [cand : Server, to : Server, term : Nat,
                lastLogIndex : Nat, lastLogTerm : Nat]
VoteReply   == [cand : Server, from : Server, ballot : Nat, term : Nat, granted : BOOLEAN]
Spawned     == [phase : {"spawned"}, src : Server, dst : Server, term : Nat, commit : Nat]
Sent        == [phase : {"sent"}, src : Server, dst : Server, term : Nat, commit : Nat,
                prev : Nat, prevTerm : Nat, entries : Seq(Entry)]
Replied     == [phase : {"replied"}, src : Server, dst : Server, term : Nat,
                replyTerm : Nat, success : BOOLEAN, conflict : Nat, last : Nat]

\* Every variable keeps its type, and no index that the code computes by
\* subtraction from an unsigned number goes below zero (prev in Sent).
TypeOK ==
    /\ currentTerm \in [Server -> Nat]
    /\ votedFor    \in [Server -> Server \cup {Nil}]
    /\ log         \in [Server -> Seq(Entry)]
    /\ state       \in [Server -> Role]
    /\ commitIndex \in [Server -> Nat]
    /\ lastApplied \in [Server -> Nat]
    /\ nextIndex   \in [Server -> [Server -> Nat]]
    /\ matchIndex  \in [Server -> [Server -> Nat]]
    /\ leaderID    \in [Server -> Server \cup {Nil}]
    /\ applyC      \in [Server -> Seq(Entry)]
    /\ applying    \in [Server -> Nat]
    /\ applied     \in [Server -> Seq(Entry)]
    /\ elections     \subseteq Election
    /\ winners       \subseteq [node : Server, term : Nat]
    /\ voteRequests  \subseteq VoteRequest
    /\ voteReplies   \subseteq VoteReply
    /\ DOMAIN appendCalls \subseteq Spawned \cup Sent \cup Replied
    /\ staleAck \in BOOLEAN /\ overwritten \in BOOLEAN

(***************************************************************************)
(* Elections.                                                              *)
(***************************************************************************)
\* There is never a second winner of a term, even long after the first one has
\* gone, and a node that acts as leader has won the term it is in (startElection,
\* handleRequestVote, becomeLeader).
ElectionSafety ==
    /\ \A v, w \in winners : v.term = w.term => v.node = w.node
    /\ \A i \in Server : state[i] = Leader => [node |-> i, term |-> currentTerm[i]] \in winners

\* p has voted for c in this term, as far as a poll has counted it or an answer
\* says it.
Ballot(p, c, term) ==
    \/ \E e \in elections : e.node = c /\ e.term = term /\ (p = c \/ p \in e.granted)
    \/ \E r \in voteReplies : r.cand = c /\ r.ballot = term /\ r.from = p /\ r.granted

BallotTerms == {e.term : e \in elections} \cup {r.ballot : r \in voteReplies}

\* p cannot vote for anybody but c in this term.
Bound(p, c, term) ==
    currentTerm[p] > term \/ (currentTerm[p] = term /\ votedFor[p] = c)

\* Every vote that has been counted or is on its way binds the node that gave it,
\* two polls of a term never hold the same node's vote, and behind every winner
\* there is a majority none of whose votes can ever be counted for a rival.
VotesBind ==
    /\ \A e \in elections : e.waiting \cup e.granted \subseteq Peers(e.node)
    /\ \A p, c \in Server : \A term \in BallotTerms :
         Ballot(p, c, term) => /\ Bound(p, c, term)
                               /\ \A d \in Server : Ballot(p, d, term) => d = c
    /\ \A w \in winners : \E quorum \in SUBSET Server :
         /\ Cardinality(quorum) >= Majority
         /\ \A p \in quorum : /\ Bound(p, w.node, w.term)
                              /\ \A d \in Server : Ballot(p, d, w.term) => d = w.node

\* A node's term never goes back, and within a term its vote, once given, is
\* never taken back or given to another candidate, whatever handler runs.
VoteStable ==
    [][\A i \in Server :
         /\ currentTerm'[i] >= currentTerm[i]
         /\ (currentTerm'[i] = currentTerm[i] /\ votedFor[i] # Nil)
              => votedFor'[i] = votedFor[i]]_vars

\* A new leader's log is at least as up to date as that of a majority that is
\* still in its term or below: the log comparison of handleRequestVote, read at
\* the voters and used later, when the last peer has answered.  (As long as no
\* request has carried other entries than its sender read.)
LeaderUpToDate ==
    [][~overwritten' => \A i \in Server : (state[i] # Leader /\ state'[i] = Leader) =>
         Cardinality({j \in Server :
             LogUpToDate([lastLogTerm |-> LastTerm(log[i]), lastLogIndex |-> Len(log[i])], log[j])
             \/ currentTerm[j] > currentTerm[i]}) >= Majority]_vars

(***************************************************************************)
(* Replication.                                                            *)
(***************************************************************************)
\* Two logs that hold an entry of the same term at an index are equal up to it, as
\* long as no request has carried other entries than those its sender read under
\* the lock: one that does (OverwriteEntries) can give its receiver an entry that
\* belongs to another log.
LogMatching ==
    ~overwritten => \A i, j \in Server :
      \A n \in 1..Smaller(Len(log[i]), Len(log[j])) :
        log[i][n].term = log[j][n].term => SubSeq(log[i], 1, n) = SubSeq(log[j], 1, n)

\* No step of any goroutine removes or changes an entry in the log of a node
\* that leads before and after it, with the same proviso.
LeaderAppendOnly ==
    [][~overwritten' => \A i \in Server : (state[i] = Leader /\ state'[i] = Leader) =>
         /\ Len(log'[i]) >= Len(log[i])
         /\ SubSeq(log'[i], 1, Len(log[i])) = log[i]]_vars

Holders(i, n) ==
    {j \in Server : n <= Len(log[j]) /\ log[j][n] = log[i][n]}

\* What a node has committed is in the logs of a majority: "the highest index
\* replicated on a majority" of updateCommitIndex.  An answer that arrives after
\* its sender has led two later terms can make this false (see HandleAppendReply).
MajorityHoldsCommitted ==
    \A i \in Server : \A n \in 1..commitIndex[i] :
        n <= Len(log[i]) /\ Cardinality(Holders(i, n)) >= Majority

\* No leader has counted an answer to a request of an earlier term, and no request
\* has carried other entries than its sender read.
Undisturbed == ~staleAck /\ ~overwritten

\* The same for the undisturbed behaviours: there, what is committed is never
\* truncated away.
CommittedOnMajority == Undisturbed => MajorityHoldsCommitted

\* A leader has every entry that any node of its term or an earlier one has
\* committed, with the same proviso.
LeaderCompleteness ==
    Undisturbed => \A i, j \in Server :
        (state[j] = Leader /\ currentTerm[i] <= currentTerm[j]) =>
            /\ commitIndex[i] <= Len(log[j])
            /\ SubSeq(log[i], 1, commitIndex[i]) = SubSeq(log[j], 1, commitIndex[i])

\* What a leader believes of a peer is true: the peer holds the leader's entries
\* up to matchIndex, unless it has gone to a later term, with the same proviso.
MatchIndexTrue ==
    Undisturbed => \A i \in Server : \A p \in Peers(i) :
        (state[i] = Leader /\ currentTerm[p] <= currentTerm[i]) =>
            LET n == matchIndex[i][p]
            IN  n <= Len(log[p]) /\ SubSeq(log[p], 1, n) = SubSeq(log[i], 1, n)

\* No node's commit index goes back, with the same proviso: handleAppendEntries
\* assigns the smaller of two numbers, of which one can be below it.
CommitMonotonic ==
    [][Undisturbed' => \A i \in Server : commitIndex'[i] >= commitIndex[i]]_vars

\* What is decided: the committed part of the log of a node whose commit index is
\* the largest.
Foremost == CHOOSE i \in Server : \A j \in Server : commitIndex[j] <= commitIndex[i]
Committed(i) == SubSeq(log[i], 1, Smaller(commitIndex[i], Len(log[i])))

\* The nodes implement one log, as long as they are undisturbed: no two nodes ever
\* take different entries for the committed one of an index, what one has taken for
\* committed stays so whoever leads, and nothing else reaches a state machine.
OneLog == INSTANCE ReplicatedLog WITH
    Node <- Server, Entry <- Entry,
    decided <- Committed(Foremost), known <- commitIndex, handed <- applied, broken <- ~Undisturbed
ImplementsReplicatedLog == OneLog!Spec

(***************************************************************************)
(* Application.                                                            *)
(***************************************************************************)
AppliedIndexes(i) == {applied[i][k].index : k \in 1..Len(applied[i])}

\* Only committed entries, as they stand in the log, are handed to the state
\* machine: nothing in applyC is overtaken by a truncation.
AppliedCommitted ==
    Undisturbed => \A i \in Server : \A k \in 1..Len(applied[i]) :
        LET en == applied[i][k]
        IN  en.index <= commitIndex[i] /\ log[i][en.index] = en

\* As long as the queue has never been full, an entry is applied for the first
\* time only after its predecessor, and (with the same proviso) what follows an
\* entry is the next one or one that was applied before: the pushes, which restart
\* from a lastApplied that lags behind the queue, send a state machine back at
\* times and leave nothing out.
AppliedWithoutGap ==
    ~overwritten => \A i \in Server : \A k \in 1..Len(applied[i]) :
        LET n == applied[i][k].index
        IN  /\ n > 1 => \E l \in 1..(k - 1) : applied[i][l].index = n - 1
            /\ ~staleAck => n <= (IF k = 1 THEN 1 ELSE applied[i][k - 1].index + 1)

\* Two nodes' state machines are fed the same commands: one of the two sequences
\* is a prefix of the other.
AppliedAgree ==
    \A i, j \in Server :
        LET n == Smaller(Len(applied[i]), Len(applied[j]))
        IN  SubSeq(applied[i], 1, n) = SubSeq(applied[j], 1, n)

\* The applier goroutine keeps running, and nothing else needs to.
ApplierFairness ==
    \A i \in Server : WF_vars(TakeEntry(i)) /\ WF_vars(RecordApplied(i))

ApplySpec == Spec /\ ApplierFairness

\* With a queue that never fills, every committed entry is eventually applied.
EventuallyApplied ==
    \A i \in Server : \A n \in 1..MaxLog :
        (commitIndex[i] >= n) ~> (n \in AppliedIndexes(i))

=============================================================================

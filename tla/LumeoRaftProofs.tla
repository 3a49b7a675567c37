-------------------------- MODULE LumeoRaftProofs --------------------------
(***************************************************************************)
(* Theorems about LumeoRaft, for any finite set of nodes and any bounds.   *)
(*                                                                         *)
(*   TypeCorrect      Spec => []TypeOK                                     *)
(*   VotesAreBinding  Spec => []VotesBind                                  *)
(*   OneLeader        Spec => []ElectionSafety                             *)
(*   VotesAreStable   Spec => VoteStable                                   *)
(***************************************************************************)
EXTENDS LumeoRaft, TLAPS, FiniteSetTheorems, SequenceTheorems, WellFoundedInduction

-----------------------------------------------------------------------------
(***************************************************************************)
(* Helpers of the module: extrema, bags and sequences.                     *)
(***************************************************************************)
\* A non-empty set of naturals has a least element, and Min picks it.
LEMMA MinOfNats ==
    ASSUME NEW S \in SUBSET Nat, S # {}
    PROVE  Min(S) \in S /\ \A y \in S : Min(S) <= y
<1> DEFINE R == {ss \in Nat \X Nat : ss[1] < ss[2]}
<1>1. IsWellFoundedOn(R, Nat)
    BY NatLessThanWellFounded, Zenon DEF OpToRel
<1>2. \A y, x \in Nat : y < x => <<y, x>> \in R
    OBVIOUS
<1> HIDE DEF R
<1>3. PICK x \in S : \A y \in S : ~(<<y, x>> \in R)
    <2>1. S \subseteq Nat
        OBVIOUS
    <2>2. QED
        BY <1>1, <2>1, WFMin, Zenon
<1>4. \A y \in S : x <= y
    <2>1. SUFFICES ASSUME NEW y \in S PROVE ~(y < x)
        OBVIOUS
    <2>2. y \in Nat /\ x \in Nat
        OBVIOUS
    <2>3. ~(<<y, x>> \in R)
        BY <1>3
    <2>4. QED
        BY <1>2, <2>2, <2>3
<1>5. QED
    BY <1>4 DEF Min

\* A non-empty bounded set of naturals has a greatest element, and Max picks it.
LEMMA MaxOfNats ==
    ASSUME NEW S \in SUBSET Nat, S # {}, NEW b \in Nat, \A y \in S : y <= b
    PROVE  Max(S) \in S /\ \A y \in S : y <= Max(S)
<1> DEFINE T == {b - y : y \in S}
<1>1. T \in SUBSET Nat /\ T # {}
    <2>1. \A y \in S : y \in Nat /\ y <= b
        OBVIOUS
    <2>2. \A y \in S : b - y \in Nat
        BY <2>1
    <2>3. QED
        BY <2>2, Zenon
<1>2. Min(T) \in T /\ \A z \in T : Min(T) <= z
    BY <1>1, MinOfNats
<1>3. PICK x \in S : Min(T) = b - x
    BY <1>2
<1>4. \A y \in S : y <= x
    BY <1>2, <1>3
<1>5. QED
    BY <1>4 DEF Max

\* What the bag of calls can hold when one call is over or has gone a phase on.
LEMMA CallDomains ==
    ASSUME NEW c, NEW d
    PROVE  /\ DOMAIN Without(c) \subseteq DOMAIN appendCalls
           /\ DOMAIN After(c, d) \subseteq DOMAIN appendCalls \cup {d}
<1>1. DOMAIN Without(c) \subseteq DOMAIN appendCalls
    BY DEF Without, (-)
<1>2. DOMAIN After(c, d) = DOMAIN Without(c) \cup {d}
    BY DEF After, (+), SetToBag
<1>3. QED
    BY <1>1, <1>2

LEMMA SubSeqType ==
    ASSUME NEW S, NEW s \in Seq(S), NEW m \in Nat \ {0}, NEW n \in Nat, n <= Len(s)
    PROVE  /\ SubSeq(s, m, n) \in Seq(S)
           /\ Len(SubSeq(s, m, n)) = IF m <= n THEN n - m + 1 ELSE 0
<1>1. \A k \in m..n : s[k] \in S
    BY ElementOfSeq, LenProperties
<1>2. QED
    BY <1>1, SubSeqProperties

\* The append loop returns a log, long enough to hold what was sent.
LEMMA MergeType ==
    ASSUME NEW lg \in Seq(Entry), NEW es \in Seq(Entry), NEW prev \in Nat, prev <= Len(lg)
    PROVE  /\ Merge(lg, prev, es) \in Seq(Entry)
           /\ prev + Len(es) <= Len(Merge(lg, prev, es))
<1> DEFINE fresh == {k \in 1..Len(es) : TermAt(lg, prev + k) # es[k].term
                                        \/ prev + k > Len(lg)}
<1>0. Len(lg) \in Nat /\ Len(es) \in Nat
    BY LenProperties
<1>1. CASE fresh = {}
  <2>1. Merge(lg, prev, es) = lg
    BY <1>1 DEF Merge
  <2>2. prev + Len(es) <= Len(lg)
    <3>1. CASE Len(es) = 0
      BY <3>1, <1>0
    <3>2. CASE Len(es) # 0
      <4>1. Len(es) \in 1..Len(es) /\ Len(es) \notin fresh
        BY <3>2, <1>0, <1>1
      <4>2. QED
        BY <4>1, <1>0
    <3>3. QED
      BY <3>1, <3>2
  <2>3. QED
    BY <2>1, <2>2
<1>2. CASE fresh # {}
  <2> DEFINE k == Min(fresh)
  <2>0. fresh \in SUBSET Nat
    BY <1>0
  <2>1. k \in fresh /\ \A y \in fresh : k <= y
    <3> HIDE DEF fresh
    <3>1. QED
      BY <1>2, <2>0, MinOfNats
  <2>2. k \in 1..Len(es)
    BY <2>1
  <2>3. \A n \in 1..Len(es) : n < k => prev + n <= Len(lg)
    BY <2>1, <1>0
  <2>4. Merge(lg, prev, es) = SubSeq(lg, 1, prev + k - 1) \o SubSeq(es, k, Len(es))
    BY <1>2 DEF Merge
  <2> HIDE DEF k, fresh
  <2>5. k \in Nat \ {0} /\ prev + k - 1 \in Nat /\ prev + k - 1 <= Len(lg)
    <3>1. CASE k = 1
      BY <3>1, <1>0
    <3>2. CASE k # 1
      <4>1. k - 1 \in 1..Len(es) /\ k - 1 < k
        BY <2>2, <3>2, <1>0
      <4>2. prev + (k - 1) <= Len(lg)
        BY <4>1, <2>3
      <4>3. QED
        BY <4>2, <2>2, <1>0
    <3>3. QED
      BY <3>1, <3>2
  <2>6. /\ SubSeq(lg, 1, prev + k - 1) \in Seq(Entry)
        /\ Len(SubSeq(lg, 1, prev + k - 1)) = prev + k - 1
    <3>1. 1 \in Nat \ {0}
      OBVIOUS
    <3>2. Len(SubSeq(lg, 1, prev + k - 1)) = IF 1 <= prev + k - 1 THEN prev + k - 1 - 1 + 1 ELSE 0
      BY <2>5, <3>1, SubSeqType
    <3>3. QED
      BY <2>5, <3>1, <3>2, SubSeqType
  <2>7. /\ SubSeq(es, k, Len(es)) \in Seq(Entry)
        /\ Len(SubSeq(es, k, Len(es))) = Len(es) - k + 1
    BY <2>2, <2>5, <1>0, SubSeqType
  <2>8. QED
    BY <2>2, <2>4, <2>5, <2>6, <2>7, <1>0, ConcatProperties
<1>3. QED
    BY <1>1, <1>2

\* One cell of a leader's tables is assigned.
LEMMA SetCell ==
    ASSUME NEW f \in [Server -> [Server -> Nat]], NEW i \in Server, NEW p \in Server,
           NEW v \in Nat, NEW g, g = [f EXCEPT ![i][p] = v]
    PROVE  /\ g \in [Server -> [Server -> Nat]]
           /\ (f[i][p] >= 1 => v >= 1) => \A j, q \in Server : f[j][q] >= 1 => g[j][q] >= 1
    OBVIOUS

LEMMA TermAtType ==
    ASSUME NEW lg \in Seq(Entry), NEW n \in Nat
    PROVE  TermAt(lg, n) \in Nat
<1>1. Len(lg) \in Nat
    BY LenProperties
<1>2. \A m \in 1..Len(lg) : lg[m] \in Entry
    BY ElementOfSeq
<1>3. QED
    BY <1>1, <1>2 DEF TermAt, Entry

LEMMA LastTermType ==
    ASSUME NEW lg \in Seq(Entry)
    PROVE  LastTerm(lg) \in Nat /\ Len(lg) \in Nat
<1>1. Len(lg) \in Nat
    BY LenProperties
<1>2. QED
    BY <1>1, TermAtType DEF LastTerm

LEMMA ConflictStartType ==
    ASSUME NEW lg \in Seq(Entry), NEW prev \in Nat
    PROVE  ConflictStart(lg, prev) \in Nat
<1> DEFINE other == {n \in 1..(prev - 1) : lg[n].term # lg[prev].term}
<1>1. CASE other = {}
    BY <1>1 DEF ConflictStart
<1>2. CASE other # {}
  <2>1. other \in SUBSET Nat /\ \A y \in other : y <= prev
    OBVIOUS
  <2>2. ConflictStart(lg, prev) = Max(other) + 1
    BY <1>2 DEF ConflictStart
  <2> HIDE DEF other
  <2>3. Max(other) \in other
    BY <1>2, <2>1, MaxOfNats
  <2>4. Max(other) \in Nat
    BY <2>1, <2>3
  <2>5. QED
    BY <2>2, <2>4
<1>3. QED
    BY <1>1, <1>2

\* Pushing to applyC keeps it a queue of entries.
LEMMA OfferType ==
    ASSUME NEW queue \in Seq(Entry), NEW batch \in Seq(Entry)
    PROVE  Offer(queue, batch) \in Seq(Entry)
<1> DEFINE room == Smaller(Len(batch), Larger(ApplyCap - Len(queue), 0))
<1>1. Len(batch) \in Nat /\ Len(queue) \in Nat /\ ApplyCap \in Nat
    BY LenProperties, BoundsAssumption
<1>2. room \in Nat /\ room <= Len(batch)
    BY <1>1 DEF Smaller, Larger
<1>3. Offer(queue, batch) = queue \o SubSeq(batch, 1, room)
    BY DEF Offer
<1> HIDE DEF room
<1>4. SubSeq(batch, 1, room) \in Seq(Entry)
    BY <1>2, SubSeqType
<1>5. QED
    BY <1>3, <1>4, ConcatProperties

\* The pushes, with or without applyLoop in between, keep the types.
LEMMA NotifyType ==
    ASSUME TypeOK, NEW i \in Server, NEW lg \in Seq(Entry), NEW commit \in Nat,
           commit <= Len(lg), NotifyApplier(i, lg, commit)
    PROVE  /\ applyC'   \in [Server -> Seq(Entry)]
           /\ applying' \in [Server -> Nat]
           /\ applied'  \in [Server -> Seq(Entry)]
<1> DEFINE batch == Unapplied(i, lg, commit)
<1>1. lastApplied[i] + 1 \in Nat \ {0} /\ applyC[i] \in Seq(Entry) /\ applied[i] \in Seq(Entry)
    BY DEF TypeOK
<1>2. batch \in Seq(Entry)
    BY <1>1, SubSeqType DEF Unapplied
<1>3. CASE /\ applyC' = [applyC EXCEPT ![i] = Offer(@, batch)]
           /\ UNCHANGED <<applying, applied>>
    BY <1>1, <1>2, <1>3, OfferType DEF TypeOK
<1>4. ASSUME NEW k \in 1..(Len(batch) - 1),
             Offer(applyC[i], SubSeq(batch, 1, k)) # <<>>,
             applyC'   = [applyC EXCEPT ![i] =
                            Offer(Tail(Offer(applyC[i], SubSeq(batch, 1, k))),
                                  SubSeq(batch, k + 1, Len(batch)))],
             applying' = [applying EXCEPT ![i] = Head(Offer(applyC[i], SubSeq(batch, 1, k))).index],
             applied'  = [applied EXCEPT ![i] = Append(@, Head(Offer(applyC[i], SubSeq(batch, 1, k))))]
      PROVE  /\ applyC'   \in [Server -> Seq(Entry)]
             /\ applying' \in [Server -> Nat]
             /\ applied'  \in [Server -> Seq(Entry)]
  <2> DEFINE before == Offer(applyC[i], SubSeq(batch, 1, k))
             after  == SubSeq(batch, k + 1, Len(batch))
  <2> HIDE DEF batch
  <2>1. Len(batch) \in Nat
    BY <1>2, LenProperties
  <2>2. SubSeq(batch, 1, k) \in Seq(Entry) /\ after \in Seq(Entry)
    BY <1>2, <2>1, SubSeqType
  <2>3. before \in Seq(Entry)
    BY <1>1, <2>2, OfferType
  <2> HIDE DEF before, after
  <2>4. Head(before) \in Entry /\ Tail(before) \in Seq(Entry)
    BY <1>4, <2>3, HeadTailProperties DEF before
  <2>5. Offer(Tail(before), after) \in Seq(Entry)
    BY <2>2, <2>4, OfferType
  <2>6. Append(applied[i], Head(before)) \in Seq(Entry) /\ Head(before).index \in Nat
    BY <1>1, <2>4, AppendProperties DEF Entry
  <2>7. QED
    BY <1>4, <2>5, <2>6 DEF TypeOK, before, after
<1>5. QED
    BY <1>3, <1>4 DEF NotifyApplier

-----------------------------------------------------------------------------
(***************************************************************************)
(* Type correctness.  The request that ReadLog builds has prev = next - 1, *)
(* so the types alone are not inductive: nextIndex must be positive where  *)
(* a heartbeat goroutine can read it.                                      *)
(***************************************************************************)
PositiveNext ==
    /\ \A i \in Server : state[i] = Leader => \A p \in Server : nextIndex[i][p] >= 1
    /\ \A c \in DOMAIN appendCalls : \A p \in Server : nextIndex[c.src][p] >= 1

TypeInv == TypeOK /\ PositiveNext

LEMMA TypeInit == Init => TypeInv
<1> SUFFICES ASSUME Init PROVE TypeInv
    OBVIOUS
<1>1. DOMAIN appendCalls = {}
    BY DEF Init, EmptyBag, SetToBag
<1>2. <<>> \in Seq(Entry)
    BY EmptySeq
<1>3. QED
    BY <1>1, <1>2 DEF Init, TypeInv, TypeOK, PositiveNext, Role, Follower, Leader

LEMMA TypeElection == TypeInv /\ ElectionStep => TypeInv'
<1> SUFFICES ASSUME TypeInv, ElectionStep PROVE TypeInv'
    OBVIOUS
<1> USE DEF Follower, Candidate, Leader, TypeInv
<1>1. ASSUME NEW i \in Server, StartElection(i) PROVE TypeInv'
  <2> DEFINE poll == [node |-> i, term |-> currentTerm[i] + 1, waiting |-> Peers(i), granted |-> {}]
             request(p) == [cand |-> i, to |-> p, term |-> currentTerm[i] + 1,
                            lastLogIndex |-> Len(log[i]), lastLogTerm |-> LastTerm(log[i])]
  <2>1. currentTerm[i] + 1 \in Nat /\ LastTerm(log[i]) \in Nat /\ Len(log[i]) \in Nat
    BY LastTermType DEF TypeOK
  <2>2. poll \in Election
    BY <2>1 DEF Election, Peers
  <2>3. \A p \in Peers(i) : request(p) \in VoteRequest
    BY <2>1 DEF VoteRequest, Peers
  <2>4. elections' = elections \cup {poll} /\ voteRequests' = voteRequests \cup {request(p) : p \in Peers(i)}
    BY <1>1 DEF StartElection
  <2> HIDE DEF poll, request
  <2>5. elections' \subseteq Election /\ voteRequests' \subseteq VoteRequest
    <3>1. elections \subseteq Election /\ voteRequests \subseteq VoteRequest
      BY DEF TypeOK
    <3>2. QED
      BY <3>1, <2>2, <2>3, <2>4
  <2>6. /\ currentTerm' \in [Server -> Nat] /\ votedFor' \in [Server -> Server \cup {Nil}]
        /\ state' \in [Server -> Role]
        /\ \A j \in Server : state'[j] = Leader => state[j] = Leader
    BY <1>1, <2>1 DEF StartElection, TypeOK, Role
  <2>7. UNCHANGED <<leaderID, log, commitIndex, nextIndex, matchIndex, lastApplied, applyC, applying,
                    applied, winners, voteReplies, appendCalls, staleAck, overwritten>>
    BY <1>1 DEF StartElection, logVars, leaderVars, applyVars
  <2>8. QED
    BY <2>5, <2>6, <2>7 DEF TypeOK, PositiveNext
<1>2. ASSUME NEW m \in voteRequests, HandleRequestVote(m) PROVE TypeInv'
  <2> DEFINE voted == IF m.term > currentTerm[m.to] THEN Nil ELSE votedFor[m.to]
             grant == Grants(m, m.to, voted)
             reply == [cand |-> m.cand, from |-> m.to, ballot |-> m.term,
                       term |-> currentTerm[m.to], granted |-> grant]
  <2>1. m \in VoteRequest
    BY DEF TypeOK
  <2>2. grant \in BOOLEAN
    BY DEF Grants
  <2>3. reply \in VoteReply
    BY <2>1, <2>2 DEF VoteRequest, VoteReply, TypeOK
  <2>4. voteReplies' \subseteq voteReplies \cup {reply}
    BY <1>2 DEF HandleRequestVote
  <2> HIDE DEF grant
  <2>5. /\ currentTerm' = [currentTerm EXCEPT ![m.to] = Larger(@, m.term)]
        /\ state' = [state EXCEPT ![m.to] = IF m.term > currentTerm[m.to] THEN Follower ELSE @]
        /\ votedFor' = [votedFor EXCEPT ![m.to] = IF grant THEN m.cand ELSE voted]
    BY <1>2 DEF HandleRequestVote, grant
  <2>6. /\ currentTerm' \in [Server -> Nat] /\ votedFor' \in [Server -> Server \cup {Nil}]
        /\ state' \in [Server -> Role]
        /\ \A j \in Server : state'[j] = Leader => state[j] = Leader
    BY <2>1, <2>5 DEF TypeOK, Role, VoteRequest, Larger
  <2>7. voteRequests' \subseteq voteRequests /\
        UNCHANGED <<leaderID, log, commitIndex, nextIndex, matchIndex, lastApplied, applyC, applying,
                    applied, elections, winners, appendCalls, staleAck, overwritten>>
    BY <1>2 DEF HandleRequestVote, logVars, leaderVars, applyVars
  <2> HIDE DEF reply
  <2>8. QED
    BY <2>3, <2>4, <2>6, <2>7 DEF TypeOK, PositiveNext
<1>3. ASSUME NEW e \in elections, NEW p, NEW ok \in BOOLEAN, p \in Server
      PROVE  Counted(e, p, ok) \in Election
  <2>1. e \in Election
    BY <1>3 DEF TypeOK
  <2>. QED BY <1>3, <2>1 DEF Election, Counted
<1>4. ASSUME NEW e \in elections, NEW r \in voteReplies, HandleVoteReply(e, r) PROVE TypeInv'
  <2>1. r \in VoteReply /\ r.term \in Nat /\ r.from \in Server /\ r.granted \in BOOLEAN /\ e.node \in Server
    BY DEF TypeOK, Election, VoteReply
  <2>2. elections' \subseteq elections \cup {Counted(e, r.from, FALSE), Counted(e, r.from, r.granted)}
    BY <1>4 DEF HandleVoteReply
  <2>3. elections' \subseteq Election
    BY <1>3, <2>1, <2>2 DEF TypeOK
  <2>4. \/ UNCHANGED <<currentTerm, state, votedFor>>
        \/ StepDown(e.node, r.term)
    BY <1>4 DEF HandleVoteReply
  <2>5. /\ currentTerm' \in [Server -> Nat] /\ votedFor' \in [Server -> Server \cup {Nil}]
        /\ state' \in [Server -> Role]
        /\ \A j \in Server : state'[j] = Leader => state[j] = Leader
    BY <2>1, <2>4 DEF StepDown, TypeOK, Role
  <2>6. voteReplies' \subseteq voteReplies /\
        UNCHANGED <<leaderID, log, commitIndex, nextIndex, matchIndex, lastApplied, applyC, applying,
                    applied, winners, voteRequests, appendCalls, staleAck, overwritten>>
    BY <1>4 DEF HandleVoteReply, logVars, leaderVars, applyVars
  <2>7. QED
    BY <2>3, <2>5, <2>6 DEF TypeOK, PositiveNext
<1>5. ASSUME NEW e \in elections, NEW p \in e.waiting, VoteCallFails(e, p) PROVE TypeInv'
  <2>1. p \in Server
    BY DEF TypeOK, Election
  <2>2. elections' \subseteq Election
    BY <1>3, <1>5, <2>1 DEF VoteCallFails, TypeOK
  <2>3. QED
    BY <1>5, <2>2 DEF VoteCallFails, TypeOK, PositiveNext, nodeVars, logVars, leaderVars, applyVars
<1>6. ASSUME NEW e \in elections, TallyVotes(e) PROVE TypeInv'
  <2> DEFINE i == e.node
  <2>1. i \in Server /\ e.term \in Nat
    BY DEF TypeOK, Election
  <2>2. Len(log[i]) \in Nat
    BY <2>1, LastTermType DEF TypeOK
  <2>3. elections' \subseteq elections /\
        UNCHANGED <<currentTerm, votedFor, log, commitIndex, lastApplied, applyC, applying, applied,
                    voteRequests, voteReplies, appendCalls, staleAck, overwritten>>
    BY <1>6 DEF TallyVotes, logVars, applyVars
  <2>4. CASE UNCHANGED <<state, leaderID, nextIndex, matchIndex, winners>>
    BY <2>3, <2>4 DEF TypeOK, PositiveNext
  <2>5. CASE /\ state'      = [state EXCEPT ![i] = Leader]
             /\ leaderID'   = [leaderID EXCEPT ![i] = i]
             /\ nextIndex'  = [nextIndex EXCEPT ![i] = [p \in Server |-> Len(log[i]) + 1]]
             /\ matchIndex' = [matchIndex EXCEPT ![i] = [p \in Server |-> 0]]
             /\ winners'    = winners \cup {[node |-> i, term |-> e.term]}
    <3>1. /\ state' \in [Server -> Role] /\ leaderID' \in [Server -> Server \cup {Nil}]
          /\ nextIndex' \in [Server -> [Server -> Nat]] /\ matchIndex' \in [Server -> [Server -> Nat]]
          /\ winners' \subseteq [node : Server, term : Nat]
      BY <2>1, <2>2, <2>5 DEF TypeOK, Role
    <3>2. /\ \A j \in Server : state'[j] = Leader => j = i \/ state[j] = Leader
          /\ \A j, p \in Server : nextIndex[j][p] >= 1 \/ j = i => nextIndex'[j][p] >= 1
      <4>1. \A j \in Server : state'[j] = IF j = i THEN Leader ELSE state[j]
        BY <2>1, <2>5 DEF TypeOK
      <4>2. \A j \in Server : nextIndex'[j] = IF j = i THEN [p \in Server |-> Len(log[i]) + 1]
                                              ELSE nextIndex[j]
        BY <2>1, <2>5 DEF TypeOK
      <4> HIDE DEF i
      <4>3. QED
        BY <4>1, <4>2, <2>2
    <3>3. \A c \in DOMAIN appendCalls : c.src \in Server
      BY DEF TypeOK, Spawned, Sent, Replied
    <3> HIDE DEF i
    <3>4. PositiveNext'
      BY <2>3, <3>2, <3>3 DEF PositiveNext
    <3>5. QED
      BY <2>3, <3>1, <3>4 DEF TypeOK
  <2>6. QED
    BY <1>6, <2>4, <2>5 DEF TallyVotes, leaderVars
<1>7. QED
    BY <1>1, <1>2, <1>4, <1>5, <1>6 DEF ElectionStep

LEMMA TypeReplication == TypeInv /\ ReplicationStep => TypeInv'
<1> SUFFICES ASSUME TypeInv, ReplicationStep PROVE TypeInv'
    OBVIOUS
<1> USE DEF Follower, Candidate, Leader, TypeInv
<1>1. ASSUME NEW i \in Server, SendHeartbeats(i) PROVE TypeInv'
  <2> DEFINE call(p) == [phase |-> "spawned", src |-> i, dst |-> p, term |-> currentTerm[i],
                         commit |-> commitIndex[i]]
  <2>1. \A p \in Peers(i) : call(p) \in Spawned /\ call(p).src = i
    BY DEF TypeOK, Peers, Spawned
  <2>2. appendCalls' = appendCalls (+) SetToBag({call(p) : p \in Peers(i)}) /\ state[i] = Leader
    BY <1>1 DEF SendHeartbeats
  <2> HIDE DEF call
  <2>3. DOMAIN appendCalls' = DOMAIN appendCalls \cup {call(p) : p \in Peers(i)}
    BY <2>2 DEF (+), SetToBag
  <2>4. UNCHANGED <<nodeVars, logVars, leaderVars, applyVars, voteVars, staleAck, overwritten>>
    BY <1>1 DEF SendHeartbeats
  <2>5. DOMAIN appendCalls' \subseteq Spawned \cup Sent \cup Replied
    <3>1. DOMAIN appendCalls \subseteq Spawned \cup Sent \cup Replied
      BY DEF TypeOK
    <3>2. QED
      BY <2>1, <2>3, <3>1
  <2>6. \A c \in DOMAIN appendCalls' : \A p \in Server : nextIndex[c.src][p] >= 1
    BY <2>1, <2>2, <2>3 DEF PositiveNext
  <2>7. QED
    BY <2>4, <2>5, <2>6 DEF TypeOK, PositiveNext, nodeVars, logVars, leaderVars, applyVars, voteVars
<1>2. ASSUME NEW i \in Server, NEW cmd \in Command, Propose(i, cmd) PROVE TypeInv'
  <2>1. NewEntry(i, cmd) \in Entry /\ log[i] \in Seq(Entry)
    <3>1. Len(log[i]) \in Nat
      BY LastTermType DEF TypeOK
    <3>2. Len(log[i]) + 1 \in Nat \ {0} /\ currentTerm[i] \in Nat /\ log[i] \in Seq(Entry)
      BY <3>1 DEF TypeOK
    <3>3. NewEntry(i, cmd) \in Entry
      BY <3>2 DEF NewEntry, Entry
    <3>4. QED
      BY <3>2, <3>3
  <2>2. Append(log[i], NewEntry(i, cmd)) \in Seq(Entry)
    BY <2>1, AppendProperties
  <2>3. log' \in [Server -> Seq(Entry)]
    BY <1>2, <2>2 DEF Propose, TypeOK
  <2>4. QED
    BY <1>2, <2>3 DEF Propose, TypeOK, PositiveNext, nodeVars, leaderVars, applyVars, voteVars
<1>3. ASSUME NEW c \in DOMAIN appendCalls
      PROVE  /\ c \in Spawned \cup Sent \cup Replied
             /\ c.src \in Server /\ c.dst \in Server
             /\ nextIndex[c.src] \in [Server -> Nat]
             /\ \A p \in Server : nextIndex[c.src][p] >= 1
             /\ c.phase = "spawned" => c \in Spawned
             /\ c.phase = "sent" => c \in Sent
             /\ c.phase = "replied" => c \in Replied
  <2>1. c \in Spawned \cup Sent \cup Replied
    BY DEF TypeOK
  <2>2. QED
    BY <2>1 DEF TypeOK, PositiveNext, Spawned, Sent, Replied
\* A call that is over or has moved on, when nothing else of it changes.
<1>4. ASSUME NEW c \in DOMAIN appendCalls, NEW d,
             d \in Spawned \cup Sent \cup Replied, d.src = c.src,
             appendCalls' = Without(c) \/ appendCalls' = After(c, d)
      PROVE  /\ DOMAIN appendCalls' \subseteq Spawned \cup Sent \cup Replied
             /\ \A b \in DOMAIN appendCalls' : b.src = c.src \/ b \in DOMAIN appendCalls
  <2>1. DOMAIN appendCalls' \subseteq DOMAIN appendCalls \cup {d}
    BY <1>4, CallDomains
  <2>2. QED
    BY <1>4, <2>1 DEF TypeOK
<1>5. ASSUME NEW c \in DOMAIN appendCalls, ReadLog(c) PROVE TypeInv'
  <2> DEFINE i == c.src
             next == nextIndex[i][c.dst]
             d == [phase |-> "sent", src |-> i, dst |-> c.dst, term |-> c.term,
                   commit |-> c.commit, prev |-> next - 1, prevTerm |-> TermAt(log[i], next - 1),
                   entries |-> SubSeq(log[i], next, Len(log[i]))]
  <2>1. c \in Spawned
    BY <1>3, <1>5 DEF ReadLog
  <2>2. next \in Nat \ {0} /\ next - 1 \in Nat /\ log[i] \in Seq(Entry)
    <3>1. i \in Server /\ c.dst \in Server
      BY <1>3
    <3>2. next \in Nat /\ next >= 1
      BY <1>3, <3>1
    <3>3. log[i] \in Seq(Entry)
      BY <3>1 DEF TypeOK
    <3> HIDE DEF next
    <3>4. QED
      BY <3>2, <3>3
  <2>3. appendCalls' = After(c, d)
    BY <1>5 DEF ReadLog
  <2> HIDE DEF next
  <2>4. TermAt(log[i], next - 1) \in Nat /\ SubSeq(log[i], next, Len(log[i])) \in Seq(Entry)
    <3>1. Len(log[i]) \in Nat
      BY <2>2, LastTermType
    <3>2. QED
      BY <2>2, <3>1, TermAtType, SubSeqType
  <2>5. d \in Sent /\ d.src = c.src
    BY <1>3, <2>1, <2>2, <2>4 DEF Spawned, Sent
  <2> HIDE DEF d, i
  <2>6. /\ DOMAIN appendCalls' \subseteq Spawned \cup Sent \cup Replied
        /\ \A b \in DOMAIN appendCalls' : b.src = c.src \/ b \in DOMAIN appendCalls
    BY <1>4, <2>3, <2>5
  <2>7. UNCHANGED <<nodeVars, logVars, leaderVars, applyVars, voteVars, staleAck, overwritten>>
    BY <1>5 DEF ReadLog
  <2>8. QED
    BY <1>3, <2>6, <2>7 DEF TypeOK, PositiveNext, nodeVars, logVars, leaderVars, applyVars, voteVars
<1>6. ASSUME NEW c \in DOMAIN appendCalls, c.phase = "sent", NEW success \in BOOLEAN,
             NEW conflict \in Nat, Answer(c, success, conflict)
      PROVE  /\ DOMAIN appendCalls' \subseteq Spawned \cup Sent \cup Replied
             /\ \A b \in DOMAIN appendCalls' : b.src = c.src \/ b \in DOMAIN appendCalls
  <2> DEFINE last == IF c.entries = <<>> THEN 0 ELSE c.entries[Len(c.entries)].index
             d == [phase |-> "replied", src |-> c.src, dst |-> c.dst, term |-> c.term,
                   replyTerm |-> currentTerm[c.dst], success |-> success, conflict |-> conflict,
                   last |-> last]
  <2>1. c \in Sent
    BY <1>3, <1>6
  <2>2. c.entries \in Seq(Entry)
    BY <2>1 DEF Sent
  <2>3. last \in Nat
    <3>1. CASE c.entries = <<>>
      BY <3>1
    <3>2. CASE c.entries # <<>>
      <4>1. Len(c.entries) \in 1..Len(c.entries)
        BY <2>2, <3>2, EmptySeq, LenProperties
      <4>2. c.entries[Len(c.entries)] \in Entry
        BY <2>2, <4>1, ElementOfSeq
      <4>3. QED
        BY <3>2, <4>2 DEF Entry
    <3>3. QED
      BY <3>1, <3>2
  <2>4. appendCalls' = After(c, d)
    BY <1>6 DEF Answer
  <2> HIDE DEF last
  <2>5. d \in Replied /\ d.src = c.src
    BY <2>1, <2>3 DEF Sent, Replied, TypeOK
  <2> HIDE DEF d
  <2>6. QED
    BY <1>4, <2>4, <2>5
<1>7. ASSUME NEW c \in DOMAIN appendCalls, AdoptLeader(c)
      PROVE  /\ c.phase = "sent" /\ c \in Sent
             /\ currentTerm' \in [Server -> Nat] /\ votedFor' \in [Server -> Server \cup {Nil}]
             /\ state' \in [Server -> Role] /\ leaderID' \in [Server -> Server \cup {Nil}]
             /\ \A j \in Server : state'[j] = Leader => state[j] = Leader
  <2>1. c.phase = "sent"
    BY <1>7 DEF AdoptLeader
  <2>2. c \in Sent
    BY <1>3, <2>1
  <2>3. c.term \in Nat /\ c.src \in Server /\ c.dst \in Server
    BY <2>2 DEF Sent
  <2>4. QED
    BY <1>7, <2>1, <2>2, <2>3 DEF AdoptLeader, TypeOK, Role
<1>8. ASSUME NEW c \in DOMAIN appendCalls, RejectAppend(c) PROVE TypeInv'
  <2>1. /\ DOMAIN appendCalls' \subseteq Spawned \cup Sent \cup Replied
        /\ \A b \in DOMAIN appendCalls' : b.src = c.src \/ b \in DOMAIN appendCalls
    BY <1>6, <1>8 DEF RejectAppend
  <2>2. UNCHANGED <<nodeVars, logVars, leaderVars, applyVars, voteVars, staleAck, overwritten>>
    BY <1>8 DEF RejectAppend
  <2>3. QED
    BY <1>3, <2>1, <2>2 DEF TypeOK, PositiveNext, nodeVars, logVars, leaderVars, applyVars, voteVars
<1>9. ASSUME NEW c \in DOMAIN appendCalls, RefuseEntries(c) PROVE TypeInv'
  <2> DEFINE hint == IF c.prev > Len(log[c.dst]) THEN Len(log[c.dst]) + 1
                     ELSE ConflictStart(log[c.dst], c.prev)
  <2>1. AdoptLeader(c) /\ Answer(c, FALSE, hint)
        /\ UNCHANGED <<logVars, leaderVars, applyVars, voteVars, staleAck, overwritten>>
    BY <1>9 DEF RefuseEntries
  <2>2. c \in Sent /\ c.phase = "sent"
    BY <1>7, <2>1
  <2>3. log[c.dst] \in Seq(Entry) /\ c.prev \in Nat
    BY <2>2 DEF Sent, TypeOK
  <2>4. hint \in Nat
    <3>1. Len(log[c.dst]) + 1 \in Nat
      BY <2>3, LastTermType
    <3>2. ConflictStart(log[c.dst], c.prev) \in Nat
      BY <2>3, ConflictStartType
    <3>3. QED
      BY <3>1, <3>2
  <2> HIDE DEF hint
  <2>5. /\ DOMAIN appendCalls' \subseteq Spawned \cup Sent \cup Replied
        /\ \A b \in DOMAIN appendCalls' : b.src = c.src \/ b \in DOMAIN appendCalls
    BY <1>6, <2>1, <2>2, <2>4
  <2>6. QED
    BY <1>3, <1>7, <2>1, <2>5 DEF TypeOK, PositiveNext, logVars, leaderVars, applyVars, voteVars
<1>10. ASSUME NEW c \in DOMAIN appendCalls, AcceptEntries(c) PROVE TypeInv'
  <2> DEFINE i == c.dst
             lg == Merge(log[i], c.prev, c.entries)
             commit == Smaller(c.commit, c.prev + Len(c.entries))
  <2>1. /\ AdoptLeader(c) /\ ~Mismatch(c) /\ Answer(c, TRUE, 0) /\ log' = [log EXCEPT ![i] = lg]
        /\ UNCHANGED <<leaderVars, lastApplied, voteVars, staleAck, overwritten>>
    BY <1>10 DEF AcceptEntries
  <2>2. c \in Sent /\ c.phase = "sent"
    BY <1>7, <2>1
  <2>3. log[i] \in Seq(Entry) /\ c.prev \in Nat /\ c.entries \in Seq(Entry) /\ c.commit \in Nat /\ i \in Server
    BY <2>2 DEF Sent, TypeOK
  <2>4. Len(log[i]) \in Nat /\ Len(c.entries) \in Nat
    BY <2>3, LastTermType
  <2>5. c.prev <= Len(log[i])
    BY <2>1, <2>3, <2>4 DEF Mismatch
  <2>6. lg \in Seq(Entry) /\ c.prev + Len(c.entries) <= Len(lg)
    BY <2>3, <2>5, MergeType
  <2>7. commit \in Nat /\ commit <= c.prev + Len(c.entries)
    BY <2>3, <2>4 DEF Smaller
  <2>8. \/ /\ commitIndex' = [commitIndex EXCEPT ![i] = commit]
           /\ NotifyApplier(i, lg, commit)
        \/ UNCHANGED <<commitIndex, applyC, applying, applied>>
    BY <1>10 DEF AcceptEntries
  <2> HIDE DEF i, lg, commit
  <2>9. commit <= Len(lg)
    BY <2>3, <2>4, <2>6, <2>7, LastTermType
  <2>10. /\ log' \in [Server -> Seq(Entry)] /\ commitIndex' \in [Server -> Nat]
         /\ applyC' \in [Server -> Seq(Entry)] /\ applying' \in [Server -> Nat]
         /\ applied' \in [Server -> Seq(Entry)]
    <3>1. log' \in [Server -> Seq(Entry)] /\ commitIndex' \in [Server -> Nat]
      <4>1. log' \in [Server -> Seq(Entry)]
        BY <2>1, <2>3, <2>6 DEF TypeOK
      <4>2. commitIndex' = commitIndex \/ commitIndex' = [commitIndex EXCEPT ![i] = commit]
        BY <2>8
      <4>3. commitIndex' \in [Server -> Nat]
        BY <2>7, <4>2 DEF TypeOK
      <4>. QED BY <4>1, <4>3
    <3>2. CASE NotifyApplier(i, lg, commit)
      BY <2>3, <2>6, <2>7, <2>9, <3>1, <3>2, NotifyType
    <3>3. CASE UNCHANGED <<commitIndex, applyC, applying, applied>>
      BY <3>1, <3>3 DEF TypeOK
    <3>4. QED
      BY <2>8, <3>2, <3>3
  <2>11. /\ DOMAIN appendCalls' \subseteq Spawned \cup Sent \cup Replied
         /\ \A b \in DOMAIN appendCalls' : b.src = c.src \/ b \in DOMAIN appendCalls
    BY <1>6, <2>1, <2>2
  <2>12. QED
    BY <1>3, <1>7, <2>1, <2>10, <2>11 DEF TypeOK, PositiveNext, leaderVars, voteVars
<1>11. ASSUME NEW c \in DOMAIN appendCalls, HandleAppendReply(c) PROVE TypeInv'
  <2> DEFINE i == c.src
             p == c.dst
             match == [matchIndex[i] EXCEPT ![p] = c.last]
  <2>1. c \in Replied /\ appendCalls' = Without(c)
    BY <1>3, <1>11 DEF HandleAppendReply
  <2>2. /\ i \in Server /\ p \in Server /\ c.last \in Nat /\ c.replyTerm \in Nat /\ c.conflict \in Nat
        /\ c.success \in BOOLEAN
    BY <2>1 DEF Replied
  <2>3. /\ DOMAIN appendCalls' \subseteq Spawned \cup Sent \cup Replied
        /\ \A b \in DOMAIN appendCalls' : b.src = c.src \/ b \in DOMAIN appendCalls
    BY <1>4, <2>1
  <2>4. UNCHANGED <<leaderID, log, lastApplied, elections, winners, voteRequests, voteReplies,
                    overwritten>>
    BY <1>11 DEF HandleAppendReply, voteVars
  <2>5. CASE /\ StepDown(i, c.replyTerm)
             /\ UNCHANGED <<leaderVars, commitIndex, applyC, applying, applied, staleAck>>
    <3>1. /\ currentTerm' \in [Server -> Nat] /\ votedFor' \in [Server -> Server \cup {Nil}]
          /\ state' \in [Server -> Role]
          /\ \A j \in Server : state'[j] = Leader => state[j] = Leader
      BY <2>2, <2>5 DEF StepDown, TypeOK, Role
    <3>2. QED
      BY <1>3, <2>3, <2>4, <2>5, <3>1 DEF TypeOK, PositiveNext, leaderVars
  <2>6. CASE /\ nextIndex'  = [nextIndex EXCEPT ![i][p] = c.last + 1]
             /\ matchIndex' = [matchIndex EXCEPT ![i][p] = c.last]
             /\ UpdateCommitIndex(i, match)
             /\ staleAck' = (staleAck \/ c.term # currentTerm[i])
             /\ UNCHANGED <<currentTerm, state, votedFor>>
    <3> DEFINE can == CommittableAt(i, match)
    <3>1. /\ commitIndex' \in [Server -> Nat] /\ applyC' \in [Server -> Seq(Entry)]
          /\ applying' \in [Server -> Nat] /\ applied' \in [Server -> Seq(Entry)]
      <4>1. CASE UNCHANGED <<commitIndex, applyC, applying, applied>>
        BY <4>1 DEF TypeOK
      <4>2. CASE /\ can # {} /\ commitIndex' = [commitIndex EXCEPT ![i] = Max(can)]
                 /\ NotifyApplier(i, log[i], Max(can))
        <5>1. commitIndex[i] \in Nat /\ log[i] \in Seq(Entry) /\ Len(log[i]) \in Nat
          BY <2>2, LastTermType DEF TypeOK
        <5>2. can \in SUBSET Nat /\ \A n \in can : n <= Len(log[i])
          BY <5>1 DEF CommittableAt
        <5> HIDE DEF can
        <5>3. Max(can) \in Nat /\ Max(can) <= Len(log[i])
          <6>1. Max(can) \in can
            BY <4>2, <5>1, <5>2, MaxOfNats
          <6>2. QED
            BY <5>2, <6>1
        <5> DEFINE commit == Max(can)
        <5> HIDE DEF commit
        <5>4. /\ applyC' \in [Server -> Seq(Entry)] /\ applying' \in [Server -> Nat]
              /\ applied' \in [Server -> Seq(Entry)]
          BY <2>2, <4>2, <5>1, <5>3, NotifyType DEF commit
        <5>5. commitIndex' \in [Server -> Nat]
          BY <2>2, <4>2, <5>3 DEF TypeOK
        <5>6. QED
          BY <5>4, <5>5
      <4>3. QED
        BY <2>6, <4>1, <4>2 DEF UpdateCommitIndex
    <3>2. /\ nextIndex' \in [Server -> [Server -> Nat]] /\ matchIndex' \in [Server -> [Server -> Nat]]
          /\ \A j, q \in Server : nextIndex[j][q] >= 1 => nextIndex'[j][q] >= 1
      <4>1. c.last + 1 \in Nat /\ c.last + 1 >= 1
        BY <2>2
      <4>2. /\ nextIndex \in [Server -> [Server -> Nat]] /\ matchIndex \in [Server -> [Server -> Nat]]
            /\ nextIndex' = [nextIndex EXCEPT ![i][p] = c.last + 1]
            /\ matchIndex' = [matchIndex EXCEPT ![i][p] = c.last]
            /\ i \in Server /\ p \in Server /\ c.last \in Nat
        BY <2>2, <2>6 DEF TypeOK
      <4> HIDE DEF match, i, p, can, TypeInv
      <4>3. QED
        BY <4>1, <4>2, SetCell, Zenon
    <3>3. staleAck' \in BOOLEAN
      BY <2>6
    <3> HIDE DEF can, match, i, p
    <3>4. QED
      BY <1>3, <2>3, <2>4, <2>6, <3>1, <3>2, <3>3 DEF TypeOK, PositiveNext
  <2>7. CASE /\ nextIndex' = [nextIndex EXCEPT ![i][p] =
                                IF c.success THEN @
                                ELSE IF c.conflict > 0 THEN c.conflict ELSE Backed(@)]
             /\ UNCHANGED <<currentTerm, state, votedFor, matchIndex, commitIndex,
                            applyC, applying, applied, staleAck>>
    <3>1. /\ nextIndex' \in [Server -> [Server -> Nat]]
          /\ \A j, q \in Server : nextIndex[j][q] >= 1 => nextIndex'[j][q] >= 1
      <4> DEFINE back == IF c.success THEN nextIndex[i][p]
                         ELSE IF c.conflict > 0 THEN c.conflict ELSE Backed(nextIndex[i][p])
      <4>1. nextIndex[i][p] \in Nat
        <5>1. nextIndex \in [Server -> [Server -> Nat]]
          BY DEF TypeOK
        <5> HIDE DEF i, p
        <5>2. QED
          BY <2>2, <5>1
      <4>2. /\ nextIndex \in [Server -> [Server -> Nat]] /\ i \in Server /\ p \in Server
            /\ c.conflict \in Nat /\ nextIndex' = [nextIndex EXCEPT ![i][p] = back]
        BY <2>2, <2>7 DEF TypeOK
      <4> HIDE DEF i, p
      <4>3. back \in Nat /\ (nextIndex[i][p] >= 1 => back >= 1)
        BY <4>1, <4>2 DEF Backed
      <4> HIDE DEF match, back, TypeInv
      <4>4. QED
        BY <4>2, <4>3, SetCell, Zenon
    <3> HIDE DEF match, i, p
    <3>2. QED
      BY <1>3, <2>3, <2>4, <2>7, <3>1 DEF TypeOK, PositiveNext
  <2>8. QED
    BY <1>11, <2>5, <2>6, <2>7 DEF HandleAppendReply
<1>12. ASSUME NEW c \in DOMAIN appendCalls, AppendCallFails(c) PROVE TypeInv'
  <2>1. /\ DOMAIN appendCalls' \subseteq Spawned \cup Sent \cup Replied
        /\ \A b \in DOMAIN appendCalls' : b.src = c.src \/ b \in DOMAIN appendCalls
    BY <1>3, <1>4, <1>12 DEF AppendCallFails
  <2>2. QED
    BY <1>3, <1>12, <2>1 DEF AppendCallFails, TypeOK, PositiveNext, nodeVars, logVars, leaderVars,
                            applyVars, voteVars
<1>13. QED
    BY <1>1, <1>2, <1>5, <1>8, <1>9, <1>10, <1>11, <1>12 DEF ReplicationStep, HandleAppendEntries

LEMMA TypeApply == TypeInv /\ ApplyStep => TypeInv'
<1> SUFFICES ASSUME TypeInv, NEW i \in Server, TakeEntry(i) \/ RecordApplied(i) PROVE TypeInv'
    BY DEF ApplyStep
<1>1. applyC[i] \in Seq(Entry) /\ applied[i] \in Seq(Entry)
    BY DEF TypeInv, TypeOK
<1>2. CASE TakeEntry(i)
  <2>1. applyC[i] # <<>>
    BY <1>2 DEF TakeEntry
  <2>2. Head(applyC[i]) \in Entry /\ Tail(applyC[i]) \in Seq(Entry)
    BY <1>1, <2>1, HeadTailProperties
  <2>3. Append(applied[i], Head(applyC[i])) \in Seq(Entry) /\ Head(applyC[i]).index \in Nat
    BY <1>1, <2>2, AppendProperties DEF Entry
  <2>4. /\ applyC' \in [Server -> Seq(Entry)] /\ applying' \in [Server -> Nat]
        /\ applied' \in [Server -> Seq(Entry)]
    BY <1>2, <2>2, <2>3 DEF TakeEntry, TypeInv, TypeOK
  <2>5. QED
    BY <1>2, <2>4 DEF TakeEntry, TypeInv, TypeOK, PositiveNext, nodeVars, logVars, leaderVars, voteVars
<1>3. CASE RecordApplied(i)
    BY <1>3 DEF RecordApplied, TypeInv, TypeOK, PositiveNext, nodeVars, logVars, leaderVars, voteVars
<1>4. QED
    BY <1>2, <1>3

\* What a request can carry when it is marshalled is a list of entries again.
LEMMA TornEntries ==
    ASSUME TypeOK, NEW c \in DOMAIN appendCalls, c.phase = "sent", NEW k \in DOMAIN c.entries
    PROVE  Torn(c, k) \subseteq Entry
<1> DEFINE lg  == log[c.src]
           now == IF c.prev + k \in 1..Len(lg) THEN lg[c.prev + k] ELSE c.entries[k]
<1>1. c.src \in Server /\ c.entries \in Seq(Entry)
    BY DEF TypeOK, Spawned, Sent, Replied
<1>2. c.entries[k] \in Entry /\ lg \in Seq(Entry)
    BY <1>1 DEF TypeOK
<1>3. now \in Entry
  <2>1. CASE c.prev + k \in 1..Len(lg)
    <3> DEFINE n == c.prev + k
    <3> HIDE DEF n
    <3>1. n \in 1..Len(lg) => lg[n] \in Entry
      BY <1>2
    <3>2. QED
      BY <2>1, <3>1 DEF n
  <2>2. QED
    BY <1>2, <2>1
<1> HIDE DEF now, lg
<1>4. \A t \in {c.entries[k].term, now.term}, d \in {c.entries[k].cmd, now.cmd} :
        [index |-> c.entries[k].index, term |-> t, cmd |-> d] \in Entry
    BY <1>2, <1>3 DEF Entry
<1>5. QED
    BY <1>4 DEF Torn, now, lg

LEMMA TypeOverwrite ==
    ASSUME TypeInv, NEW c \in DOMAIN appendCalls, OverwriteEntries(c)
    PROVE  TypeInv'
<1> USE DEF TypeInv
<1>1. c.phase = "sent" /\ c \in Sent
    BY DEF OverwriteEntries, TypeOK, Spawned, Sent, Replied
<1>2. PICK es \in [DOMAIN c.entries -> UNION {Torn(c, k) : k \in DOMAIN c.entries}] :
        appendCalls' = After(c, [c EXCEPT !.entries = es])
    BY DEF OverwriteEntries
<1>3. es \in Seq(Entry)
  <2>1. c.entries \in Seq(Entry)
    BY <1>1 DEF Sent
  <2>2. DOMAIN c.entries = 1..Len(c.entries) /\ Len(c.entries) \in Nat
    BY <2>1
  <2>3. UNION {Torn(c, k) : k \in DOMAIN c.entries} \subseteq Entry
    BY <1>1, TornEntries
  <2>4. es \in [1..Len(c.entries) -> Entry]
    BY <1>2, <2>2, <2>3
  <2>5. QED
    BY <2>2, <2>4
<1> DEFINE d == [c EXCEPT !.entries = es]
<1>4. d \in Sent /\ d.src = c.src
    BY <1>1, <1>3 DEF Sent
<1> HIDE DEF d
<1>5. /\ DOMAIN appendCalls' \subseteq Spawned \cup Sent \cup Replied
      /\ \A b \in DOMAIN appendCalls' : b.src = c.src \/ b \in DOMAIN appendCalls
  <2>1. appendCalls' = After(c, d)
    BY <1>2 DEF d
  <2>2. DOMAIN After(c, d) \subseteq DOMAIN appendCalls \cup {d}
    BY CallDomains, Zenon
  <2>3. DOMAIN appendCalls' \subseteq DOMAIN appendCalls \cup {d}
    BY <2>1, <2>2
  <2>4. QED
    BY <1>4, <2>3 DEF TypeOK
<1>6. overwritten' = TRUE /\ UNCHANGED <<nodeVars, logVars, leaderVars, applyVars, voteVars, staleAck>>
    BY DEF OverwriteEntries
<1>7. TypeOK'
    BY <1>5, <1>6 DEF TypeOK, nodeVars, logVars, leaderVars, applyVars, voteVars
<1>8. PositiveNext'
    BY <1>5, <1>6 DEF PositiveNext, nodeVars, leaderVars
<1>9. QED
    BY <1>7, <1>8

LEMMA TypeStep == TypeInv /\ [Next]_vars => TypeInv'
<1>1. TypeInv /\ UNCHANGED vars => TypeInv'
    BY DEF TypeInv, TypeOK, PositiveNext, vars, nodeVars, logVars, leaderVars, applyVars, voteVars
<1>2. QED
    BY <1>1, TypeElection, TypeReplication, TypeApply, TypeOverwrite DEF Next, NodeStep

LEMMA TypeInvariant == Spec => []TypeInv
    BY TypeInit, TypeStep, PTL DEF Spec

\* Every variable keeps its type in every behaviour, for any set of nodes and any
\* bounds; in particular the request of a heartbeat never has a negative prev, the
\* value nextIndex - 1 of sendHeartbeats.
THEOREM TypeCorrect == Spec => []TypeOK
<1>1. TypeInv => TypeOK
    BY DEF TypeInv
<1>2. QED
    BY <1>1, TypeInvariant, PTL

-----------------------------------------------------------------------------
(***************************************************************************)
(* Votes.                                                                  *)
(***************************************************************************)
\* The term of a node grows, or it stays and the vote given in it does.
VoteKept(i) ==
    \/ currentTerm'[i] > currentTerm[i]
    \/ /\ currentTerm'[i] = currentTerm[i]
       /\ votedFor[i] # Nil => votedFor'[i] = votedFor[i]

\* A node that leads after the step led its term before it.
LeadKept(i) ==
    state'[i] = Leader => state[i] = Leader /\ currentTerm'[i] = currentTerm[i]

LEMMA NilNoServer == \A i \in Server : i # Nil
    BY ServerAssumption

LEMMA KeptByStepDown ==
    ASSUME TypeOK, NEW i \in Server, NEW term \in Nat, term > currentTerm[i], StepDown(i, term)
    PROVE  \A j \in Server : VoteKept(j) /\ LeadKept(j)
    BY DEF TypeOK, StepDown, VoteKept, LeadKept, Follower, Leader

LEMMA KeptByRequest ==
    ASSUME TypeOK, NEW m \in voteRequests, HandleRequestVote(m)
    PROVE  \A j \in Server : VoteKept(j) /\ LeadKept(j)
<1> DEFINE voted == IF m.term > currentTerm[m.to] THEN Nil ELSE votedFor[m.to]
           grant == Grants(m, m.to, voted)
<1>1. m.to \in Server /\ m.term \in Nat /\ m.cand \in Server
    BY DEF TypeOK, VoteRequest
<1>2. grant => voted \in {Nil, m.cand}
    BY DEF Grants
<1> HIDE DEF grant
<1>3. /\ currentTerm' = [currentTerm EXCEPT ![m.to] = Larger(@, m.term)]
      /\ state' = [state EXCEPT ![m.to] = IF m.term > currentTerm[m.to] THEN Follower ELSE @]
      /\ votedFor' = [votedFor EXCEPT ![m.to] = IF grant THEN m.cand ELSE voted]
    BY DEF HandleRequestVote, grant
<1>4. ASSUME NEW j \in Server PROVE VoteKept(j) /\ LeadKept(j)
  <2>1. CASE j # m.to
    BY <1>1, <1>3, <2>1 DEF TypeOK, VoteKept, LeadKept
  <2>2. CASE j = m.to
    <3>1. /\ currentTerm'[j] = Larger(currentTerm[j], m.term)
          /\ state'[j] = IF m.term > currentTerm[j] THEN Follower ELSE state[j]
          /\ votedFor'[j] = IF grant THEN m.cand ELSE voted
      BY <1>1, <1>3, <2>2 DEF TypeOK
    <3>2. currentTerm[j] \in Nat
      BY DEF TypeOK
    <3>3. QED
      BY <1>1, <1>2, <2>2, <3>1, <3>2 DEF VoteKept, LeadKept, Larger, Follower, Leader
  <2>3. QED
    BY <2>1, <2>2
<1>5. QED
    BY <1>4

LEMMA KeptByAdopt ==
    ASSUME TypeOK, NEW c \in DOMAIN appendCalls, AdoptLeader(c)
    PROVE  \A j \in Server : VoteKept(j) /\ LeadKept(j)
<1>1. c.dst \in Server /\ c.term \in Nat
    BY DEF TypeOK, Spawned, Sent, Replied
<1>2. ASSUME NEW j \in Server PROVE VoteKept(j) /\ LeadKept(j)
  <2>1. CASE j # c.dst
    BY <1>1, <2>1 DEF TypeOK, AdoptLeader, VoteKept, LeadKept
  <2>2. CASE j = c.dst
    <3>1. /\ c.term >= currentTerm[j] /\ currentTerm'[j] = c.term
          /\ state'[j] = IF c.term > currentTerm[j] THEN Follower ELSE state[j]
          /\ votedFor'[j] = IF c.term > currentTerm[j] THEN Nil ELSE votedFor[j]
      BY <1>1, <2>2 DEF TypeOK, AdoptLeader
    <3>2. currentTerm[j] \in Nat
      BY DEF TypeOK
    <3>3. QED
      BY <1>1, <3>1, <3>2 DEF VoteKept, LeadKept, Follower, Leader
  <2>3. QED
    BY <2>1, <2>2
<1>3. QED
    BY <1>2

\* No step but an election's touches a vote, a term or a poll except by moving to
\* a newer term.
LEMMA KeptByReplication ==
    ASSUME TypeOK, ReplicationStep
    PROVE  /\ \A j \in Server : VoteKept(j) /\ LeadKept(j)
           /\ UNCHANGED voteVars
<1>1. ASSUME UNCHANGED nodeVars PROVE \A j \in Server : VoteKept(j) /\ LeadKept(j)
    BY <1>1 DEF TypeOK, nodeVars, VoteKept, LeadKept
<1>2. ASSUME NEW i \in Server, SendHeartbeats(i) PROVE UNCHANGED nodeVars /\ UNCHANGED voteVars
    BY <1>2 DEF SendHeartbeats
<1>3. ASSUME NEW i \in Server, NEW cmd \in Command, Propose(i, cmd)
      PROVE  UNCHANGED nodeVars /\ UNCHANGED voteVars
    BY <1>3 DEF Propose
<1>4. ASSUME NEW c \in DOMAIN appendCalls, ReadLog(c) \/ RejectAppend(c) \/ AppendCallFails(c)
      PROVE  UNCHANGED nodeVars /\ UNCHANGED voteVars
    BY <1>4 DEF ReadLog, RejectAppend, AppendCallFails
<1>5. ASSUME NEW c \in DOMAIN appendCalls, RefuseEntries(c) \/ AcceptEntries(c)
      PROVE  AdoptLeader(c) /\ UNCHANGED voteVars
    BY <1>5 DEF RefuseEntries, AcceptEntries
<1>6. ASSUME NEW c \in DOMAIN appendCalls, HandleAppendReply(c)
      PROVE  /\ UNCHANGED voteVars
             /\ \A j \in Server : VoteKept(j) /\ LeadKept(j)
  <2>1. c.src \in Server /\ (c.phase = "replied" => c.replyTerm \in Nat)
    BY DEF TypeOK, Spawned, Sent, Replied
  <2>2. UNCHANGED voteVars /\ c.phase = "replied"
    BY <1>6 DEF HandleAppendReply
  <2>3. \/ c.replyTerm > currentTerm[c.src] /\ StepDown(c.src, c.replyTerm)
        \/ UNCHANGED <<currentTerm, state, votedFor>>
    BY <1>6 DEF HandleAppendReply
  <2>4. CASE UNCHANGED <<currentTerm, state, votedFor>>
    BY <2>4, <2>2 DEF TypeOK, VoteKept, LeadKept
  <2>5. QED
    BY <2>1, <2>2, <2>3, <2>4, KeptByStepDown
<1>7. QED
    BY <1>1, <1>2, <1>3, <1>4, <1>5, <1>6, KeptByAdopt DEF ReplicationStep, HandleAppendEntries

LEMMA KeptByVoteReply ==
    ASSUME TypeOK, NEW e \in elections, NEW r \in voteReplies, HandleVoteReply(e, r)
    PROVE  \A j \in Server : VoteKept(j) /\ LeadKept(j)
<1>1. e.node \in Server /\ r.term \in Nat
    BY DEF TypeOK, Election, VoteReply
<1>2. \/ r.term > currentTerm[e.node] /\ StepDown(e.node, r.term)
      \/ UNCHANGED <<currentTerm, state, votedFor>>
    BY DEF HandleVoteReply
<1>3. CASE UNCHANGED <<currentTerm, state, votedFor>>
    BY <1>3 DEF TypeOK, VoteKept, LeadKept
<1>4. QED
    BY <1>1, <1>2, <1>3, KeptByStepDown

LEMMA KeptByNext ==
    ASSUME TypeOK, [Next]_vars
    PROVE  \A j \in Server : VoteKept(j)
<1>1. ASSUME NEW i \in Server, StartElection(i) PROVE \A j \in Server : VoteKept(j)
    BY <1>1 DEF StartElection, TypeOK, VoteKept
<1>2. ASSUME UNCHANGED <<currentTerm, votedFor>> PROVE \A j \in Server : VoteKept(j)
    BY <1>2 DEF TypeOK, VoteKept
<1>3. ASSUME NEW e \in elections, NEW p \in e.waiting, VoteCallFails(e, p)
      PROVE  UNCHANGED <<currentTerm, votedFor>>
    BY <1>3 DEF VoteCallFails, nodeVars
<1>4. ASSUME NEW e \in elections, TallyVotes(e) PROVE UNCHANGED <<currentTerm, votedFor>>
    BY <1>4 DEF TallyVotes
<1>5. ASSUME ApplyStep PROVE UNCHANGED <<currentTerm, votedFor>>
    BY <1>5 DEF ApplyStep, TakeEntry, RecordApplied, nodeVars
<1>6. CASE ElectionStep
    BY <1>1, <1>2, <1>3, <1>4, <1>6, KeptByRequest, KeptByVoteReply DEF ElectionStep
<1>7. CASE UNCHANGED vars
    BY <1>2, <1>7 DEF vars, nodeVars
<1>8. ASSUME NEW c \in DOMAIN appendCalls, OverwriteEntries(c) PROVE UNCHANGED <<currentTerm, votedFor>>
    BY <1>8 DEF OverwriteEntries, nodeVars
<1>9. QED
    BY <1>2, <1>5, <1>6, <1>7, <1>8, KeptByReplication DEF Next, NodeStep

\* The term of a node never goes back and its vote in a term is final, in every
\* handler that can change either: startElection, handleRequestVote,
\* handleAppendEntries and the two reply handlers that call stepDown.
THEOREM VotesAreStable == Spec => VoteStable
<1>1. TypeInv /\ [Next]_vars =>
        [\A i \in Server : /\ currentTerm'[i] >= currentTerm[i]
                           /\ (currentTerm'[i] = currentTerm[i] /\ votedFor[i] # Nil)
                                => votedFor'[i] = votedFor[i]]_vars
  <2> SUFFICES ASSUME TypeInv, [Next]_vars, NEW i \in Server
               PROVE  /\ currentTerm'[i] >= currentTerm[i]
                      /\ (currentTerm'[i] = currentTerm[i] /\ votedFor[i] # Nil)
                           => votedFor'[i] = votedFor[i]
      OBVIOUS
  <2>1. VoteKept(i) /\ currentTerm[i] \in Nat /\ currentTerm'[i] \in Nat
      BY KeptByNext, TypeStep DEF TypeInv, TypeOK
  <2>2. QED
      BY <2>1 DEF VoteKept
<1>2. QED
    BY <1>1, TypeInvariant, PTL DEF Spec, VoteStable

(***************************************************************************)
(* The binding of votes, by induction.  VotesBind speaks of the terms that *)
(* have ballots; the invariant does of all.  It needs ElectionSafety for   *)
(* the nodes that lead and gives its other half: two winners of a term     *)
(* would share a voter.                                                    *)
(***************************************************************************)
PollsOfPeers == \A e \in elections : e.waiting \cup e.granted \subseteq Peers(e.node)

BallotsBind ==
    \A p, c \in Server : \A term \in Nat :
        Ballot(p, c, term) => /\ Bound(p, c, term)
                              /\ \A d \in Server : Ballot(p, d, term) => d = c

BackedBy(quorum, node, term) ==
    /\ Cardinality(quorum) >= Majority
    /\ \A p \in quorum : /\ Bound(p, node, term)
                         /\ \A d \in Server : Ballot(p, d, term) => d = node

WinnersBacked == \A w \in winners : \E quorum \in SUBSET Server : BackedBy(quorum, w.node, w.term)

VoteInv == TypeOK /\ PollsOfPeers /\ BallotsBind /\ WinnersBacked /\ ElectionSafety

\* A ballot that a step creates: the node is in its term, has voted for the
\* candidate, and could vote for nobody else.
FreshBallot(p, c, term) ==
    /\ currentTerm'[p] = term /\ votedFor'[p] = c
    /\ \A d \in Server : Bound(p, d, term) => d = c

BallotsKept ==
    \A p, c \in Server : \A term \in Nat :
        Ballot(p, c, term)' => Ballot(p, c, term) \/ FreshBallot(p, c, term)

LEMMA BoundKept ==
    ASSUME TypeOK, TypeOK', NEW p \in Server, NEW c \in Server, NEW term \in Nat,
           VoteKept(p), Bound(p, c, term)
    PROVE  Bound(p, c, term)'
<1>1. currentTerm[p] \in Nat /\ currentTerm'[p] \in Nat /\ c # Nil
    BY NilNoServer DEF TypeOK
<1>2. QED
    BY <1>1 DEF Bound, VoteKept

\* A step that makes no winner keeps the invariant when it keeps votes and leads.
LEMMA VoteFrame ==
    ASSUME VoteInv, TypeOK', PollsOfPeers', \A i \in Server : VoteKept(i) /\ LeadKept(i),
           BallotsKept, UNCHANGED winners
    PROVE  VoteInv'
<1>1. BallotsBind'
  <2> SUFFICES ASSUME NEW p \in Server, NEW c \in Server, NEW term \in Nat, Ballot(p, c, term)'
               PROVE  /\ Bound(p, c, term)'
                      /\ \A d \in Server : Ballot(p, d, term)' => d = c
      BY DEF BallotsBind
  <2>1. CASE FreshBallot(p, c, term)
    <3>1. Bound(p, c, term)'
      BY <2>1 DEF FreshBallot, Bound
    <3>2. ASSUME NEW d \in Server, Ballot(p, d, term)' PROVE d = c
      <4>1. CASE Ballot(p, d, term)
        BY <2>1, <4>1 DEF FreshBallot, VoteInv, BallotsBind
      <4>2. CASE FreshBallot(p, d, term)
        BY <2>1, <4>2 DEF FreshBallot
      <4>3. QED
        BY <3>2, <4>1, <4>2 DEF BallotsKept
    <3>3. QED
      BY <3>1, <3>2
  <2>2. CASE Ballot(p, c, term)
    <3>1. Bound(p, c, term)
      BY <2>2 DEF VoteInv, BallotsBind
    <3>2. Bound(p, c, term)'
      BY <3>1, BoundKept DEF VoteInv
    <3>3. ASSUME NEW d \in Server, Ballot(p, d, term)' PROVE d = c
      <4>1. CASE Ballot(p, d, term)
        BY <2>2, <4>1 DEF VoteInv, BallotsBind
      <4>2. CASE FreshBallot(p, d, term)
        BY <3>1, <4>2 DEF FreshBallot
      <4>3. QED
        BY <3>3, <4>1, <4>2 DEF BallotsKept
    <3>4. QED
      BY <3>2, <3>3
  <2>3. QED
    BY <2>1, <2>2 DEF BallotsKept
<1>2. WinnersBacked'
  <2>1. ASSUME NEW w \in winners
        PROVE  \E quorum \in SUBSET Server : BackedBy(quorum, w.node, w.term)'
    <3>1. PICK quorum \in SUBSET Server : BackedBy(quorum, w.node, w.term)
      BY DEF VoteInv, WinnersBacked
    <3>2. w.node \in Server /\ w.term \in Nat
      BY DEF VoteInv, TypeOK
    <3>3. ASSUME NEW p \in quorum
          PROVE  /\ Bound(p, w.node, w.term)'
                 /\ \A d \in Server : Ballot(p, d, w.term)' => d = w.node
      <4>1. p \in Server /\ Bound(p, w.node, w.term)
        BY <3>1 DEF BackedBy
      <4>2. Bound(p, w.node, w.term)'
        BY <3>2, <4>1, BoundKept DEF VoteInv
      <4>3. ASSUME NEW d \in Server, Ballot(p, d, w.term)' PROVE d = w.node
        <5>1. CASE Ballot(p, d, w.term)
          BY <3>1, <5>1 DEF BackedBy
        <5>2. CASE FreshBallot(p, d, w.term)
          BY <3>2, <4>1, <5>2 DEF FreshBallot
        <5>3. QED
          BY <3>2, <4>1, <4>3, <5>1, <5>2 DEF BallotsKept
      <4>4. QED
        BY <4>2, <4>3
    <3>4. QED
      BY <3>1, <3>3 DEF BackedBy
  <2>2. QED
    BY <2>1 DEF WinnersBacked
<1>3. ElectionSafety'
    BY DEF VoteInv, ElectionSafety, LeadKept
<1>4. QED
    BY <1>1, <1>2, <1>3 DEF VoteInv

LEMMA VoteInit == Init => VoteInv
<1> SUFFICES ASSUME Init PROVE VoteInv
    OBVIOUS
<1>1. TypeOK
    BY TypeInit DEF TypeInv
<1>2. elections = {} /\ winners = {} /\ voteReplies = {} /\ \A i \in Server : state[i] # Leader
    BY DEF Init, Follower, Leader
<1>3. QED
    BY <1>1, <1>2 DEF VoteInv, PollsOfPeers, BallotsBind, WinnersBacked, ElectionSafety, Ballot

\* startElection: a new term, so no ballot of it can have been cast by this node.
LEMMA VoteStart ==
    ASSUME VoteInv, TypeOK', NEW i \in Server, StartElection(i)
    PROVE  VoteInv' /\ BallotsKept
<1> DEFINE term0 == currentTerm[i] + 1
           poll == [node |-> i, term |-> term0, waiting |-> Peers(i), granted |-> {}]
<1>1. currentTerm[i] \in Nat
    BY DEF VoteInv, TypeOK
<1>2. /\ elections' = elections \cup {poll}
      /\ UNCHANGED <<voteReplies, winners>>
    BY DEF StartElection
<1>3. \A j \in Server : VoteKept(j) /\ LeadKept(j)
    BY DEF StartElection, VoteInv, TypeOK, VoteKept, LeadKept, Candidate, Leader
<1>4. PollsOfPeers'
    BY <1>2 DEF VoteInv, PollsOfPeers, Peers
<1>5. FreshBallot(i, i, term0)
  <2>1. currentTerm'[i] = term0 /\ votedFor'[i] = i
    BY DEF StartElection, VoteInv, TypeOK
  <2>2. QED
    BY <1>1, <2>1 DEF FreshBallot, Bound
<1>6. BallotsKept
  <2>1. ASSUME NEW p \in Server, NEW c \in Server, NEW term \in Nat, Ballot(p, c, term)'
        PROVE  Ballot(p, c, term) \/ FreshBallot(p, c, term)
    <3>1. ASSUME NEW e \in elections', e.node = c, e.term = term, p = c \/ p \in e.granted
          PROVE  Ballot(p, c, term) \/ FreshBallot(p, c, term)
      <4>1. CASE e \in elections
        BY <3>1, <4>1 DEF Ballot
      <4>2. CASE e = poll
        BY <3>1, <4>2, <1>5
      <4>3. QED
        BY <1>2, <4>1, <4>2
    <3>2. QED
      BY <1>2, <2>1, <3>1 DEF Ballot
  <2>2. QED
    BY <2>1 DEF BallotsKept
<1>7. QED
    BY <1>2, <1>3, <1>4, <1>6, VoteFrame

\* handleRequestVote: a vote is granted only by a node free to give it.
LEMMA VoteRequested ==
    ASSUME VoteInv, TypeOK', NEW m \in voteRequests, HandleRequestVote(m)
    PROVE  VoteInv' /\ BallotsKept
<1> DEFINE voted == IF m.term > currentTerm[m.to] THEN Nil ELSE votedFor[m.to]
           grant == Grants(m, m.to, voted)
           reply == [cand |-> m.cand, from |-> m.to, ballot |-> m.term,
                     term |-> currentTerm[m.to], granted |-> grant]
<1>1. m.to \in Server /\ m.term \in Nat /\ m.cand \in Server /\ currentTerm[m.to] \in Nat
    BY DEF VoteInv, TypeOK, VoteRequest
<1>2. \A j \in Server : VoteKept(j) /\ LeadKept(j)
    BY KeptByRequest DEF VoteInv
<1>3. UNCHANGED <<elections, winners>> /\ voteReplies' \subseteq voteReplies \cup {reply}
    BY DEF HandleRequestVote
<1>4. PollsOfPeers'
    BY <1>3 DEF VoteInv, PollsOfPeers
<1>5. grant => FreshBallot(m.to, m.cand, m.term)
  <2>1. grant => m.term >= currentTerm[m.to] /\ voted \in {Nil, m.cand}
    BY DEF Grants
  <2> HIDE DEF grant
  <2>2. /\ currentTerm' = [currentTerm EXCEPT ![m.to] = Larger(@, m.term)]
        /\ votedFor' = [votedFor EXCEPT ![m.to] = IF grant THEN m.cand ELSE voted]
    BY DEF HandleRequestVote, grant
  <2>3. grant => currentTerm'[m.to] = m.term /\ votedFor'[m.to] = m.cand
    BY <1>1, <2>1, <2>2 DEF VoteInv, TypeOK, Larger
  <2>4. ASSUME grant, NEW d \in Server, Bound(m.to, d, m.term) PROVE d = m.cand
    <3>1. currentTerm[m.to] = m.term /\ votedFor[m.to] = d
      BY <1>1, <2>1, <2>4 DEF Bound
    <3>2. voted = d
      BY <1>1, <3>1
    <3>. QED BY <2>1, <2>4, <3>2, NilNoServer
  <2>5. QED
    BY <2>3, <2>4 DEF FreshBallot
<1>6. BallotsKept
  <2>1. ASSUME NEW p \in Server, NEW c \in Server, NEW term \in Nat, Ballot(p, c, term)'
        PROVE  Ballot(p, c, term) \/ FreshBallot(p, c, term)
    <3>1. ASSUME NEW r \in voteReplies', r.cand = c, r.ballot = term, r.from = p, r.granted
          PROVE  Ballot(p, c, term) \/ FreshBallot(p, c, term)
      <4>1. CASE r \in voteReplies
        BY <3>1, <4>1 DEF Ballot
      <4>2. CASE r = reply
        <5>1. /\ c = m.cand /\ term = m.term /\ p = m.to /\ grant
          BY <3>1, <4>2
        <5> HIDE DEF grant
        <5>2. QED
          BY <1>5, <5>1
      <4>3. QED
        BY <1>3, <4>1, <4>2
    <3> HIDE DEF reply
    <3>2. CASE \E e \in elections' : e.node = c /\ e.term = term /\ (p = c \/ p \in e.granted)
      BY <1>3, <3>2 DEF Ballot
    <3>3. QED
      BY <2>1, <3>1, <3>2 DEF Ballot
  <2>2. QED
    BY <2>1 DEF BallotsKept
<1>7. QED
    BY <1>2, <1>3, <1>4, <1>6, VoteFrame

\* A poll that has heard from p holds a vote of p only if it held it before or
\* counts it now.
LEMMA CountedPoll ==
    ASSUME NEW e \in Election, NEW p, NEW ok \in BOOLEAN
    PROVE  LET f == Counted(e, p, ok)
           IN  /\ f.node = e.node /\ f.term = e.term
               /\ f.waiting \subseteq e.waiting
               /\ f.granted \subseteq e.granted \cup {p}
               /\ ~ok => f.granted = e.granted
    BY DEF Counted, Election

LEMMA VoteAnswered ==
    ASSUME VoteInv, TypeOK', NEW e \in elections, NEW r \in voteReplies, HandleVoteReply(e, r)
    PROVE  VoteInv' /\ BallotsKept
<1>1. e \in Election /\ r \in VoteReply
    BY DEF VoteInv, TypeOK
<1>2. PICK ok \in BOOLEAN : /\ elections' = (elections \ {e}) \cup {Counted(e, r.from, ok)}
                            /\ ok => r.granted
    BY <1>1 DEF HandleVoteReply, VoteReply
<1>3. r.cand = e.node /\ r.ballot = e.term /\ r.from \in e.waiting
    BY DEF HandleVoteReply
<1>4. voteReplies' \subseteq voteReplies /\ UNCHANGED winners
    BY DEF HandleVoteReply
<1> DEFINE f == Counted(e, r.from, ok)
<1>5. /\ f.node = e.node /\ f.term = e.term /\ f.waiting \subseteq e.waiting
      /\ f.granted \subseteq e.granted \cup {r.from} /\ (~ok => f.granted = e.granted)
    BY <1>1, CountedPoll
<1>6. elections' = (elections \ {e}) \cup {f}
    BY <1>2
<1> HIDE DEF f
<1>7. PollsOfPeers'
  <2>1. e.waiting \cup e.granted \subseteq Peers(e.node)
    BY DEF VoteInv, PollsOfPeers
  <2>2. f.waiting \cup f.granted \subseteq Peers(f.node)
    BY <1>3, <1>5, <2>1
  <2>3. QED
    BY <1>6, <2>2 DEF VoteInv, PollsOfPeers, Peers
<1>8. BallotsKept
  <2>1. ASSUME NEW p \in Server, NEW c \in Server, NEW term \in Nat, Ballot(p, c, term)'
        PROVE  Ballot(p, c, term)
    <3>1. CASE \E g \in elections' : g.node = c /\ g.term = term /\ (p = c \/ p \in g.granted)
      <4>1. PICK g \in elections' : g.node = c /\ g.term = term /\ (p = c \/ p \in g.granted)
        BY <3>1
      <4>2. CASE g \in elections
        BY <4>1, <4>2 DEF Ballot
      <4>3. CASE g = f
        BY <1>2, <1>3, <1>5, <4>1, <4>3 DEF Ballot
      <4>4. QED
        BY <1>6, <4>2, <4>3
    <3>2. QED
      BY <1>4, <2>1, <3>1 DEF Ballot
  <2>2. QED
    BY <2>1 DEF BallotsKept
<1>9. \A j \in Server : VoteKept(j) /\ LeadKept(j)
    BY KeptByVoteReply DEF VoteInv
<1>10. QED
    BY <1>4, <1>7, <1>8, <1>9, VoteFrame

LEMMA VoteLost ==
    ASSUME VoteInv, TypeOK', NEW e \in elections, NEW p0 \in e.waiting, VoteCallFails(e, p0)
    PROVE  VoteInv' /\ BallotsKept
<1> DEFINE f == Counted(e, p0, FALSE)
<1>1. e \in Election /\ voteReplies' \subseteq voteReplies /\ UNCHANGED <<nodeVars, winners>>
    BY DEF VoteInv, TypeOK, VoteCallFails
<1>2. /\ f.node = e.node /\ f.term = e.term /\ f.waiting \subseteq e.waiting
      /\ f.granted = e.granted
    BY <1>1, CountedPoll
<1>3. elections' = (elections \ {e}) \cup {f}
    BY DEF VoteCallFails
<1> HIDE DEF f
<1>4. PollsOfPeers'
    BY <1>2, <1>3 DEF VoteInv, PollsOfPeers, Peers
<1>5. BallotsKept
  <2>1. ASSUME NEW p \in Server, NEW c \in Server, NEW term \in Nat, Ballot(p, c, term)'
        PROVE  Ballot(p, c, term)
    <3>1. CASE \E g \in elections' : g.node = c /\ g.term = term /\ (p = c \/ p \in g.granted)
      <4>1. PICK g \in elections' : g.node = c /\ g.term = term /\ (p = c \/ p \in g.granted)
        BY <3>1
      <4>2. g \in elections \/ g = f
        BY <1>3
      <4>3. QED
        BY <1>2, <4>1, <4>2 DEF Ballot
    <3>2. QED
      BY <1>1, <2>1, <3>1 DEF Ballot
  <2>2. QED
    BY <2>1 DEF BallotsKept
<1>6. \A j \in Server : VoteKept(j) /\ LeadKept(j)
    BY <1>1 DEF nodeVars, VoteKept, LeadKept, VoteInv, TypeOK
<1>7. QED
    BY <1>1, <1>4, <1>5, <1>6, VoteFrame

LEMMA MajoritiesMeet ==
    ASSUME NEW Q \in SUBSET Server, NEW R \in SUBSET Server,
           Cardinality(Q) >= Majority, Cardinality(R) >= Majority
    PROVE  \E p \in Q : p \in R
<1>1. IsFiniteSet(Server) /\ IsFiniteSet(Q) /\ IsFiniteSet(R)
    BY ServerAssumption, FS_Subset
<1>2. Cardinality(Server) \in Nat /\ Cardinality(Q) \in Nat /\ Cardinality(R) \in Nat
    BY <1>1, FS_CardinalityType
<1>3. Cardinality(Q) + Cardinality(R) > Cardinality(Server)
    BY <1>2 DEF Majority
<1>4. QED
    BY <1>1, <1>3, FS_MajoritiesIntersect

\* The node and the peers that granted it their votes, when it wins.
LEMMA VoteTallied ==
    ASSUME VoteInv, TypeOK', NEW e \in elections, TallyVotes(e)
    PROVE  VoteInv' /\ BallotsKept
<1> DEFINE i == e.node
           Q == e.granted \cup {i}
<1>1. i \in Server /\ e.term \in Nat /\ e.granted \in SUBSET Server /\ e.granted \subseteq Peers(i)
    BY DEF VoteInv, TypeOK, Election, PollsOfPeers
<1>2. /\ elections' = elections \ {e}
      /\ UNCHANGED <<currentTerm, votedFor, voteReplies>>
    BY DEF TallyVotes
<1>3. \A p, c \in Server : \A term \in Nat : Ballot(p, c, term)' => Ballot(p, c, term)
    BY <1>2 DEF Ballot
<1>4. \A p, c \in Server : \A term \in Nat : Bound(p, c, term)' <=> Bound(p, c, term)
    BY <1>2 DEF Bound
<1>5. PollsOfPeers' /\ BallotsBind'
  <2>1. PollsOfPeers'
    BY <1>2 DEF VoteInv, PollsOfPeers, Peers
  <2>2. BallotsBind'
    BY <1>3, <1>4 DEF VoteInv, BallotsBind
  <2>3. QED
    BY <2>1, <2>2
<1>6. ASSUME NEW w \in winners, NEW quorum \in SUBSET Server, BackedBy(quorum, w.node, w.term)
      PROVE  BackedBy(quorum, w.node, w.term)'
  <2>1. w.node \in Server /\ w.term \in Nat
    BY DEF VoteInv, TypeOK
  <2>2. QED
    BY <1>3, <1>4, <1>6, <2>1 DEF BackedBy
<1>7. CASE UNCHANGED <<state, winners>>
  <2>1. WinnersBacked'
    BY <1>6, <1>7 DEF VoteInv, WinnersBacked
  <2>2. ElectionSafety'
    BY <1>2, <1>7 DEF VoteInv, ElectionSafety
  <2>3. QED
    BY <1>3, <1>5, <2>1, <2>2 DEF VoteInv, BallotsKept
<1>8. CASE /\ currentTerm[i] = e.term /\ Cardinality(e.granted) + 1 >= Majority
           /\ state' = [state EXCEPT ![i] = Leader]
           /\ winners' = winners \cup {[node |-> i, term |-> e.term]}
  <2>1. Q \in SUBSET Server /\ Cardinality(Q) >= Majority
    <3>1. IsFiniteSet(e.granted)
      BY <1>1, ServerAssumption, FS_Subset
    <3>2. i \notin e.granted
      BY <1>1 DEF Peers
    <3>3. Cardinality(Q) = Cardinality(e.granted) + 1
      BY <3>1, <3>2, FS_AddElement
    <3>4. QED
      BY <1>1, <1>8, <3>3
  <2>2. \A p \in Q : p \in Server /\ Ballot(p, i, e.term)
    BY <1>1 DEF Ballot
  <2> HIDE DEF Q
  <2>3. BackedBy(Q, i, e.term)
    BY <1>1, <2>1, <2>2 DEF VoteInv, BallotsBind, BackedBy
  <2>4. BackedBy(Q, i, e.term)'
    BY <1>1, <1>3, <1>4, <2>2, <2>3 DEF BackedBy
  <2>5. \A w \in winners : w.term = e.term => w.node = i
    <3>1. SUFFICES ASSUME NEW w \in winners, w.term = e.term PROVE w.node = i
      OBVIOUS
    <3>2. PICK quorum \in SUBSET Server : BackedBy(quorum, w.node, w.term)
      BY DEF VoteInv, WinnersBacked
    <3>3. PICK p \in quorum : p \in Q
      BY <2>1, <3>2, MajoritiesMeet DEF BackedBy
    <3>4. Ballot(p, i, w.term)
      BY <2>2, <3>1, <3>3
    <3>5. QED
      BY <1>1, <3>2, <3>3, <3>4 DEF BackedBy
  <2> DEFINE new == [node |-> i, term |-> e.term]
  <2>6. new.node = i /\ new.term = e.term /\ winners' = winners \cup {new}
    BY <1>8
  <2>7. ElectionSafety'
    <3>1. \A v, w \in winners' : v.term = w.term => v.node = w.node
      <4> HIDE DEF new, i
      <4>1. QED
        BY <2>5, <2>6 DEF VoteInv, ElectionSafety
    <3>2. \A j \in Server : state'[j] = Leader => [node |-> j, term |-> currentTerm'[j]] \in winners'
      BY <1>1, <1>2, <1>8 DEF VoteInv, ElectionSafety, TypeOK
    <3>3. QED
      BY <3>1, <3>2 DEF ElectionSafety
  <2> HIDE DEF new, i
  <2>8. WinnersBacked'
    <3>1. ASSUME NEW w \in winners'
          PROVE  \E quorum \in SUBSET Server : BackedBy(quorum, w.node, w.term)'
      <4>1. CASE w \in winners
        BY <1>6, <4>1 DEF VoteInv, WinnersBacked
      <4>2. CASE w = new
        BY <2>1, <2>4, <2>6, <4>2
      <4>3. QED
        BY <2>6, <4>1, <4>2
    <3>2. QED
      BY <3>1 DEF WinnersBacked
  <2>9. QED
    BY <1>3, <1>5, <2>7, <2>8 DEF VoteInv, BallotsKept
<1>9. QED
    BY <1>7, <1>8 DEF TallyVotes

LEMMA VoteStep == TypeInv /\ VoteInv /\ [Next]_vars => VoteInv' /\ BallotsKept
<1> SUFFICES ASSUME TypeInv, VoteInv, [Next]_vars PROVE VoteInv' /\ BallotsKept
    OBVIOUS
<1>1. TypeOK' /\ TypeOK
    BY TypeStep DEF TypeInv
<1>2. CASE ElectionStep
    BY <1>1, <1>2, VoteStart, VoteRequested, VoteAnswered, VoteLost, VoteTallied DEF ElectionStep
<1>3. ASSUME \A j \in Server : VoteKept(j) /\ LeadKept(j), UNCHANGED voteVars PROVE VoteInv' /\ BallotsKept
  <2>1. UNCHANGED <<elections, voteReplies, winners>>
    BY <1>3 DEF voteVars
  <2>2. PollsOfPeers' /\ BallotsKept
    BY <2>1 DEF VoteInv, PollsOfPeers, Peers, BallotsKept, Ballot
  <2>3. QED
    BY <1>1, <1>3, <2>1, <2>2, VoteFrame
<1>4. CASE UNCHANGED nodeVars /\ UNCHANGED voteVars
    BY <1>1, <1>3, <1>4 DEF nodeVars, VoteKept, LeadKept, TypeOK
<1>5. CASE ReplicationStep
    BY <1>1, <1>3, <1>5, KeptByReplication
<1>6. CASE ApplyStep
    BY <1>4, <1>6 DEF ApplyStep, TakeEntry, RecordApplied
<1>7. CASE UNCHANGED vars
    BY <1>4, <1>7 DEF vars
<1>8. CASE \E c \in DOMAIN appendCalls : OverwriteEntries(c)
    BY <1>4, <1>8 DEF OverwriteEntries
<1>9. QED
    BY <1>2, <1>5, <1>6, <1>7, <1>8 DEF Next, NodeStep

LEMMA VoteInvariant == Spec => []VoteInv
    BY VoteInit, VoteStep, TypeInvariant, PTL DEF Spec

\* At most one node wins a term, for any number of nodes and any interleaving of
\* polls, vote handlers, late and lost answers: the check of votedFor in
\* handleRequestVote and the count at the end of startElection are enough.
THEOREM OneLeader == Spec => []ElectionSafety
<1>1. VoteInv => ElectionSafety
    BY DEF VoteInv
<1>2. QED
    BY <1>1, VoteInvariant, PTL

\* A vote that has been counted or is on its way can never be cast again, and
\* behind every winner stands a majority that no rival can win over.
THEOREM VotesAreBinding == Spec => []VotesBind
<1>1. VoteInv => VotesBind
  <2> SUFFICES ASSUME VoteInv PROVE VotesBind
      OBVIOUS
  <2>1. BallotTerms \subseteq Nat
      BY DEF VoteInv, TypeOK, BallotTerms, Election, VoteReply
  <2>2. QED
      BY <2>1 DEF VoteInv, VotesBind, PollsOfPeers, BallotsBind, WinnersBacked, BackedBy
<1>2. QED
    BY <1>1, VoteInvariant, PTL

=============================================================================

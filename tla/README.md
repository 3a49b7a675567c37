# LumeoFS: a TLA+ verification project

LumeoFS is a small distributed file system in Go: a master (single, or a cluster that
replicates its metadata with Raft), data nodes that store chunks and copy them to each other,
and a client. This directory holds TLA+ models of its parts, TLC configurations that check
them on small instances, and TLAPS proofs about them. The code is the reference: every
definition that models code is listed with its file and lines in `PROJECT.json` ("map").

## 1. The system

| Part | Code | State | Operations |
|---|---|---|---|
| Raft node | `internal/raft/raft.go` | term, vote, log, role, commit and apply indexes, per-peer indexes, queue `applyC`, timers | election timer, two RPC handlers, per-peer goroutines of polls and heartbeats, `Propose`, `applyLoop` |
| Metadata state machine | `internal/raft/state_machine.go` | files, chunks, data nodes, version | `Apply` of six commands, heartbeat and offline updates outside the log, snapshot and restore (not called) |
| Cluster master | `internal/master/cluster_master.go` | the Raft node and its state machine | register, heartbeat, put, get, list, allocate; offline checker; redirect to the leader |
| Single master | `internal/master/master.go`, `replica_manager.go` | nodes, files, chunks, replicas | the same handlers under one mutex; checker; promotion of a new primary |
| Data node | `internal/datanode/datanode.go` | chunks with version and role, storage files, WAL | write, read, synchronise, set role, heartbeat, recovery |
| Replication | `internal/replication/replica_manager.go` | local roles and primary addresses | proxied write, read with fallback, pull from the primary, consistency check |
| Versions and leases | `internal/version/version.go` | vector clocks, leases, version numbers | increment, merge, compare; grant, renew, transfer, revoke |
| Write-ahead log | `internal/wal/wal.go` | numbered append-only files | append, rotate, read all, truncate |
| Erasure coding | `internal/erasure/erasure.go` | none | XOR encode, decode, verify |
| Types, configuration, protocol | `pkg/` | none | JSON encodings and framing |
| Client and entry points | `cmd/` | none | sequential client, start-up |

How they interact. A client asks a master where to put a file; the cluster master proposes a
metadata command to its Raft node, which replicates it and feeds what is committed to the
state machine of every master through `applyC`; the client writes the chunk to the data node
it was told is the primary; that node appends to its WAL, writes its storage and sends the
data to the secondaries in the background. Data nodes register with the master and send it
heartbeats; the master's checker declares the silent ones offline and, in the single-master
build, promotes another replica. Roles are pushed to data nodes asynchronously.

What is hard in each part, and what makes it correct:

* **Raft.** Goroutines that drop the lock between reading state and using it, calls that
  overtake each other or answer after their term, timers that fire on leaders, restarts,
  a queue that fills. Correct: one leader per term, binding votes, matching logs, nothing
  committed is lost, nothing uncommitted is applied, everything committed is applied once
  and in order, elections end.
* **Metadata state machine.** Commands that are not idempotent, updates that bypass the log.
  Correct: chunks and files refer to each other, two masters that applied the same commands
  agree.
* **Cluster master.** Leadership lost between the check and the proposal, ignored errors of
  `Propose`, reads from a follower. Correct: what the client is told was allocated exists.
* **Single master.** A lock released twice, the checker racing heartbeats, several recoveries
  of the chunks of several nodes. Correct: one primary per chunk, healthy while a replica is.
* **Data node and replication.** First write against role assignment, copies that overtake
  each other, a version shared by pointer, files overwritten in place, a crash between WAL and
  storage or in the middle of a replay. Correct: reads are current, versions grow, nothing is in a
  file whose record was not written to the log first, and writes end. (That everything stored can
  be recovered is not true of the code: see `torn` in section 6.)
* **WAL.** A torn record, a failed rotation, a power loss. Correct: every answered append stays
  on the disk, and records are read in the order of the appends.
* **Versions and leases.** Expiry against renewal. Correct: one holder at a time; merge is a
  least upper bound.
* **Erasure coding.** Correct: any one missing block is rebuilt.

`PROJECT.json` lists the hazards line by line with the properties that cover them.

## 2. Plan

In order of importance. The Raft node comes first: every guarantee of the cluster rests on it.

1. `LumeoRaft` and `LumeoRaftLive` (**done**): election, replication, commitment, application.
   Proofs of all its safety and action properties, and that it implements the abstract
   `ReplicatedLog`, the one log that the nodes commit (**done**).
2. `MetadataStateMachine` (**done**): the commands and the local updates, as operators on a
   record of maps, so that the handlers above can be proved about as well as checked. Proof
   of referential integrity of files and chunks (**done**).
3. `MetadataLog` and `ClusterMaster` (**done**): the handlers on an abstract replicated log.
   Proofs of all its safety and action properties (**done**). What it takes for committed is
   the log of `ReplicatedLog` (**done**). Left: that `LumeoRaft` without stale answers also
   implements the branches of `MetadataLog`, the logs of leaders that may be lost.
4. `Master` (**done**): the single master with its two mutexes, checker and promotion. Its invariants are proved (**done**).
5. `ChunkReplication` (**done**): the data nodes of one chunk, with writes, copies, roles,
   crashes and recovery. Its invariants are proved (**done**). Left: several chunks in one log,
   and writes of a part of a chunk.
6. `WAL` and the abstract `DurableLog` (**done**): files with failing steps, crashes and power
   losses implement the log of answered appends; checked and proved (**done**). Left: that the
   log inside `ChunkReplication` is a `DurableLog` too.
7. `Lease`, `VectorClock` and `Erasure`, which no part of the program calls, come last.

## 3. The Raft node

### Modules

| Module | Contents |
|---|---|
| `LumeoRaft` | the node: state, one action per critical section, types, properties |
| `ReplicatedLog` | what the nodes promise together: one log of decided entries, of which each knows a beginning |
| `LumeoRaftLive` | the election part again, with peers that accept calls and never answer, and fairness |
| `LumeoRaftProofs` | theorems about `LumeoRaft`: types, votes, leaders |
| `LumeoRaftLogProofs` | theorems about its logs |
| `LumeoRaftCommitProofs` | theorems about what it replicates, commits and applies, and that it implements `ReplicatedLog` |
| `MCLumeoRaft` | instances for TLC: symmetry and action constraints |
| `MCStaleAck` | an instance narrowed to the neighbourhood of one scenario |

### State and actions

A node is a set of goroutines sharing one RWMutex. The variables `currentTerm` ... `applyC`
are the fields of `RaftNode`, as functions over `Server`. The remaining ones are what lives on
goroutine stacks and on the network:

* `elections`: the runs of `startElection` between their first `Unlock` and the tally, each
  with the peers it still waits for and the votes it has been granted. A node can have several.
* `voteRequests`, `voteReplies`: RequestVote calls on their way.
* `appendCalls`: AppendEntries calls, a bag because two equal calls can be in progress, in
  three phases: "spawned" (term and commit index captured under the first RLock), "sent" (log
  read under the second), "replied" (handled by the peer, the answer not yet used).
* `applying`: the entry `applyLoop` has received and not yet recorded; `applied`: everything
  handed to the state machine, in order.

Three variables are history: `winners`, who became leader of which term, `staleAck`, whether
a leader has counted an answer to a request of an earlier term, and `overwritten`, whether a request
has carried other entries than its sender read.

Each action is one critical section, or a step that holds no lock; the header of `LumeoRaft`
lists them with the functions they model. Some points of the code that shape the model:

* The election timer may fire in any state, on a leader too. Its callback does not look at the
  role, `Timer.Stop` does not recall a callback that waits for the lock, and `startElection`
  resets the timer after it has unlocked, so a timer can be left running that no field refers to.
* `startElection` tallies only after the last peer's goroutine has reported (`TallyVotes`
  needs `waiting = {}`), then looks at role and term again.
* The vote answer carries the term from before the node stepped down (lines 688-696).
* A heartbeat's goroutine reads the log without looking at the role again: a deposed leader may
  send a newer log under its old term (`ReadLog`).
* The entries it read are a slice of the log's own array (line 508) and are marshalled after the
  lock is released and the connection is made (837-843), while a truncation and the appends that follow
  it (777-778) write over that array. `OverwriteEntries` is that race: any entry of a request on its way may
  take the term, the command or both of what its sender's log has at that index by then.
* A candidate that hears from the leader of its own term stays candidate (lines 741-750).
* The answer to AppendEntries is used if its term is not above the node's: neither the role nor
  the term of the request is compared (`HandleAppendReply`).
* The pushes to `applyC` do not block and are made under the lock, while `applyLoop` receives
  without it: it may take one entry in the middle of a push loop, and no second one, as it then
  needs the lock (`NotifyApplier`).
* A call is one TCP connection with one request. It can be slow, fail, or be handled after its
  sender has given it up; the code neither repeats nor duplicates it.

The log's sentinel in slot 0 is left out: a log is the sequence of the entries from index 1, and
`TermAt` gives 0 where the code reads the sentinel.

`ReplicatedLog` has no terms, votes, logs or messages. Entries are decided one after another and for
good; a node knows how many of them are decided, and never fewer than before (`Learn`); its state machine is given
decided entries that it knows of, again perhaps (`Hand`). The first step that breaks the promise is
its end (`Break`), and nothing is asked after it. The mapping (`OneLog`) is `decided <- Committed(Foremost)`, the
committed part of the log of a node with the largest commit index, `known <- commitIndex`,
`handed <- applied`, `broken <- ~Undisturbed`, where `Undisturbed` is neither `staleAck` nor
`overwritten`.

### Bounds

`MaxTerm`, `MaxPolls`, `MaxLog` and `MaxCalls` bound terms, simultaneous polls, log length and
AppendEntries calls in progress; each is in the guard of the action that would pass it. They stop
the instance, not the system, hence `CHECK_DEADLOCK FALSE`. `ApplyCap` is the capacity of
`applyC`, 1000 in the code. The runs about elections and logs set it to 0: every push is then
dropped, the applier never has anything to do, and the states are not multiplied by its progress;
no property of those runs mentions it. `MCTerms` has logs of one entry and a queue of one, `MCApply`
a capacity of 12, more than the instance can queue.

### Runs

Passing:

| Run | Instance | Properties | What it shows |
|---|---|---|---|
| `MCElection` | 3 nodes, 2 terms, 2 polls at a time, late requests | `ElectionSafety`, `VotesBind`, `VoteStable` | One winner of a term, over the whole history. Behind every winner stands a majority none of whose votes can be counted for a rival. Two terms are enough for a vote to be overtaken by a newer term, a candidate to be deposed while its poll is open, and a second poll of the same node to run beside the first. |
| `MCReplication` | 3 nodes, 2 terms, 2 entries, 3 calls, `OneLate` | `TypeOK`, `LogMatching`, `MatchIndexTrue`, `LeaderAppendOnly`, `CommitMonotonic` | One call lags behind and is overtaken, at its peer or on the way back, by a later round to the same peer, within a term or across a change of leader, with conflicts to truncate and requests whose entries are overwritten. Three calls are the least with which one peer has two in flight; two entries the least with which a prefix can differ while a later entry agrees. |
| `MCTerms` | 3 nodes, 4 terms, 1 entry, a queue of 1, `OneAtATime` and `PromptApplier` | `CommittedOnMajority`, `LeaderCompleteness`, `LeaderUpToDate`, `AppliedCommitted`, `ImplementsReplicatedLog` | The case that needs the current-term rule: an entry of term 1 replicated by the leader of term 3 while an entry of term 2 waits elsewhere, decided in term 4. What a node has once taken for committed is never another entry elsewhere or later, and what waited in `applyC` while logs were truncated is still what the log says when it is applied. |
| `MCApply` | 2 nodes, 2 terms, 3 entries, a queue that cannot fill, `OneAtATime` | `AppliedWithoutGap`, `ImplementsReplicatedLog`, `EventuallyApplied` | The pushes restart from a `lastApplied` that lags, which takes a state machine back to earlier entries but never forward over one; under fairness of `applyLoop` every committed entry is applied. Three entries are the least with which one can be jumped over after going back. |

The action constraints of `MCLumeoRaft` leave behaviours out to make the larger instances finish.
`PromptVotes`, a part of `OneLate`, drops vote requests handled after the sender gave up, answers to
votes that wait, and polls that are lost, all of which `MCElection` has; and while a poll is open
calls are read and handled, but none begins or ends. `OneLate` (`MCReplication`) adds that while two calls or
more are in progress nothing happens but that one of them is read, handled or answered, so that at most one
of a round lags behind, as long as it likes, while there are elections, proposals and another round.
`OneAtATime` (`MCTerms`, `MCApply`) runs each poll, won, and each heartbeat round to its end, by answers or by
failures, before the next: `MCTerms` is about the order of terms, `MCReplication` about the order of calls, and in
`MCApply` what matters is where `applyLoop` stands when a push is made. There a round has one push per node at most, as
there is one peer; before a round `applyLoop` may be at any place, and the entry it may take in the
middle of a push is part of `NotifyApplier`. `PromptApplier` (`MCTerms`) lets entries wait on one node at a time
between rounds, for any time, and has `applyLoop` record at once what it has applied.

`MCApply` has a queue that cannot fill. With `ApplyCap = 1`, `AppliedWithoutGap` and
`EventuallyApplied` fail: a push is dropped without a trace, a later one goes through, and a
committed command is never applied. The code's capacity is 1000 and its applier is fast, so this
is a limit of what the run shows and not a run of its own.

Two provisos, each over a history variable. `LogMatching`, `LeaderAppendOnly`, `LeaderUpToDate` and
`AppliedWithoutGap` speak of behaviours in which no request has carried other entries than its sender
read (`~overwritten`): the first that does can put entries of another leader into a log.
`CommittedOnMajority`, `LeaderCompleteness`, `MatchIndexTrue`, `CommitMonotonic`, `AppliedCommitted` and
the second half of `AppliedWithoutGap` (never forward over an entry) also need that no leader has
counted an answer to an earlier term's request (`~staleAck`); `MCStaleAck` shows why.
`ImplementsReplicatedLog` has both as `broken`. Types, votes, `ElectionSafety` and `EventuallyApplied` need neither. That these
two are the only ways in which the rest fails is what the runs and theorems show.

Violations. Each checks one statement of the repository that the code does not keep:

| Run | Property | What happens |
|---|---|---|
| `MCApplyTwice` | `AppliedAgree` | Entries still in `applyC` are pushed again from `lastApplied + 1`: one state machine gets a command twice, another once. |
| `MCElectionHung` | `MajorityElects` | Of three nodes, one accepts connections and never answers. A candidate has its majority with the vote of the other and never counts it: `startElection` waits for a value from every peer (`raft.go:405`), and a call has no read deadline (811-834). The poll stays open, the timer only starts more of them (two terms and three polls at a time in the run; any other would wait for the same peer), and no leader is elected, where `README.md:286` promises one in about 3 seconds after the failure of one node. |
| `MCStaleAck` | `MajorityHoldsCommitted` | A leads in terms 1, 3 and 5. A late answer to its term-3 request, counted in term 5, makes it commit an entry that only it holds. |

`MCStaleAck` needs five terms, beyond an exhaustive search: its `Scenario` only leaves behaviours
out (who starts polls, which calls are hurried, that no entries are overwritten), so a counterexample of the instance is one of the
specification.

Two more disagreements of the code with its documents lie outside these runs:

* `currentTerm`, `votedFor` and `log` are under the heading "持久化状态（需要落盘）" (persistent
  state, must reach the disk) in `raft.go:112`, but nothing is ever written: a node that restarts
  has forgotten its vote. A restart that keeps the node's name is therefore not a step of the model,
  and `ElectionSafety` is a statement about nodes that stay up.
* A request whose entries were overwritten after they were read makes logs differ under one term and
  index, against `docs/ARCHITECTURE.md:80` (several masters keep the metadata consistent through Raft).
  It takes a leader that is deposed, adopts the next one's entries and has its array written to
  between the unlock and the encoding of its own request.

### Fairness

`ApplierFairness` asks for `applyLoop` to keep running: it is a goroutine with no exit before
shutdown and `Apply` does not block. `PollFairness`, of the violating run `MCElectionHung`, asks that timers fire on nodes that are not hung, that a call to a peer which is not hung
ends, by an answer or by an error (a dial has a timeout of 500 ms, a refused or reset connection
errs at once, a handler takes the lock and answers), and that a poll with no call left is tallied.
The counterexample is one of fair scheduling: nothing but the silent peer is late in it. That some
candidate eventually wins when all answer is not claimed, as split votes can repeat and randomised
timeouts are outside the model.

## 4. The metadata of a cluster of masters

### Modules

| Module | Contents |
|---|---|
| `MetadataStateMachine` | metadata as a record of three maps; the six commands of `Apply`, the heartbeat and offline updates outside the log |
| `MetadataLog` | what the Raft nodes do for the state machines, without messages |
| `ClusterMaster` | the handlers and the checker, with the clients and data nodes that call them; properties |
| `ClusterMasterProofs` | theorems about the three modules above it |
| `Rotation` | the arithmetic of the choice of replicas, for the proofs about both masters |
| `MCClusterMaster` | instances for TLC |

### State and actions

`sm[m]` is the `MetadataStateMachine` of master m. Its operations hold one mutex throughout, so
each is one operator; names, addresses, times and the version counter are left out, the content of
a chunk (size and checksum, which only `UPDATE_CHUNK` sets) is one value. `Register`, `Heartbeat`,
`PutFile` and `CheckDataNode` are the handlers and the checker, each one step: they touch shared
state once, and a role lost between the check in `handleConnection` and `Propose` gives the answer
a refusal gives. `handleAllocChunk` is two actions: `BeginAlloc` reads the online nodes, and
`AllocNext` proposes the command of one chunk. It holds no lock, so that leaders change and
commands are applied in between. The client goes from `PutFile` to the allocation on one connection
and never repeats a request.

`MetadataLog` keeps one branch per term of leadership, the log of that term's leader. It rests on
what the runs of `LumeoRaft` show:

* a new leader's log has everything committed (`LeaderCompleteness`), so it starts from a part of
  an earlier branch that has it: any part and any such branch, more than Raft allows;
* a term has one leader (`ElectionSafety`), and only what is in the newest branch gets committed, by any
  amount at any time, by its leader or by an earlier one that still counts answers to what both have
  (`Commit`); a deposed leader that has not noticed goes on accepting commands on its own branch;
* that something is committed, a node knows when it has counted the answers, or when a heartbeat of a leader
  has told it (`Learn`); `known` says how much. A heartbeat may not come, and a new leader, which appends
  nothing of its own, may not learn of entries of earlier terms until a client proposes again;
* what is committed is one log, the same for every master, which grows at its end
  (`ImplementsReplicatedLog`): it is `committed`;
* what reaches a state machine is committed (`AppliedCommitted`) and is the next entry or an earlier
  one (`AppliedWithoutGap`), but not once (`MCApplyTwice`): `Requeue` moves the cursor back to any
  earlier command, after which everything from there on is applied again. `Deliver` takes only what
  the master's own node knows of.

These facts are checked and proved of `LumeoRaft`. That together they make it an implementation of
`MetadataLog`, with the branches of leaders that have not committed, is argued here. What Raft itself gets wrong here
(restarts, stale answers, the shared array, a full queue) is excluded: under it nothing could be
said of metadata.

### Runs

| Run | Instance | Properties | What it shows |
|---|---|---|---|
| `MCClusterMaster` | 2 masters, 2 data nodes, 2 replicas, one file of up to 2 chunks, 2 terms, 1 requeue | see below | passes |
| `MCAllocLost` | 2 masters, 1 data node, 1 chunk, 2 terms | `AllocationKept` | A master is deposed between `BeginAlloc` and `AllocNext`; `Propose` errs, the error is dropped, and the client is told of success for a chunk no log has. |

* `SettledAsCommitted`: a master whose queue is drained has the chunks, files and set of nodes that
  the committed commands, each applied once, stand for. Files keep the order of their chunks; a
  chunk may be listed again. This is what commands that are not idempotent put at risk when they
  are repeated: `CREATE_FILE` again forgets the chunks, and only the allocations that follow it in
  the queue bring them back.
* `RefsSound`: no file lists a chunk that is missing or another's, even half-way through a repeat.
* `ReplicasKnown`: each chunk has `ReplicaCount` different replicas, all of them known to every
  master that knows the chunk, although they were chosen from one master's own list, without a lock.
* `ToldAsRecorded`: the client was told the replicas that every master records for the chunk.
* `ChunksStay`: no step takes a chunk from a master or moves it.
* `ChunksArrive`: under fairness of `applyLoop`, a chunk that a master's own node knows to be committed is in that
  master's metadata in the end. That every node comes to know what is committed is not claimed, see above.
* `TypeOK`: the types.

One requeue and two terms are the least with which a command is repeated after others and a leader
is deposed inside an allocation; two chunks and two nodes the least with which the rotation of the
replicas and the order of a file's chunks show. One client: file IDs are made up by each upload, so
that uploads share only the list of nodes. The action constraint `StatusWhenRead` drops changes of
a node's status where nothing will read it before it changes again, and clients that come before
the data nodes have registered, whose allocations are refused; the commands of the registrations
may still be undecided, on any branch. `OneFedAgain` feeds commands again to one of the masters only: neither state machine looks at
the other. Clients finish and bounds stop the instance, hence
`CHECK_DEADLOCK FALSE`.

`DeliverySpec` asks, as `ApplierFairness` does, for `applyLoop` to keep running on every master.
Nothing is assumed of elections, commits or heartbeats: no fairness for `Commit` or `Learn`. A requeue takes a cursor back a bounded number of
times (`MaxRequeues`), as the entries between `lastApplied` and the commit index are finite.

What the model has and no property speaks of: a data node registers once with the master of its
configuration, and a registration refused by a follower is not repeated, so that the node stays
unknown; heartbeats go to that same master, so that another leader finds every node late; an
allocation committed for a file whose `CREATE_FILE` was lost leaves chunks that no file lists.
The repository promises nothing of these.

## 5. The single master

### Modules, state and actions

`Master` models `master.go` and `master/replica_manager.go`; `MCMaster` is its instance,
`MasterProofs` has the theorems. Everything the master knows is in memory under `Master.mu`, and a
handler holds it from its first access to its last, so a handler is one action: `Register`,
`Heartbeat`, `PutFile`, `AllocChunk`, `CheckDataNodes`. `CheckDataNodes` picks any set of online nodes
as late (their last heartbeat is the only thing it looks at, and time is left out) and starts a
goroutine for each. That goroutine, `HandleNodeOffline`, has steps of its own, as it takes `rm.mu` for
its whole life and `Master.mu` anew for the list of chunks and for each chunk: `BeginRecovery`,
`FindChunks`, `RecoverChunk`, of which `working` is the one that holds `rm.mu` and `waiting` the ones
that do not. The walk over a Go map is a choice of any order (`Orders`). The SetRole requests that an allocation
sends touch nothing of the master; what a data node does with one is in `ChunkReplication`.

With too few nodes the handler unlocks the mutex (`RefuseAlloc`, `master.go:596`) and unlocks it
again at its end (`UnlockAgain`, 680). If no other goroutine holds it by then, the Go runtime ends the process,
where `docs/API.md:811` lists the error 2002 `INSUFFICIENT_REPLICAS`; if one does, its lock is released under it, and
from then on no step is a step any more. The model ends there in both cases (`running`): every property speaks
of a master up to its first refused allocation that reaches its end, and the steps that other goroutines take
between the two unlocks are in it.

### Run

`MCMaster`: 4 data nodes, 3 replicas, one file of up to 2 chunks, 2 declarations that a node is offline.

* `OnePrimary`: an allocated chunk always has exactly one primary.
* `PrimaryHealthy`: a primary is marked offline only if all replicas are. It is what makes an
  election worth its name: no order of declarations and recoveries leaves an offline primary beside
  a healthy secondary that nobody elects.
* `ReplicasSpread`: a chunk has as many replicas as configured, on different nodes. The loop (`master.go:614`) stops early
  when there are fewer nodes, and the rotation `(i + j) % len` starts one place further for the next chunk and must
  not meet itself.
* `DeclaredMarked`: the replicas on a node that is declared offline are marked in the end, also when
  the node is online again before the goroutine runs.

Two declarations are the least with which one node is declared twice, or a second node while the goroutine for the
first holds `rm.mu`; three replicas the least with which an election can pass over a marked one
and still choose; four nodes leave the rotation a node to skip, and the second chunk starts it elsewhere and gives a recovery
two chunks to walk over. Chunks of other files share nothing but the list of nodes and the mutexes, and
recovery treats each alone; the theorems are about all.

The run does not check for deadlock: `UnlockAgain` ends the model, and the files of the instance get used up.

Fairness (`LiveSpec`): goroutines that can run do run (`WF` of `FindChunks` and `RecoverChunk`), and a
goroutine that waits for `rm.mu` gets it (`SF` of `BeginRecovery`): `sync.RWMutex` hands a lock that has
been waited for to its waiters in order. The client and the data nodes owe nothing.

What the model has and no property speaks of:

* An election is kept from the data nodes: `electNewPrimary` changes the master's own records. `docs/ARCHITECTURE.md:719-724`
  has the master choose DN2 ("选择DN2作为新主副本") and notify DN2 and DN3 of their new roles ("通知DN2、DN3角色变更"), and
  `docs/OPERATIONS.md:243` has a secondary promoted by itself ("从副本自动提升为主副本"). In the code the old primary, if it lives,
  goes on as the primary, and the new one refuses reads of its own copy and forwards writes to the old one.
  As no request says anything else, there is no run for it; `MCMaster` is about the master's view only.
* Nothing marks a replica healthy again. A node that was declared offline by mistake is online,
  gets new chunks, and its old replicas stay offline for good.
* A heartbeat of a node that is not registered is answered and ignored, and data nodes register
  once: after a restart of the master, which remembers nothing, no node is known.

## 6. The data nodes of a chunk

### Modules, state and actions

`ChunkReplication` models `datanode.go` and `replication/replica_manager.go` for one chunk, with the
version of `version.go`; `MCChunkReplication` is its instance, `ChunkReplicationProofs` has the
theorems. `role`, `knows` (the replica list is registered), `chunk` (version and checksum of the entry),
`storage` (the file, as a row of blocks) and `walLog` are the state of the nodes. `requests` are the writes, each with the
place it has come to in `handleWriteChunk`: the role is read (`Arrive`), the entry is looked up and the
node may make itself primary (`Decide`), and then the write is logged (`LogAppend`, `LogAppendFails`), stored
(`StoreChunk`, `StoreFails`) and recorded (`Record`), or it is forwarded, in steps of their own: a second look at the role
(`Proxy`), the primary's address (`FindPrimary`), the connection (`Dial`), and the other node's handler
(`TakeForwarded`), for which the proxy waits without a deadline. No lock spans two of these steps. After the answer
a goroutine makes one copy per secondary (`RunSync`); each
reads the version of the entry, not of the write (`SendSync`), and the receiver stores it
(`SyncStore`) and then changes its entry (`SyncRecord`). A copy that fails is not sent again.

A file is opened without `O_TRUNC` and overwritten from its start (`Overwrite`): a write replaces as many blocks as it
is long, one that fails or is cut off by the end of the process the first few of them. An append may fail
before it has written anything, after a part (`torn`), or when the whole record is there and only its sync
fails, in which case a replay will apply it.

The w-th write to arrive is write w, and its number stands for its data. `before[w]` are the writes
that were over when it arrived, which is what an order between writes can be about.

`Crash` ends a process anywhere. A start has steps of its own: the node listens (`Restart`, `datanode.go:105`), replays its
log one record at a time (`Replay`; `ReplayFails` for a record that cannot be written and is skipped, 847), and
accepts connections (`Accept`, 131) only after its registration, which waits for the master without a
deadline. A crash may come anywhere in this, and connections made in the meantime wait. `MapRace` is a crash
without a fault: `syncToNode` encodes the map of the entry's version without a lock (`datanode.go:803`)
while the next write increments it under the lock (391), and the Go runtime ends a process that
iterates over a map while it is written.

Assumed: callers send writes to the primary that the master named, as the client does, or to a node
that has a copy (a node without one makes itself primary, `datanode.go:309`); writes begin at the start of the chunk, as
the client's do (one `file.Write` is one step unless it fails); only processes end here, machines in `WAL`.

### Run

`MCChunkReplication`: two nodes, two writes of one or two blocks, any two faults (`TwoFaults`): crashes, a failed append,
a failed write to a file, a lost copy, a record skipped by a replay.

* `ReadsCurrent`: no read, through whichever node, returns in any block data that a write of that block has replaced which
  began later, was answered with success and logged. It is at risk when log, file and entry disagree
  about the order of two writes and a crash replays the log's, when a write fails half-way over another, and
  while a replay goes through old records, which is why the node must not accept before its end (the mutant
  `AcceptAtOnce`). It speaks of replays that skipped no record. That a shorter write leaves the end of a longer one in
  the file, and readable, is what the code does: block by block nothing has replaced it.
* `VersionsGrow`: within one life of the primary, no two answers carry the same version, and a
  write that follows another has a greater one.
* `StoredIsLogged`: what a block of any file holds, pieces of failed writes included, went to the log of the
  primary first, unless that append failed. It is the order of the two that this is about, not that the log can be read:
  with a torn record in it `ReadAll` gives nothing (`wal.go:235`).
* `ProxiedOnce`: a forwarded write is not forwarded again, however SetRole, crashes and first writes
  fall between the looks at role, list and connection. It rests on the order inside the SetRole handler: role first,
  replica list second.
* `AllOver`: every write is over in the end, answered, failed or lost with its process, but for one that was forwarded to
  a node which listens and does not accept yet, or ever.
* `Replicated`: if the primary knows its replicas when it has answered a write, they all have a copy
  in the end, when no process ends and no copy is lost.

Two writes are enough to overlap or follow each other, and to be replayed in either order; two faults
to die, and die again while the log is replayed or after an append that failed. `TwoFaults` also has the first write
the longest, so that the second replaces all of it or leaves its end. With one secondary there is no third node for
a forwarded write to go to, but a node only forwards to the primary of its list; the theorems are about
any number of nodes, writes, blocks and faults.

Deadlock is not checked: the writes are used up, and a SetRole that is never delivered is allowed.

Fairness (`LiveSpec`): the goroutines of a running node run. Nothing is assumed of SetRole requests,
restarts, arrivals, or of a started node's coming to accept (`Accept`).

What the model has and no property speaks of, beside what the documents say:

* The answer is sent before any copy; `docs/ARCHITECTURE.md:232` has all replicas written first, and
  line 679 two thirds of them.
* The append that failed is only logged: the write is answered with success, and a later replay takes
  the chunk back to what the log has. `ReadsCurrent` and `StoredIsLogged` say "unless that append failed".
  `docs/ARCHITECTURE.md:678` promises the opposite order of trust: WAL first, to be recoverable.
* A torn record, of a crash or of an append that failed, makes `ReadAll` fail as a whole: nothing is recovered, the
  appends answered with success before and after it included, where lines 230 and 678 of `docs/ARCHITECTURE.md`
  promise "确保数据可恢复" (the data can be recovered). The node starts with an empty list of chunks
  (`datanode.go:116` prints a warning); its files are still there.
* A record that cannot be written again is skipped, and the next one follows (847): the file may then hold older
  data than was answered, and nobody is told.
* A write shorter than the one before leaves the older one's end in the file, and a read of the whole file returns it.
* Versions start again at 0 after a recovery, where line 680 has each write add 1.
* A restarted primary has lost its role and its replica list, and the master does not repeat SetRole:
  reads and writes of the chunk fail from then on, unless the log was empty.
* SetRole is sent once; a primary that has not got it answers writes and copies nothing.
* A late copy overwrites a newer one at a secondary, whose own reads go to the primary.
* No lease is ever granted, so `CheckReadConsistency` sends every read to the primary; line 681 has
  every write hold a lease.

## 7. The write-ahead log

### Modules, state and actions

`WAL` models `wal.go`, `DurableLog` is what it promises; `MCWAL` is the instance, `WALProofs` has the
theorems. The public methods hold one mutex throughout, so one is at work at a time; `Append` is
several actions all the same, as a crash or a failing call can come between them: making room
(`AppendInPlace`, `AppendRotates`, `RotationFails`, `AppendRefused`), `WriteLength`, `WriteData`, the sync.
`disk` is the set of records with the number of their file, whole or torn, synced or not.
`Crash` keeps what was written, `PowerLoss` keeps of each file a prefix of the unsynced records and may
cut the last of them. `Open` continues the last file. `promised` is history: appends answered with
success and not truncated since.

Sizes are left out (any append may find that its file is full), and so is the batch mode, which
nothing switches on. That a created file is in its directory after a power loss is assumed; the code
does not sync the directory. `Truncate` has no caller; `KeepOpen` says that nobody asks it to remove the
file that is open, which it would do, leaving a log whose appends succeed and are in no directory.

After a rotation that failed to open its next file, `WAL.file` is a closed file; an append to it is refused by `Stat`
(`AppendRefused`), and would fail in `Write` if it were not.

### Run

`MCWAL`, with the bounds of its cfg on appends and files:

* `PromisedSynced`: an answered append is whole and synced in a file that a reader opens, for good.
* `InOrder`: the order of the files is the order of the appends.
* `ImplementsDurableLog`: every step is one of the abstract log's, under the mapping
  `log <- Entries`, `promised <- promised`, `readable <- Readable`. The abstract log grows at its end only,
  loses in a crash only what was promised to nobody, and is cut only at its beginning.

`readable` may be FALSE in the abstract log, and this is the one weakness it records: after a torn record
`ReadAll` gives an error in place of all entries, answered ones included (`docs/ARCHITECTURE.md:230`:
the WAL ensures that the data can be recovered). A write that fails half-way tears a record in a
process that goes on, and every append after it is answered with success.

Four appends and files up to number 3 are enough for a rotation, one that fails, one that follows a
restart, and a `Truncate` of the first file while two are left; the theorems are about any number.
The run has `KeepOpen`.

## 8. Proofs

`LumeoRaftProofs` holds, for every finite `Server` and all bounds (`ServerAssumption`,
`BoundsAssumption`, nothing else):

* `TypeCorrect`: `Spec => []TypeOK`. `TypeOK` is not inductive: `prev` in a sent request is
  `nextIndex - 1`, a natural number only if `nextIndex` is at least 1 where it is read.
  `PositiveNext` adds that for leaders and for the senders of calls in progress, which is where
  `becomeLeader` has initialised it.
* `VotesAreStable`: `Spec => VoteStable`.
* `VotesAreBinding`: `Spec => []VotesBind`, and `OneLeader`: `Spec => []ElectionSafety`. The
  inductive invariant `VoteInv` says that polls ask and count only peers (`PollsOfPeers`), every
  vote that has been counted or is on its way binds the node that gave it, for good
  (`BallotsBind`: the node is past the term, or in it with this vote), and each winner is backed by
  a majority so bound (`WinnersBacked`). When a poll is tallied, its majority and that of an
  earlier winner of the term meet (`MajoritiesMeet`, a counting argument on finite sets), and the
  common node would be bound to both.

`LumeoRaftLogProofs` goes on from there, under the same assumptions: `LogsMatch`
(`Spec => []LogMatching`), `LeadersAppendOnly` (`Spec => LeaderAppendOnly`) and `LeadersUpToDate`
(`Spec => LeaderUpToDate`). Logs and the requests on their way are taken apart into links: an entry,
its index, and the term of the entry before it. All this is about behaviours in which requests carry what was read: the
invariants are proved as `~overwritten => ...`, a step of the nodes leaves `overwritten` alone (`StepOfNode`), and
`OverwriteEntries` ends the claim. The other steps of the code add no link but the one of
`Propose` (`LinksGrow`), because the append loop puts entries behind the entry that the request named.
`LogInv` says of the links that

* a term and an index name one link, and the links of a term are contiguous (`LinksAgree`), from which
  two logs with a common term at some index are equal up to there (`LogsAgree`);
* entries stand at their index, are of a winner's term, and terms never decrease (`LinksSound`);
* a leader's log has every entry of its term that is anywhere, and none of a later one (`LeaderHasTerm`).

The last one must hold for a leader at the moment it wins, so no entry of its term may be anywhere
before. This is where the code makes the proof differ from the usual one: a heartbeat's goroutine
reads the log without a second look at its role (`ReadLog`), so that a node which has stepped down can send a
newer log under its old term, and a peer may hold entries of a term that it has not reached. What saves the
argument is that such a later term has its winner: a candidate is then `Doomed`, a majority has not voted
for it in that term and never will, and `PollSafe` says that every other candidate has entries of earlier
terms only. `UpToDateInv` adds that a request describes the log of a candidate that can still win
(`RequestsTrue`), and that whoever votes for it has a log no more up to date, or goes on to a later term
(`VotersBehind`): the comparison is made when the vote is given, and the log may not overtake it before
the tally.

`LumeoRaftCommitProofs` proves `LeadersKnowPeers` (`MatchIndexTrue`), `CommittedIsReplicated`
(`CommittedOnMajority`), `LeadersComplete` (`LeaderCompleteness`), `CommitsMonotonic`, and
`AppliedIsCommitted` (`AppliedCommitted`), all with the proviso `Undisturbed` that these properties carry,
`NoEntrySkipped`, about `AppliedWithoutGap`, and `RaftIsOneLog` (`ImplementsReplicatedLog`). The invariants
build on each other:

* `MatchInv`: as long as its sender leads, a call carries a part of the sender's log (`CallFromLeader`), a
  positive answer means that the peer has that part or has gone to a later term (`ReplyTrue`), and so does
  `matchIndex` (`MatchTrue`).
* `Firm(pre)`, about a part `pre` of a log that ends with an entry of term t: the logs and calls with an entry
  of a later term, the candidates of later terms whose requests describe such a log, and the winners of t and of
  later terms all have `pre`, and no call of t or a later term contradicts it. A node is a `Guard` of `pre` if
  it has it and has voted, in terms after t, only for nodes that have it. `Durable(pre)` is firm and guarded by a
  majority. A firm prefix stays firm as
  long as the next winner has it, and a majority of guards makes sure of that, because the winner's majority
  has one of them in it.
* `AckInv`: the entries that a leader appends in its own term end prefixes that are firm from the start, with
  the leader as their guard; whoever acknowledges one becomes a guard. It can happen that another node wins
  without it. Then a majority has gone to later terms without having acknowledged it (`Blocked`), and as
  `~staleAck` keeps their later answers from being counted, the leader will never commit it.
* `CommitInv`: what a node has committed begins a durable prefix (`CommitsDurable`), and so does the commit
  index of a call under way (`CallsDurable`), which also brings the whole prefix with it, so that the
  follower cuts nothing off when it takes the smaller of two indexes; what waits in `applyC` or was applied is
  committed and in the log (`HeldCommitted`).

`CommittedOnMajority` is not inductive by far: that a majority has the entry does not keep a newer leader
from replacing it, unless that majority also has it at the moment of each later vote, which is what guards are.

`NoEntrySkipped` is `Spec /\ []QueueHasRoom => []AppliedWithoutGap`, where `QueueHasRoom` says that every
queue has less than `ApplyCap` entries. The premise is the limit named in section 3, without which the property
is false. It excludes no more than a queue at its capacity: a push that loses an entry leaves the queue
full, also when `applyLoop` takes one entry in the middle (`PushLeavesNoGap`, `NotifyFeeds`). The invariant `FeedInv`
is about `Fed(i)`, what was applied followed by what waits: it has no gap, and `lastApplied` and the entry being
applied are in the first part, so that a push that starts again from `lastApplied + 1` has its
predecessor there. As long as no stale answer is counted, it also takes its entries in turn (`InTurn`), which rests on the other
end of a push: each goes as far as the commit index, so that `Fed(i)` ends there (`EndsAt`), and as the
commit index does not go back (`CommitsMonotonic`), a push that starts anew starts at or before the entry after the last one.

`RaftIsOneLog` is the refinement: initial states map to the initial state, and every step is a step of
`ReplicatedLog` or none (`StepImplements`), for every cluster. Two nodes have committed the same entries as far as both have
(`CommitsAgree`): each committed part begins a durable prefix, the majorities that guard the two meet, and the
node they share has both in its log. So it does not matter which node is foremost, in one state or over a
step: a commit index never goes back, and the log under it never changes, whence the decided log only
grows at its end (`DecidedGrows`, `DecidedStays`). Nearly every action only moves what the abstract log does not see. A
leader or a follower that raises its commit index is a `Learn`, with a `Hand` if `applyLoop` takes an
entry in the middle of the push; `TakeEntry` is a `Hand`, because what waits in `applyC` stands in
the committed part of the log (`HeldCommitted`). The steps that count a stale answer or overwrite a request are a `Break`.

`StateMachinesAgree` (`Spec => []AppliedSame`) draws from `CommitsAgree` what the masters rest on: with
the proviso, two entries of one index that two state machines were handed are equal. `MCApplyTwice` shows
that one may get it more often than the other; this is the rest of what the documents' "consistent" could mean.

`ClusterMasterProofs` holds for all masters, data nodes, files, replica counts and bounds
(`MasterAssumption`: there is a master and the bounds are natural numbers; `ClusterAssumption`:
data nodes are finitely many, each is configured with a master, `ReplicaCount` and `MaxChunks` are
positive):

* `ApplySound`: each of the six commands, applied to metadata with sound references, leaves them
  sound. It speaks of all metadata of the right type, also such as no handler here produces.
* `ClusterTypeCorrect`: `Spec => []TypeOK`, and `ReferencesSound`: `Spec => []RefsSound`.

The inductive invariant `IInv` adds to the two:

* `Named`, a chunk's ID names its file. Without it an allocation could replace a chunk that another
  file lists, and `DELETE_FILE` could take another file's chunks with it.
* `AllocationsOpen`, an allocation has nodes to choose from, or the modulus of the rotation would
  be zero, and chunks left to propose, or the index of the next command would leave its type.

In these what is committed is never inspected: the proofs use only that committed commands are commands,
and so they hold however often and from wherever a state machine is fed again.

* `ChunksPlaced`: `Spec => []ReplicasKnown`; `ClientsToldRight`: `Spec => []ToldAsRecorded`;
  `ChunksStayPut`: `Spec => ChunksStay`.

Here the logs matter, and `PlaceInv` follows a chunk from its allocation to every master. An allocation in a
log names the replicas its client was told, or will be (`LogsTold`, `ChunksTold`), and as every upload has its own
file ID, a command applied again finds the chunk where it put it. The nodes that an allocation has read are different,
enough, and their registrations are committed (`NodesChosen`, `NodesLogged`); in any log that may still be
committed, an allocation comes after the registrations of its nodes (`RegisteredFirst`). That is not true of
the log of a deposed leader, which goes on appending allocations among nodes it knows from the committed log:
`Departs` says that such a log has left the committed one before that point. `NodesFed` says that a master knows every
node registered before its cursor, and `ReplicasRegistered` that it knows the replicas of all its chunks, those
it has from before the cursor went back included. That replicas are different is `RoundApart` of `Rotation`: remainders of
numbers less than one round apart differ.

* `SettledMatchesLog`: `Spec => []SettledAsCommitted`, a drained master has what the log stands for.

`SettledAsCommitted` compares a state machine that starts over at will with `Replay`, the fold of `Apply` over the
committed log. Both are described against the log, not against each other. `Made`: what a command makes is there
once it has been applied, and nothing takes it away again. `MadeBy`: nothing is there that no command of the log makes, and a
chunk is as its allocation says. `Listed`, the core: the chunks that a file lists, without repetitions, are at every
moment the list that `Replay` has at some later point of the log. After `CREATE_FILE` is applied
again, the list is empty, as it is in `Replay` right there; every allocation that is applied again either appends its
chunk where `Replay` does, or finds it listed. For this no file may be created twice in a log and no chunk allocated
twice (`LogsOnce`, for the logs of deposed leaders too, as a client's upload asks for each chunk once: `AskedFresh`).
`MastersFed` says the three of each master, of the commands before its cursor; `FedAll` says
that a cursor behind the last one leaves no choice.

What `Replay` and `Firsts` compute is proved here for every log. The library's induction theorems
take an operator as a parameter, which the provers cannot instantiate; `CountUp` says the same of a set of
numbers (with 0 and with every successor it has all), from the least number outside of it
(`WellFoundedInduction`), and `Recursion` draws from it that a recursive function on `0..N` is what its
definition says.

`MasterProofs` holds for any finite set of data nodes, all files, replica counts and bounds
(`NodesAssumption`, `CountsAssumption`): `TypeCorrect`, `PrimaryIsOne`, `HealthyLeads`, `StaySpread`. The inductive invariant
beside the types is `Kept`: the replicas of a known chunk
are led by one of them, healthy if any is, and spread; a goroutine only works on known chunks; and a
file whose PUT has not come to its allocation has no chunk. `PrimaryHealthy` is kept by
an election because the candidates are the replicas that are not marked, and by a marking because an
election follows it under the same mutex.

`ChunkReplicationProofs` holds for any set of nodes with a primary in it and all bounds
(`PrimaryAssumption`, `BoundsAssumption`): `TypeCorrect`, `CurrentReads`, `GrowingVersions`,
`LoggedStorage`, `OneProxy`. The invariant has seven parts beside the types. `Handled` and `Roles`: only the primary ever takes itself
for the primary, and it knows its replicas only after its role, so that writes are logged nowhere
else. `Hops`: a write comes from another node only after the primary has been told its role, and when it has lost
the role since, it has no list and will get none, so that it cannot send the write on. `Replaces`: a write that has been logged
has no predecessor behind it in the log. `Filed`, the core of `CurrentReads`, is about the file: while the node accepts, no
block of it holds what a logged and stored write has replaced there (`Current`); while it replays, each block written so far holds
the last of the records gone through that reach it (`Rewritten`), whatever was there when the replay began, which may be what a crash
left of an earlier replay; and when the log is torn, there is no replay and the file stays as it was. A write that is over
when another arrives will not be appended again, nor stored again, which is why this survives any interleaving, and at
the end of a replay `Rewritten` and `Replaces` give `Current` back. `Copies`: what is in files, logs and on its way
got past the log at the primary. `Versions`: the entry has the highest version of the present life.

`WALProofs` holds for any bounds: `Kept` (for `KeepOpen`), `ReadInOrder`, and `Refinement`,
that `WAL` implements `DurableLog`: the initial states match, and each action is a step of the log or none.
`PromisedSynced` and `InOrder` are made inductive by three parts. `Numbered`: no two records have the number
of one append, and nothing is promised of the append at work. `FilesInPlace`: no record is in a file above
the newest in the directory, and the open file is that one, so what is written last is read last.
`AtWork`: an append between two of its steps has written what its phase says. `KeepOpen` is needed for
the second: a `Truncate` that removes the open file leaves it without a name, and appends go on to it.

The properties named in these theorems are properties of TLC runs too, under the same definitions, but
for the type invariants of `Master`, `ChunkReplication` and `WAL`, which are only proved. Only
model-checked:

* liveness (`EventuallyApplied`, `ChunksArrive`, `DeclaredMarked`, `AllOver`,
  `Replicated`), which rests on fairness and so on ENABLED;
* what the violating runs check (`AppliedAgree`, `MajorityHoldsCommitted`, `MajorityElects`, `AllocationKept`), which is false.

That `LumeoRaft` implements `MetadataLog` is proved as far as `ReplicatedLog` goes, the committed log and what
reaches the state machines; for the branches it is argued in section 4.

## 9. Not modelled

Of the Raft node: `Stop` and `GetClusterInfo`, logging, the random length of timeouts, an
`encoder.Encode` that fails after part of the request has been sent (it is a call that fails).
Of the state machine: `Snapshot` and `Restore`, which nothing calls. Of the cluster master: the
handlers that only read, the address a redirection carries, and a data node that restarts and
registers again. Of the single master: handlers that only read, the exported `RegisterDataNode`,
`Heartbeat` and `AllocateChunk`, which nothing calls, and its restart, after which it knows nothing.
Of the data nodes and replication: the exported `Write` and `Read`, the stub `syncToSecondaries`,
`SyncFromPrimary` and `ValidateConsistency`, none of which is called; writes of a part of a chunk;
several chunks in one log. Of versions: leases, vector clocks as a type of their own, timestamps and the
consistency checks, which nothing uses (a lease that expires, is granted anew and renewed through the old
pointer would be held twice, if any were granted). Erasure coding is a library of pure functions
that no package imports. Types, configuration and protocol have no state, and the entry points only
start things.

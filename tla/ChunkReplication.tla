-------------------------- MODULE ChunkReplication --------------------------
(***************************************************************************)
(* The data nodes of one chunk (src/internal/datanode/datanode.go) and     *)
(* their replica managers (src/internal/replication/replica_manager.go):   *)
(* writes, the write proxy, the write-ahead log, the copies that are sent  *)
(* to the secondaries in the background, the SetRole requests of the       *)
(* master, and nodes that stop and recover from their logs.                *)
(*                                                                         *)
(* Every connection has a goroutine, so the steps of any number of         *)
(* handlers interleave; each step here is what a handler does between two  *)
(* locks, files or connections.  The w-th write to arrive anywhere is      *)
(* write w, and its number stands for its data and for their checksum.  A  *)
(* file is a row of blocks: a write begins at the first of them, as the    *)
(* client's do, and replaces as many as it is long.  One call of           *)
(* file.Write is one step; one that fails, or that the end of the process  *)
(* cuts off, has replaced the first few.                                   *)
(*                                                                         *)
(* A caller sends its writes to the primary the master named, as the       *)
(* client does, or to a node that holds a copy of the chunk already.       *)
(*                                                                         *)
(* SetRoleFirstRegisters, DialWaits, AppendUnlogged, RecordAnew,           *)
(* SyncRecordKnown and AcceptAtOnce are mutants that PROJECT.json puts in  *)
(* the place of what follows them.                                         *)
(***************************************************************************)
EXTENDS Naturals, Sequences, SequencesExt

CONSTANTS
    Node,
    Primary,      \* the primary of the chunk, as the master allocated it
    MaxWrites,    \* bound: writes that arrive
    MaxBlocks,    \* bound: the length of a write
    MaxCrashes,   \* bound: crashes of nodes, not counting MapRace
    MaxDrops      \* bound: copies that are lost or refused, records not written again

ASSUME PrimaryAssumption == Primary \in Node
ASSUME BoundsAssumption == {MaxWrites, MaxBlocks, MaxCrashes, MaxDrops} \subseteq Nat

VARIABLES
    up,         \* "starting" while a node listens and does not accept yet, then "yes"
    lives,      \* how often it was started
    role,       \* ReplicaManager.localRoles
    knows,      \* "yes" when ReplicaManager.replicas has the chunk
    chunk,      \* DataNode.chunks: version and checksum, 0 for no entry
    storage,    \* the file of the chunk: whose data a block holds, 0 for none
    walLog,     \* the records of the log
    torn,       \* "yes" when there is a torn record among them
    replayed,   \* how many records recoverFromWAL has gone through
    skipped,    \* "yes" when it could not write all of them again
    setRole,    \* the SetRole request to each node
    requests,   \* the writes
    before,     \* the writes that were over when a write arrived
    spawned,    \* syncToSecondariesAsync goroutines that have not run
    syncs,      \* syncToNode goroutines and the requests they have sent
    crashes, drops

process == <<up, lives, role, knows>>
disks   == <<storage, walLog, torn>>
replays == <<replayed, skipped>>
faults  == <<crashes, drops>>
vars    == <<process, chunk, disks, replays, setRole, requests, before, spawned, syncs, faults>>

Write     == 1 .. MaxWrites
Block     == 1 .. MaxBlocks
Secondary == Node \ {Primary}
NoChunk   == [version |-> 0, sum |-> 0]
NoFile    == [b \in Block |-> 0]

Phase == {"none", "arrived", "proxy", "list", "dial", "forwarded", "log", "store", "record",
          "done", "failed", "lost"}
Over  == {"done", "failed", "lost"}

Request == [phase : Phase, at : Node, seen : {"PRIMARY", "SECONDARY"}, hops : Nat,
            size : Nat, logged : {"no", "yes", "failed"}, version : Nat, life : Nat]
Sync == [write : Write, from : Node, to : Node, version : Nat,
         phase : {"marshal", "sent", "stored"}]

TypeOK ==
    /\ up \in [Node -> {"yes", "starting", "no"}]
    /\ lives \in [Node -> Nat]
    /\ role \in [Node -> {"PRIMARY", "SECONDARY"}]
    /\ knows \in [Node -> {"yes", "no"}]
    /\ chunk \in [Node -> [version : Nat, sum : 0 .. MaxWrites]]
    /\ storage \in [Node -> [Block -> 0 .. MaxWrites]]
    /\ walLog \in [Node -> Seq(Write)]
    /\ torn \in [Node -> {"yes", "no"}]
    /\ replayed \in [Node -> Nat]
    /\ skipped \in [Node -> {"yes", "no"}]
    /\ setRole \in [Node -> {"sent", "half", "gone"}]
    /\ requests \in [Write -> Request]
    /\ before \in [Write -> SUBSET Write]
    /\ spawned \in SUBSET Write
    /\ syncs \in SUBSET Sync
    /\ crashes \in Nat /\ drops \in Nat

\* The nodes are running and the master has just allocated the chunk.
Init ==
    /\ up = [n \in Node |-> "yes"]
    /\ lives = [n \in Node |-> 1]
    /\ role = [n \in Node |-> "SECONDARY"]
    /\ knows = [n \in Node |-> "no"]
    /\ chunk = [n \in Node |-> NoChunk]
    /\ storage = [n \in Node |-> NoFile]
    /\ walLog = [n \in Node |-> <<>>]
    /\ torn = [n \in Node |-> "no"]
    /\ replayed = [n \in Node |-> 0]
    /\ skipped = [n \in Node |-> "no"]
    /\ setRole = [n \in Node |-> "sent"]
    /\ requests = [w \in Write |->
           [phase |-> "none", at |-> Primary, seen |-> "SECONDARY", hops |-> 0,
            size |-> 0, logged |-> "no", version |-> 0, life |-> 0]]
    /\ before = [w \in Write |-> {}]
    /\ spawned = {}
    /\ syncs = {}
    /\ crashes = 0 /\ drops = 0

-----------------------------------------------------------------------------
\* SetRole, in the order of the handler.

SetRoleFirstRegisters(n) ==
    /\ up[n] = "yes"
    /\ setRole[n] = "sent"
    /\ knows' = [knows EXCEPT ![n] = "yes"]
    /\ setRole' = [setRole EXCEPT ![n] = "half"]
    /\ UNCHANGED <<replays, up, lives, role, chunk, disks, requests, before, spawned, syncs, faults>>

SetLocalRole(n) ==
    /\ up[n] = "yes"
    /\ setRole[n] = "sent"
    /\ role' = [role EXCEPT ![n] = IF n = Primary THEN "PRIMARY" ELSE "SECONDARY"]
    /\ setRole' = [setRole EXCEPT ![n] = "half"]
    /\ UNCHANGED <<replays, up, lives, knows, chunk, disks, requests, before, spawned, syncs, faults>>

RegisterReplicas(n) ==
    /\ setRole[n] = "half"
    /\ knows' = [knows EXCEPT ![n] = "yes"]
    /\ setRole' = [setRole EXCEPT ![n] = "gone"]
    /\ UNCHANGED <<replays, up, lives, role, chunk, disks, requests, before, spawned, syncs, faults>>

\* The master's one attempt fails.
SetRoleLost(n) ==
    /\ setRole[n] = "sent"
    /\ setRole' = [setRole EXCEPT ![n] = "gone"]
    /\ UNCHANGED <<process, replays, chunk, disks, requests, before, spawned, syncs, faults>>

-----------------------------------------------------------------------------
\* handleWriteChunk.

InPhase(w, p) == requests[w].phase = p /\ up[requests[w].at] = "yes"

Becomes(w, p) == requests' = [requests EXCEPT ![w].phase = p]

\* The next write arrives, k blocks long, and the handler reads the role.
Arrive(w, n, k) ==
    /\ \A v \in Write : requests[v].phase = "none" <=> v >= w
    /\ up[n] = "yes"
    /\ n = Primary \/ chunk[n] # NoChunk
    /\ requests' = [requests EXCEPT ![w] =
           [@ EXCEPT !.phase = "arrived", !.at = n, !.seen = role[n], !.life = lives[n],
                     !.size = k]]
    /\ before' = [before EXCEPT ![w] = {v \in Write : requests[v].phase \in Over}]
    /\ UNCHANGED <<process, replays, chunk, disks, setRole, spawned, syncs, faults>>

\* Then whether the chunk exists; the first write makes the node primary.
Decide(w) ==
    LET n == requests[w].at
    IN  /\ InPhase(w, "arrived")
        /\ \/ /\ chunk[n] = NoChunk
              /\ role' = [role EXCEPT ![n] = "PRIMARY"]
              /\ Becomes(w, "log")
           \/ /\ chunk[n] # NoChunk
              /\ Becomes(w, IF requests[w].seen = "PRIMARY" THEN "log" ELSE "proxy")
              /\ UNCHANGED role
        /\ UNCHANGED <<replays, up, lives, knows, chunk, disks, setRole, before, spawned, syncs,
                       faults>>

\* ReplicaManager.Write: an error when the node has become the primary in the
\* meantime.
Proxy(w) ==
    /\ InPhase(w, "proxy")
    /\ Becomes(w, IF role[requests[w].at] = "PRIMARY" THEN "failed" ELSE "list")
    /\ UNCHANGED <<process, replays, chunk, disks, setRole, before, spawned, syncs, faults>>

\* GetPrimaryNode: an error when the node knows no primary.
FindPrimary(w) ==
    /\ InPhase(w, "list")
    /\ Becomes(w, IF knows[requests[w].at] = "yes" THEN "dial" ELSE "failed")
    /\ UNCHANGED <<process, replays, chunk, disks, setRole, before, spawned, syncs, faults>>

Forwarded(w) ==
    requests' = [requests EXCEPT ![w] =
        [@ EXCEPT !.phase = "forwarded", !.at = Primary, !.hops = requests[w].hops + 1]]

DialWaits(w) ==
    /\ InPhase(w, "dial")
    /\ up[Primary] # "no" /\ Forwarded(w)
    /\ UNCHANGED <<process, replays, chunk, disks, setRole, before, spawned, syncs, faults>>

\* The connection to the primary fails, or the write is sent and the proxy waits
\* for the answer: a node that listens can be connected to before it accepts.
Dial(w) ==
    /\ InPhase(w, "dial")
    /\ \/ up[Primary] # "no" /\ Forwarded(w)
       \/ Becomes(w, "failed")
    /\ UNCHANGED <<process, replays, chunk, disks, setRole, before, spawned, syncs, faults>>

\* The primary treats what it gets from a proxy like any other write.
TakeForwarded(w) ==
    /\ InPhase(w, "forwarded")
    /\ requests' = [requests EXCEPT ![w] =
           [@ EXCEPT !.phase = "arrived", !.seen = role[Primary], !.life = lives[Primary]]]
    /\ UNCHANGED <<process, replays, chunk, disks, setRole, before, spawned, syncs, faults>>

AppendUnlogged(w) ==
    /\ InPhase(w, "log")
    /\ requests' = [requests EXCEPT ![w].phase = "store",
           ![w].logged = IF chunk[requests[w].at] = NoChunk THEN "no" ELSE "yes"]
    /\ walLog' = IF chunk[requests[w].at] = NoChunk THEN walLog
                 ELSE [walLog EXCEPT ![requests[w].at] = Append(@, w)]
    /\ UNCHANGED <<process, replays, chunk, storage, torn, setRole, before, spawned, syncs, faults>>

\* A record is written to the log and synced.
LogAppend(w) ==
    /\ InPhase(w, "log")
    /\ requests' = [requests EXCEPT ![w].phase = "store", ![w].logged = "yes"]
    /\ walLog' = [walLog EXCEPT ![requests[w].at] = Append(@, w)]
    /\ UNCHANGED <<process, replays, chunk, storage, torn, setRole, before, spawned, syncs, faults>>

\* The append fails, before it has written anything, half-way or when the whole
\* record is only to be synced, and the write goes on.
LogAppendFails(w) ==
    /\ InPhase(w, "log")
    /\ requests' = [requests EXCEPT ![w].phase = "store", ![w].logged = "failed"]
    /\ \/ UNCHANGED <<walLog, torn>>
       \/ /\ torn' = [torn EXCEPT ![requests[w].at] = "yes"]
          /\ UNCHANGED walLog
       \/ /\ walLog' = [walLog EXCEPT ![requests[w].at] = Append(@, w)]
          /\ UNCHANGED torn
    /\ UNCHANGED <<process, replays, chunk, storage, setRole, before, spawned, syncs, faults>>

\* LocalStorage.WriteChunk, when it comes k blocks far: nothing is truncated.
Overwrite(n, w, k) ==
    storage' = [storage EXCEPT ![n] = [b \in Block |-> IF b <= k THEN w ELSE @[b]]]

StoreChunk(w) ==
    /\ InPhase(w, "store")
    /\ Overwrite(requests[w].at, w, requests[w].size)
    /\ Becomes(w, "record")
    /\ UNCHANGED <<process, replays, chunk, walLog, torn, setRole, before, spawned, syncs, faults>>

StoreFails(w) ==
    /\ InPhase(w, "store")
    /\ \E k \in 0 .. requests[w].size - 1 : Overwrite(requests[w].at, w, k)
    /\ Becomes(w, "failed")
    /\ UNCHANGED <<process, replays, chunk, walLog, torn, setRole, before, spawned, syncs, faults>>

\* NewDataVersion starts at 1, Increment adds 1.
NextVersion(n) == (IF chunk[n] = NoChunk THEN 1 ELSE chunk[n].version) + 1

RecordAnew(w) ==
    LET n == requests[w].at
    IN  /\ InPhase(w, "record")
        /\ chunk' = [chunk EXCEPT ![n] = [version |-> 2, sum |-> w]]
        /\ requests' = [requests EXCEPT ![w].phase = "done", ![w].version = 2]
        /\ spawned' = spawned \cup {w}
        /\ UNCHANGED <<process, replays, disks, setRole, before, syncs, faults>>

\* Under the lock of the node: the entry, its next version, its checksum; then
\* the goroutine for the secondaries and the answer.
Record(w) ==
    LET n == requests[w].at
    IN  /\ InPhase(w, "record")
        /\ chunk' = [chunk EXCEPT ![n] = [version |-> NextVersion(n), sum |-> w]]
        /\ requests' = [requests EXCEPT ![w].phase = "done", ![w].version = NextVersion(n)]
        /\ spawned' = spawned \cup {w}
        /\ UNCHANGED <<process, replays, disks, setRole, before, syncs, faults>>

-----------------------------------------------------------------------------
\* Copies for the secondaries.

\* GetSecondaryNodes.
SecondaryNodes(n) == IF knows[n] = "yes" THEN Secondary \ {n} ELSE {}

\* syncToSecondariesAsync: one goroutine for each secondary known at the time.
RunSync(w) ==
    /\ w \in spawned
    /\ spawned' = spawned \ {w}
    /\ syncs' = syncs \cup
           {[write |-> w, from |-> requests[w].at, to |-> n, version |-> 0, phase |-> "marshal"] :
               n \in SecondaryNodes(requests[w].at)}
    /\ UNCHANGED <<process, replays, chunk, disks, setRole, requests, before, faults>>

\* syncToNode: the version is that of the entry by now, not of the write.
SendSync(y) ==
    /\ y.phase = "marshal"
    /\ up[y.to] # "no"
    /\ syncs' = (syncs \ {y}) \cup
           {[y EXCEPT !.phase = "sent", !.version = chunk[y.from].version]}
    /\ UNCHANGED <<process, replays, chunk, disks, setRole, requests, before, spawned, faults>>

\* handleSyncChunk: the file, whatever is in it, and then the entry.
SyncStore(y) ==
    /\ y.phase = "sent"
    /\ up[y.to] = "yes"
    /\ Overwrite(y.to, y.write, requests[y.write].size)
    /\ syncs' = (syncs \ {y}) \cup {[y EXCEPT !.phase = "stored"]}
    /\ UNCHANGED <<process, replays, chunk, walLog, torn, setRole, requests, before, spawned,
                   faults>>

SyncRecordKnown(y) ==
    /\ y.phase = "stored"
    /\ chunk' = [chunk EXCEPT ![y.to] =
           IF @ = NoChunk THEN @ ELSE [version |-> y.version, sum |-> y.write]]
    /\ syncs' = syncs \ {y}
    /\ UNCHANGED <<process, replays, disks, setRole, requests, before, spawned, faults>>

SyncRecord(y) ==
    /\ y.phase = "stored"
    /\ chunk' = [chunk EXCEPT ![y.to] = [version |-> y.version, sum |-> y.write]]
    /\ syncs' = syncs \ {y}
    /\ UNCHANGED <<process, replays, disks, setRole, requests, before, spawned, faults>>

\* The node cannot be reached, the connection breaks, or the file cannot be
\* written to its end.  The copy is not sent again.
SyncFails(y) ==
    /\ \/ /\ y.phase \in {"marshal", "sent"}
          /\ UNCHANGED storage
       \/ /\ y.phase = "sent" /\ up[y.to] = "yes"
          /\ \E k \in 1 .. requests[y.write].size - 1 : Overwrite(y.to, y.write, k)
    /\ drops < MaxDrops \/ up[y.to] = "no"
    /\ drops' = IF up[y.to] = "no" THEN drops ELSE drops + 1
    /\ syncs' = syncs \ {y}
    /\ UNCHANGED <<process, replays, chunk, walLog, torn, setRole, requests, before, spawned,
                   crashes>>

-----------------------------------------------------------------------------
\* A start goes through the log before anything is accepted.
Replaying(n) == up[n] = "starting" /\ torn[n] = "no" /\ replayed[n] < Len(walLog[n])

\* The writes that may be on their way into the file of a node.
Storing(n) ==
    {w \in Write : \/ InPhase(w, "store") /\ requests[w].at = n
                   \/ \E y \in syncs : /\ y.write = w /\ y.to = n /\ y.phase = "sent"
                                       /\ up[n] = "yes"
                   \/ Replaying(n) /\ walLog[n][replayed[n] + 1] = w}

\* The end of a process: memory and connections are gone.  Of an append at work
\* the log has all, nothing or a piece, of a write to the file the first blocks
\* may be there.
Dies(n) ==
    LET appending == {w \in Write : requests[w].at = n /\ requests[w].phase = "log"}
    IN  /\ up' = [up EXCEPT ![n] = "no"]
        /\ role' = [role EXCEPT ![n] = "SECONDARY"]
        /\ knows' = [knows EXCEPT ![n] = "no"]
        /\ chunk' = [chunk EXCEPT ![n] = NoChunk]
        /\ setRole' = [setRole EXCEPT ![n] = IF @ = "half" THEN "gone" ELSE @]
        /\ requests' = [w \in Write |->
               IF requests[w].at = n /\ requests[w].phase \notin Over \cup {"none"}
               THEN [requests[w] EXCEPT !.phase = "lost"] ELSE requests[w]]
        /\ spawned' = {w \in spawned : requests[w].at # n}
        /\ syncs' = {y \in syncs : ~(y.from = n /\ y.phase = "marshal")
                                /\ ~(y.to = n /\ y.phase \in {"sent", "stored"})}
        /\ \/ UNCHANGED <<walLog, torn>>
           \/ /\ appending # {}
              /\ torn' = [torn EXCEPT ![n] = "yes"]
              /\ UNCHANGED walLog
           \/ \E w \in appending :
                  /\ walLog' = [walLog EXCEPT ![n] = Append(@, w)]
                  /\ UNCHANGED torn
        /\ \/ UNCHANGED storage
           \/ \E w \in Storing(n) : \E k \in 1 .. requests[w].size : Overwrite(n, w, k)
        /\ UNCHANGED <<lives, replays, before>>

Crash(n) ==
    /\ up[n] # "no"
    /\ crashes < MaxCrashes
    /\ crashes' = crashes + 1
    /\ Dies(n)
    /\ UNCHANGED drops

\* Increment writes the map of the entry's vector clock under the lock, while
\* a goroutine without the lock may be encoding that map for a secondary: the
\* Go runtime ends a process in which it sees that.
MapRace(n) ==
    /\ \E w \in Write : InPhase(w, "record") /\ requests[w].at = n /\ chunk[n] # NoChunk
    /\ \E y \in syncs : y.from = n /\ y.phase = "marshal"
    /\ Dies(n)
    /\ UNCHANGED faults

\* Start: the node listens; the role is not in the log.
Restart(n) ==
    /\ up[n] = "no"
    /\ up' = [up EXCEPT ![n] = "starting"]
    /\ lives' = [lives EXCEPT ![n] = @ + 1]
    /\ replayed' = [replayed EXCEPT ![n] = 0]
    /\ skipped' = [skipped EXCEPT ![n] = IF torn[n] = "yes" THEN @ ELSE "no"]
    /\ UNCHANGED <<role, knows, chunk, disks, setRole, requests, before, spawned, syncs, faults>>

\* recoverFromWAL: the next record is written again and entered with version 0.
\* A torn record anywhere makes ReadAll fail, and nothing is recovered.
Replay(n) ==
    LET w == walLog[n][replayed[n] + 1]
    IN  /\ Replaying(n)
        /\ replayed' = [replayed EXCEPT ![n] = @ + 1]
        /\ Overwrite(n, w, requests[w].size)
        /\ chunk' = [chunk EXCEPT ![n] = [version |-> 0, sum |-> w]]
        /\ UNCHANGED <<process, walLog, torn, skipped, setRole, requests, before, spawned, syncs,
                       faults>>

\* The file cannot be written to the end of the record, and the next one follows.
ReplayFails(n) ==
    LET w == walLog[n][replayed[n] + 1]
    IN  /\ Replaying(n)
        /\ drops < MaxDrops
        /\ drops' = drops + 1
        /\ replayed' = [replayed EXCEPT ![n] = @ + 1]
        /\ skipped' = [skipped EXCEPT ![n] = "yes"]
        /\ \E k \in 0 .. requests[w].size - 1 : Overwrite(n, w, k)
        /\ UNCHANGED <<process, chunk, walLog, torn, setRole, requests, before, spawned, syncs,
                       crashes>>

AcceptAtOnce(n) ==
    /\ up[n] = "starting"
    /\ up' = [up EXCEPT ![n] = "yes"]
    /\ UNCHANGED <<lives, role, knows, chunk, disks, replays, setRole, requests, before, spawned,
                   syncs, faults>>

\* The node has registered with the master, if it ever does, and accepts.
Accept(n) ==
    /\ up[n] = "starting"
    /\ ~Replaying(n)
    /\ up' = [up EXCEPT ![n] = "yes"]
    /\ UNCHANGED <<lives, role, knows, chunk, disks, replays, setRole, requests, before, spawned,
                   syncs, faults>>

-----------------------------------------------------------------------------
\* What a handler does next without the outside.
WriteStep(w) ==
    \/ Decide(w) \/ Proxy(w) \/ FindPrimary(w) \/ Dial(w) \/ TakeForwarded(w)
    \/ LogAppend(w) \/ LogAppendFails(w) \/ StoreChunk(w) \/ StoreFails(w) \/ Record(w)

SyncStep(w, n) ==
    \E y \in syncs : y.write = w /\ y.to = n /\ (SendSync(y) \/ SyncStore(y) \/ SyncRecord(y))

Next ==
    \/ \E w \in Write : WriteStep(w) \/ RunSync(w)
    \/ \E w \in Write, n \in Node : SyncStep(w, n) \/ \E k \in Block : Arrive(w, n, k)
    \/ \E y \in syncs : SyncFails(y)
    \/ \E n \in Node :
          SetLocalRole(n) \/ RegisterReplicas(n) \/ SetRoleLost(n)
              \/ Crash(n) \/ MapRace(n) \/ Restart(n) \/ Replay(n) \/ ReplayFails(n) \/ Accept(n)

Spec == Init /\ [][Next]_vars

\* Goroutines of running nodes are run.  That a node accepts again after a restart
\* is not assumed: it waits without a deadline for the master's answer first.
LiveSpec ==
    /\ Spec
    /\ \A w \in Write : WF_vars(WriteStep(w)) /\ WF_vars(RunSync(w))
    /\ \A w \in Write, n \in Node : WF_vars(SyncStep(w, n))

-----------------------------------------------------------------------------
\* CheckReadConsistency: as no lease is ever granted, only the primary may read
\* its own file.
MayRead(n) == role[n] = "PRIMARY"

\* handleReadChunk at the primary, and what it answers others; NoFile for an error.
ReadLocal(n) == IF up[n] = "yes" /\ MayRead(n) THEN storage[n] ELSE NoFile

\* ReplicaManager.Read: everyone else asks the primary it knows of.
Read(n) == IF MayRead(n) \/ up[n] # "yes" \/ knows[n] = "no" THEN ReadLocal(n)
                                                           ELSE ReadLocal(Primary)

\* Another write of block b, which began when v was over, has been answered with
\* success, and its append has not failed.
Superseded(v, b) ==
    \E w \in Write :
        /\ v \in before[w] /\ b <= requests[w].size
        /\ requests[w].phase = "done" /\ requests[w].logged = "yes"

\* No read, at any node, returns in any block data that an answered write has
\* replaced there: not after writes that overlap or fail half-way, nor when a log
\* is replayed, or half replayed twice, over the file, nor from a node that has been
\* told its role again; unless the replay skipped a record it could not write.  (A
\* shorter write does not replace the end of a longer one.)
ReadsCurrent ==
    skipped[Primary] = "no" =>
        \A n \in Node, b \in Block : Read(n)[b] # 0 => ~Superseded(Read(n)[b], b)

\* The versions that answers carry tell the writes of one life of the primary
\* apart, and grow from a write to those that follow it.
VersionsGrow ==
    \A v, w \in Write :
        /\ v # w
        /\ requests[v].phase = "done" /\ requests[w].phase = "done"
        /\ requests[v].at = requests[w].at /\ requests[v].life = requests[w].life
        => /\ requests[v].version # requests[w].version
           /\ v \in before[w] => requests[v].version < requests[w].version

\* Write-ahead, block by block: the data in the file of any node, copies, pieces of
\* failed writes and what a replay has put there included, have a record in the log
\* of the node that took the write, unless that append failed.  (A replay reads
\* nothing of a log that has a torn record as well.)
StoredIsLogged ==
    \A n \in Node, b \in Block : storage[n][b] # 0 =>
        LET r == requests[storage[n][b]]
        IN  storage[n][b] \in ToSet(walLog[r.at]) \/ r.logged = "failed"

\* A write that came through a proxy is never sent on, although the proxy looks at the
\* role, the list and the connection one after the other: the node it was sent to is
\* the primary, or will not be told of one.
ProxiedOnce == \A w \in Write : requests[w].hops <= 1

\* Every write is over in the end, whatever fails, but for one that was forwarded to
\* a node which listens and does not accept.
AllOver ==
    \A w \in Write :
        requests[w].phase # "none" ~>
            \/ requests[w].phase \in Over
            \/ requests[w].phase = "forwarded" /\ up[Primary] = "starting"

\* When the primary knows its replicas as it finishes a write, they all hold a
\* copy of the chunk in the end, if no process ends and no copy is lost.
Disturbed == drops > 0 \/ \E n \in Node : up[n] # "yes" \/ lives[n] > 1
Replicated ==
    \A w \in Write, n \in Secondary :
        (w \in spawned /\ requests[w].at = Primary /\ knows[Primary] = "yes")
            ~> (chunk[n] # NoChunk \/ Disturbed)
=============================================================================

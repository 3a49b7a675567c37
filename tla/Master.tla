------------------------------- MODULE Master -------------------------------
(***************************************************************************)
(* The single master (src/internal/master/master.go) and its replica       *)
(* manager (src/internal/master/replica_manager.go).  All its metadata is  *)
(* in memory, under one mutex; a goroutine per node that is declared       *)
(* offline goes through the chunks of that node, one at a time under the   *)
(* mutex, and all of these goroutines take turns at a second mutex, which  *)
(* each holds from its first to its last step.                             *)
(*                                                                         *)
(* The roles of a new chunk's replicas are sent to the data nodes, once,   *)
(* by goroutines that touch nothing of the master; what a data node does   *)
(* with them is in ChunkReplication.  An election is kept from all of the  *)
(* data nodes.                                                             *)
(*                                                                         *)
(* Handlers that only read (GET, LIST, STATUS) are left out, as are sizes, *)
(* checksums and times: a node is late when its last heartbeat is, which   *)
(* may be the case for any online node at any time.                        *)
(*                                                                         *)
(* AllocAnyway, CandidatesAny, ElectedBesideOld and RecoveredUnlessBack    *)
(* are mutants that PROJECT.json puts in the place of what follows them.   *)
(***************************************************************************)
EXTENDS Naturals, Sequences, FiniteSets

CONSTANTS
    DataNode,
    File,          \* file IDs; each is made up, once, by the PUT that uses it
    ReplicaCount,  \* replicas of a chunk, MasterConfig.ReplicaCount
    MaxChunks,     \* bound: chunks of a file
    MaxDeclared    \* bound: declarations that a node is offline

ASSUME NodesAssumption == IsFiniteSet(DataNode) /\ DataNode # {}
ASSUME CountsAssumption ==
    /\ ReplicaCount \in Nat \ {0}
    /\ MaxChunks \in Nat \ {0}
    /\ MaxDeclared \in Nat

VARIABLES
    datanodes,   \* Master.datanodes: the status of each, "unknown" for no entry
    requests,    \* how far the client's PUT of each file has come
    files,       \* Master.files: the ChunkIDs of each
    chunks,      \* Master.chunks: the replicas of each, <<>> for no entry
    declared,    \* how often a node was declared offline
    waiting,     \* HandleNodeOffline goroutines of each node before rm.mu
    working,     \* the one that holds rm.mu
    running      \* "yes" while there is a process and its mutex guards

master   == <<datanodes, requests, files, chunks, declared>>
recovery == <<waiting, working>>
vars     == <<master, recovery, running>>

Chunk   == File \X (0 .. MaxChunks - 1)
Role    == {"PRIMARY", "SECONDARY"}
Replica == [node : DataNode, role : Role, status : {"HEALTHY", "OFFLINE"}]

Nobody == [node |-> CHOOSE n \in DataNode : TRUE, phase |-> "none", todo |-> {}]

\* The types, and of every known chunk as many replicas as configured.
TypeOK ==
    /\ datanodes \in [DataNode -> {"unknown", "online", "offline"}]
    /\ requests \in [File -> {"none", "put", "allocated", "refused"}]
    /\ files \in [File -> Seq(Chunk)]
    /\ chunks \in [Chunk -> {<<>>} \cup [1 .. ReplicaCount -> Replica]]
    /\ declared \in Nat
    /\ waiting \in [DataNode -> Nat]
    /\ working \in [node : DataNode, phase : {"none", "find", "recover"}, todo : SUBSET Chunk]
    /\ running \in {"yes", "ended", "unguarded"}

Init ==
    /\ datanodes = [n \in DataNode |-> "unknown"]
    /\ requests = [f \in File |-> "none"]
    /\ files = [f \in File |-> <<>>]
    /\ chunks = [c \in Chunk |-> <<>>]
    /\ declared = 0
    /\ waiting = [n \in DataNode |-> 0]
    /\ working = Nobody
    /\ running = "yes"

Online == {n \in DataNode : datanodes[n] = "online"}

-----------------------------------------------------------------------------
\* Data nodes as the master sees them.

Register(n) ==
    /\ running = "yes"
    /\ datanodes' = [datanodes EXCEPT ![n] = "online"]
    /\ UNCHANGED <<requests, files, chunks, declared, recovery, running>>

\* The heartbeat of a node that is not registered is answered and ignored.
Heartbeat(n) ==
    /\ running = "yes"
    /\ datanodes[n] = "offline"
    /\ datanodes' = [datanodes EXCEPT ![n] = "online"]
    /\ UNCHANGED <<requests, files, chunks, declared, recovery, running>>

\* checkDataNodes: every late online node, and a goroutine for each.
CheckDataNodes(late) ==
    /\ running = "yes"
    /\ late # {} /\ late \subseteq Online
    /\ declared + Cardinality(late) <= MaxDeclared
    /\ datanodes' = [n \in DataNode |-> IF n \in late THEN "offline" ELSE datanodes[n]]
    /\ declared' = declared + Cardinality(late)
    /\ waiting' = [n \in DataNode |-> waiting[n] + (IF n \in late THEN 1 ELSE 0)]
    /\ UNCHANGED <<requests, files, chunks, working, running>>

-----------------------------------------------------------------------------
\* The client's PUT: the file, then its chunks.

PutFile(f) ==
    /\ running = "yes"
    /\ requests[f] = "none"
    /\ requests' = [requests EXCEPT ![f] = "put"]
    /\ UNCHANGED <<datanodes, files, chunks, declared, recovery, running>>

\* availableNodes: the online nodes in the order in which Go walks a map.
Orders ==
    {o \in [1 .. Cardinality(Online) -> Online] :
        \A i, j \in 1 .. Cardinality(Online) : o[i] = o[j] => i = j}

RoleAt(j) == IF j = 1 THEN "PRIMARY" ELSE "SECONDARY"

Smaller(a, b) == IF a < b THEN a ELSE b

\* The replicas of the i-th chunk of a file.
Placement(order, i) ==
    [j \in 1 .. Smaller(ReplicaCount, Len(order)) |->
        [node   |-> order[((i + j - 1) % Len(order)) + 1],
         role   |-> RoleAt(j),
         status |-> "HEALTHY"]]

AllocAnyway(f) ==
    /\ running = "yes"
    /\ requests[f] = "put"
    /\ Online # {}
    /\ \E order \in Orders, count \in 1 .. MaxChunks :
         /\ chunks' = [c \in Chunk |->
                IF c[1] = f /\ c[2] < count THEN Placement(order, c[2]) ELSE chunks[c]]
         /\ files' = [files EXCEPT ![f] = @ \o [k \in 1 .. count |-> <<f, k - 1>>]]
    /\ requests' = [requests EXCEPT ![f] = "allocated"]
    /\ UNCHANGED <<datanodes, declared, recovery, running>>

AllocChunk(f) ==
    /\ running = "yes"
    /\ requests[f] = "put"
    /\ Cardinality(Online) >= ReplicaCount
    /\ \E order \in Orders, count \in 1 .. MaxChunks :
         /\ chunks' = [c \in Chunk |->
                IF c[1] = f /\ c[2] < count THEN Placement(order, c[2]) ELSE chunks[c]]
         /\ files' = [files EXCEPT ![f] = @ \o [k \in 1 .. count |-> <<f, k - 1>>]]
    /\ requests' = [requests EXCEPT ![f] = "allocated"]
    /\ UNCHANGED <<datanodes, declared, recovery, running>>

\* Too few nodes: the mutex is unlocked, and the handler goes on to its answer.
RefuseAlloc(f) ==
    /\ running = "yes"
    /\ requests[f] = "put"
    /\ Cardinality(Online) < ReplicaCount
    /\ requests' = [requests EXCEPT ![f] = "refused"]
    /\ UNCHANGED <<datanodes, files, chunks, declared, recovery, running>>

\* It unlocks the mutex once more.  If no goroutine has it for writing, this is fatal
\* to the process; if one has, it goes on without the mutex beside the next that
\* locks it, and no step of either is one step any more: the model ends there.
UnlockAgain(f) ==
    /\ running = "yes"
    /\ requests[f] = "refused"
    /\ running' \in {"ended", "unguarded"}
    /\ UNCHANGED <<master, recovery>>

-----------------------------------------------------------------------------
\* HandleNodeOffline.

\* The mutex of the replica manager.
BeginRecovery(n) ==
    /\ running = "yes"
    /\ working.phase = "none"
    /\ waiting[n] > 0
    /\ waiting' = [waiting EXCEPT ![n] = @ - 1]
    /\ working' = [node |-> n, phase |-> "find", todo |-> {}]
    /\ UNCHANGED <<master, running>>

\* The goroutine goes on with these chunks, or ends and unlocks.
WorkOn(todo) ==
    working' = IF todo = {} THEN Nobody
                            ELSE [working EXCEPT !.phase = "recover", !.todo = todo]

FindChunks ==
    /\ running = "yes"
    /\ working.phase = "find"
    /\ WorkOn({c \in Chunk : \E i \in DOMAIN chunks[c] : chunks[c][i].node = working.node})
    /\ UNCHANGED <<master, waiting, running>>

CandidatesAny(replicas) == {i \in DOMAIN replicas : replicas[i].role = "SECONDARY"}

Candidates(replicas) ==
    {i \in DOMAIN replicas : replicas[i].status = "HEALTHY" /\ replicas[i].role = "SECONDARY"}

First(s) == CHOOSE i \in s : \A j \in s : i <= j

ElectedBesideOld(replicas) ==
    IF Candidates(replicas) = {} THEN replicas
    ELSE [replicas EXCEPT ![First(Candidates(replicas))].role = "PRIMARY"]

\* electNewPrimary: the highest Version wins; no replica's is ever set, so it
\* is the first of the candidates.
Elected(replicas) ==
    IF Candidates(replicas) = {} THEN replicas
    ELSE [i \in DOMAIN replicas |->
            [replicas[i] EXCEPT !.role =
                IF i = First(Candidates(replicas)) THEN "PRIMARY" ELSE "SECONDARY"]]

RecoveredUnlessBack(replicas, n) ==
    IF datanodes[n] = "online" THEN replicas
    ELSE Elected([i \in DOMAIN replicas |->
            IF replicas[i].node = n THEN [replicas[i] EXCEPT !.status = "OFFLINE"] ELSE replicas[i]])

\* handleChunkRecovery: the replicas on the node are marked, and if one of them
\* was the primary another is chosen.
Recovered(replicas, n) ==
    LET marked == [i \in DOMAIN replicas |->
            IF replicas[i].node = n THEN [replicas[i] EXCEPT !.status = "OFFLINE"] ELSE replicas[i]]
        led == \E i \in DOMAIN replicas : replicas[i].node = n /\ replicas[i].role = "PRIMARY"
    IN  IF led THEN Elected(marked) ELSE marked

RecoverChunk(c) ==
    /\ running = "yes"
    /\ c \in working.todo
    /\ chunks' = [chunks EXCEPT ![c] = Recovered(@, working.node)]
    /\ WorkOn(working.todo \ {c})
    /\ UNCHANGED <<datanodes, requests, files, declared, waiting, running>>

-----------------------------------------------------------------------------
DataNodeStep ==
    \/ \E n \in DataNode : Register(n) \/ Heartbeat(n)
    \/ \E late \in SUBSET DataNode : CheckDataNodes(late)

ClientStep == \E f \in File : PutFile(f) \/ AllocChunk(f) \/ RefuseAlloc(f) \/ UnlockAgain(f)

RecoveryStep ==
    \/ FindChunks
    \/ \E n \in DataNode : BeginRecovery(n)
    \/ \E c \in Chunk : RecoverChunk(c)

Next == DataNodeStep \/ ClientStep \/ RecoveryStep

Spec == Init /\ [][Next]_vars

\* The goroutines of the replica manager are run, and Go's mutex is given to each
\* that waits for it in the end.
LiveSpec ==
    /\ Spec
    /\ WF_vars(FindChunks)
    /\ WF_vars(\E c \in Chunk : RecoverChunk(c))
    /\ \A n \in DataNode : SF_vars(BeginRecovery(n))

-----------------------------------------------------------------------------
Primaries(c) == {i \in DOMAIN chunks[c] : chunks[c][i].role = "PRIMARY"}

\* Every chunk has one primary, while goroutines for several of its nodes, and
\* several for the same node, mark its replicas and choose a new one.
OnePrimary ==
    \A c \in Chunk : chunks[c] # <<>> => \E i \in DOMAIN chunks[c] : Primaries(c) = {i}

\* As long as a replica of a chunk is not marked offline, the primary is such a
\* one: no order of nodes going offline and coming back leaves the chunk with an
\* offline primary and a healthy secondary that nobody elects.
PrimaryHealthy ==
    \A c \in Chunk : \A i \in Primaries(c) :
        chunks[c][i].status = "OFFLINE" =>
            \A j \in DOMAIN chunks[c] : chunks[c][j].status = "OFFLINE"

\* A chunk has as many replicas as are configured, each on a node of its own, while
\* the list they are chosen from varies with the nodes that come and go, and the walk
\* over it starts at another place for every chunk of a file.
ReplicasSpread ==
    \A c \in Chunk : chunks[c] # <<>> =>
        /\ Len(chunks[c]) = ReplicaCount
        /\ Cardinality({chunks[c][i].node : i \in 1 .. ReplicaCount}) = ReplicaCount

\* When a node is declared offline, the replicas it has are marked in the end,
\* also when it is back before the goroutine runs, unless the mutex is unlocked twice
\* before.
HealthyOn(c, n) ==
    \E i \in DOMAIN chunks[c] : chunks[c][i].node = n /\ chunks[c][i].status = "HEALTHY"

DeclaredMarked ==
    \A n \in DataNode, c \in Chunk :
        (waiting[n] > 0 /\ HealthyOn(c, n)) ~> (~HealthyOn(c, n) \/ running # "yes")
=============================================================================

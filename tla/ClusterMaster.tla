--------------------------- MODULE ClusterMaster ---------------------------
(***************************************************************************)
(* The handlers of a master of the cluster, cluster_master.go, on top of   *)
(* MetadataLog, with the clients and data nodes that call them.            *)
(*                                                                         *)
(* A client uploads one file: PUT_FILE, then ALLOC_CHUNK on the same       *)
(* connection, each answered before it goes on, and no retry.  handlePut   *)
(* and handleRegister make one Propose and answer by its error.            *)
(* handleAllocChunk holds no lock: it begins with the online nodes, right  *)
(* after the role was looked at, and proposes one command per chunk; in    *)
(* between the master may be deposed, elected again, or apply commands.    *)
(*                                                                         *)
(* A data node registers once, when it starts, and sends heartbeats, both  *)
(* with the one master its configuration names.  Whether a heartbeat is    *)
(* late is a matter of time, which is not modelled: the checker of a       *)
(* leader may find any node late at any moment.  A round of the checker    *)
(* that outlasts its master's leadership is one that ends just before.     *)
(* Reads change nothing.                                                   *)
(*                                                                         *)
(* NodesThatCalled and AllocCommandUnrotated are mutants that PROJECT.json *)
(* puts in the place of what follows them.                                 *)
(***************************************************************************)
EXTENDS MetadataLog, SequencesExt

CONSTANTS
    DataNode,
    File,           \* file IDs; each is made up, once, by the PUT that uses it
    MasterOf,       \* the master each data node's configuration names
    ReplicaCount,
    MaxChunks       \* bound: chunks of a file

ASSUME ClusterAssumption ==
    /\ IsFiniteSet(DataNode) /\ MasterOf \in [DataNode -> Master]
    /\ {ReplicaCount, MaxChunks} \subseteq Nat \ {0}

VARIABLES
    started,    \* the data nodes that have sent their registration
    upload      \* per file, how far its client is

vars == <<logVars, smVars, started, upload>>

\* Phases of an upload.  In "allocating", "next" is the chunk to be proposed, counted
\* from 0 as in the code; "answered" is the answer with Success set.
Waiting == [phase |-> "waiting"]
Created(m) == [phase |-> "created", master |-> m]
Refused == [phase |-> "refused"]
Allocation == [phase : {"allocating", "answered"}, master : Master,
               nodes : Seq(DataNode), count : 1..MaxChunks, next : 0..MaxChunks]

Register(n) ==
    /\ n \notin started
    /\ started'  = started \cup {n}
    /\ branches' = Proposed(MasterOf[n], [type |-> "REGISTER_NODE", node |-> n])
    /\ UNCHANGED <<committed, known, leading, smVars, upload>>

Heartbeat(n) ==
    /\ n \in started
    /\ sm' = [sm EXCEPT ![MasterOf[n]] = UpdateNodeHeartbeat(@, n)]
    /\ UNCHANGED <<logVars, cursor, requeues, started, upload>>

CheckDataNode(m, n) ==
    /\ IsLeader(m)
    /\ n \in OnlineNodes(sm[m])
    /\ sm' = [sm EXCEPT ![m] = SetNodeOffline(@, n)]
    /\ UNCHANGED <<logVars, cursor, requeues, started, upload>>

\* A master that does not lead refuses, or its Propose errs: the client gives up.
PutFile(m, f) ==
    /\ upload[f] = Waiting
    /\ branches' = Proposed(m, [type |-> "CREATE_FILE", file |-> f])
    /\ upload'   = [upload EXCEPT ![f] = IF IsLeader(m) THEN Created(m) ELSE Refused]
    /\ UNCHANGED <<committed, known, leading, smVars, started>>

NodesThatCalled(m) == {n \in started : MasterOf[n] = m}
NodesToChoose(m)   == OnlineNodes(sm[m])

\* The role is looked at and the online nodes are read, in the order of a map.
BeginAlloc(f) ==
    /\ upload[f].phase = "created"
    /\ LET m      == upload[f].master
           online == NodesToChoose(m)
       IN  IF ~IsLeader(m) \/ Cardinality(online) < ReplicaCount
           THEN upload' = [upload EXCEPT ![f] = Refused]
           ELSE \E nodes \in SetToSeqs(online), count \in 1..MaxChunks :
                  upload' = [upload EXCEPT ![f] =
                    [phase |-> "allocating", master |-> m,
                     nodes |-> nodes, count |-> count, next |-> 0]]
    /\ UNCHANGED <<logVars, smVars, started>>

Selected(nodes, i) ==
    [j \in 1..ReplicaCount |-> nodes[((i + j - 1) % Len(nodes)) + 1]]

AllocCommandUnrotated(f, a) ==
    [type |-> "ALLOC_CHUNK", file |-> f, index |-> a.next, replicas |-> Selected(a.nodes, 0)]
AllocCommand(f, a) ==
    [type |-> "ALLOC_CHUNK", file |-> f, index |-> a.next, replicas |-> Selected(a.nodes, a.next)]

\* The error of Propose is dropped: the loop goes on to the next chunk.
AllocNext(f) ==
    /\ upload[f].phase = "allocating"
    /\ LET a == upload[f]
       IN  /\ branches' = Proposed(a.master, AllocCommand(f, a))
           /\ upload'   = [upload EXCEPT ![f].next = @ + 1,
                             ![f].phase = IF a.next + 1 = a.count THEN "answered" ELSE @]
    /\ UNCHANGED <<committed, known, leading, smVars, started>>

-----------------------------------------------------------------------------
Init ==
    /\ LogInit
    /\ started = {}
    /\ upload  = [f \in File |-> Waiting]

RaftStep ==
    /\ \E m \in Master : \/ Elect(m) \/ StepDown(m) \/ Commit(m) \/ Learn(m)
                         \/ Deliver(m) \/ Requeue(m)
    /\ UNCHANGED <<started, upload>>

DataNodeStep ==
    \E n \in DataNode : Register(n) \/ Heartbeat(n) \/ \E m \in Master : CheckDataNode(m, n)

ClientStep ==
    \E f \in File : BeginAlloc(f) \/ AllocNext(f) \/ \E m \in Master : PutFile(m, f)

Next == RaftStep \/ DataNodeStep \/ ClientStep

Spec == Init /\ [][Next]_vars

-----------------------------------------------------------------------------
Command ==
    [type : {"REGISTER_NODE"}, node : DataNode]
    \cup [type : {"CREATE_FILE"}, file : File]
    \cup [type : {"ALLOC_CHUNK"}, file : File, index : 0..(MaxChunks - 1),
          replicas : Seq(DataNode)]

\* The types of the masters' logs and metadata, and of what clients wait for.
TypeOK ==
    /\ branches \in Seq(Seq(Command)) /\ Len(branches) <= MaxElections
    /\ committed \in Seq(Command)
    /\ leading \in [Master -> 0..Len(branches)]
    /\ known \in [Master -> 0..Len(committed)]
    /\ cursor \in [Master -> 1..(Len(committed) + 1)]
    /\ \A m \in Master : cursor[m] <= known[m] + 1
    /\ requeues \in [Master -> 0..MaxRequeues]
    /\ \A m \in Master :
         /\ DOMAIN sm[m].files \subseteq File
         /\ DOMAIN sm[m].chunks \subseteq File \X (0..(MaxChunks - 1))
         /\ DOMAIN sm[m].datanodes \subseteq DataNode
    /\ started \subseteq DataNode
    /\ \A f \in File : \/ upload[f] \in {Waiting, Refused} \cup {Created(m) : m \in Master}
                       \/ upload[f] \in Allocation

(***************************************************************************)
(* Metadata.                                                               *)
(***************************************************************************)
Settled(m) == cursor[m] = Len(committed) + 1

\* The metadata after the first n commands of a log, each applied once.
Replay(lg) ==
    LET after[n \in 0..Len(lg)] ==
          IF n = 0 THEN NoMetadata ELSE Apply(after[n - 1], lg[n])
    IN  after

Replayed == Replay(committed)[Len(committed)]

\* The first n elements of a sequence without the repetitions, and all of them.
FirstsOf(s) ==
    LET kept[n \in 0..Len(s)] ==
          IF n = 0 THEN <<>>
          ELSE IF s[n] \in InSeq(kept[n - 1]) THEN kept[n - 1] ELSE Append(kept[n - 1], s[n])
    IN  kept

Firsts(s) == FirstsOf(s)[Len(s)]

\* A master whose queue is drained has the metadata the log stands for, although it
\* may have been fed some commands again and its checker and its heartbeats are its
\* own: the same nodes, chunks and files, and each file's chunks in the same order,
\* of which it may list some again.
SettledAsCommitted ==
    \A m \in Master : Settled(m) =>
        /\ sm[m].chunks = Replayed.chunks
        /\ DOMAIN sm[m].datanodes = DOMAIN Replayed.datanodes
        /\ [f \in DOMAIN sm[m].files |-> Firsts(sm[m].files[f])] = Replayed.files

\* At every moment, also half-way through being fed again, what a file lists are
\* chunks the master knows, and chunks of that file.
RefsSound ==
    \A m \in Master : \A f \in DOMAIN sm[m].files : \A c \in InSeq(sm[m].files[f]) :
        c \in DOMAIN sm[m].chunks /\ sm[m].chunks[c].file = f

\* A chunk has as many replicas as configured, on different nodes, each of which
\* the same master knows: whoever reads the chunk's place finds the addresses, on
\* masters other than the one that read its own list of nodes to choose them.
ReplicasKnown ==
    \A m \in Master : \A c \in DOMAIN sm[m].chunks :
        LET rs == sm[m].chunks[c].replicas
        IN  /\ Len(rs) = ReplicaCount
            /\ Cardinality(InSeq(rs)) = ReplicaCount
            /\ InSeq(rs) \subseteq DOMAIN sm[m].datanodes

\* Once a master knows a chunk it keeps it, with the replicas it was given: neither
\* a new leader nor a command fed again moves it.
ChunksStay ==
    [][\A m \in Master : \A c \in DOMAIN sm[m].chunks :
         /\ c \in DOMAIN sm'[m].chunks
         /\ sm'[m].chunks[c].replicas = sm[m].chunks[c].replicas]_vars

\* A client that has been told of its chunks was told the replicas that every master
\* which knows the chunk has: data is written where readers will look for it.
ToldAsRecorded ==
    \A m \in Master : \A f \in File : upload[f] \in Allocation =>
        \A i \in 0..(upload[f].next - 1) : ChunkID(f, i) \in DOMAIN sm[m].chunks =>
            sm[m].chunks[ChunkID(f, i)].replicas = Selected(upload[f].nodes, i)

\* An allocation that was answered with success is not lost: each chunk is on a
\* branch that a leader has or may still start from.
AllocationKept ==
    \A f \in File : upload[f].phase = "answered" =>
        \A i \in 0..(upload[f].count - 1) : \E lg \in Inherited : \E k \in 1..Len(lg) :
            lg[k].type = "ALLOC_CHUNK" /\ lg[k].file = f /\ lg[k].index = i

\* applyLoop keeps running on every master.
DeliverySpec == Spec /\ \A m \in Master : WF_vars(Deliver(m) /\ UNCHANGED <<started, upload>>)

\* The metadata that the log stands for as far as the node of m knows it committed.
KnownTo(m) == Replay(committed)[known[m]]

\* With nothing but that, a chunk that a master's own node knows to be committed is in
\* the end in its metadata, although the queue may be fed again before it gets there.
ChunksArrive ==
    \A m \in Master, f \in File, i \in 0..(MaxChunks - 1) :
        (ChunkID(f, i) \in DOMAIN KnownTo(m).chunks)
            ~> (ChunkID(f, i) \in DOMAIN sm[m].chunks)
=============================================================================

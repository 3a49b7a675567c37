------------------------ MODULE ClusterMasterProofs ------------------------
(***************************************************************************)
(* Theorems about ClusterMaster and the metadata commands.                 *)
(*                                                                         *)
(*   ApplySound          each command keeps references sound               *)
(*   ClusterTypeCorrect  Spec => []TypeOK                                  *)
(*   ReferencesSound     Spec => []RefsSound                               *)
(*   ChunksPlaced        Spec => []ReplicasKnown                           *)
(*   ClientsToldRight    Spec => []ToldAsRecorded                          *)
(*   ChunksStayPut       Spec => ChunksStay                                *)
(*   SettledMatchesLog   Spec => []SettledAsCommitted                      *)
(***************************************************************************)
EXTENDS ClusterMaster, Rotation, FiniteSetTheorems, WellFoundedInduction, TLAPS

\* The types of metadata and of all six commands, the three that no handler
\* proposes included.
Chunk     == File \X (0..(MaxChunks - 1))
ChunkInfo == [file : File, content : {Unset} \cup STRING, replicas : Seq(DataNode)]

FileTable  == UNION {[S -> Seq(Chunk)] : S \in SUBSET File}
ChunkTable == UNION {[S -> ChunkInfo] : S \in SUBSET Chunk}
NodeTable  == UNION {[S -> {Online, Offline}] : S \in SUBSET DataNode}
Metadata   == [files : FileTable, chunks : ChunkTable, datanodes : NodeTable]

AnyCommand ==
    Command
    \cup [type : {"UNREGISTER_NODE"}, node : DataNode]
    \cup [type : {"DELETE_FILE"}, file : File]
    \cup [type : {"UPDATE_CHUNK"}, chunk : Chunk, content : STRING]

Refs(s) ==
    \A f \in DOMAIN s.files : \A c \in InSeq(s.files[f]) :
        c \in DOMAIN s.chunks /\ s.chunks[c].file = f

\* RefsSound is not inductive: an allocation would replace a chunk that another
\* file lists, if an ID could belong to two files.  It names its file.
Named(s) == \A c \in DOMAIN s.chunks : s.chunks[c].file = c[1]

Sound(s) == s \in Metadata /\ Refs(s) /\ Named(s)

-----------------------------------------------------------------------------
\* Assignment to a map keeps its type.
LEMMA PutTyped ==
    ASSUME NEW K, NEW V, NEW S \in SUBSET K, NEW t \in [S -> V], NEW k \in K, NEW v \in V
    PROVE  /\ Put(t, k, v) \in [S \cup {k} -> V]
           /\ S \cup {k} \in SUBSET K
  BY DEF Put

\* Appending lists one chunk more and no other.
LEMMA AppendLists ==
    ASSUME NEW S, NEW s \in Seq(S), NEW x \in S
    PROVE  Append(s, x) \in Seq(S) /\ InSeq(Append(s, x)) = InSeq(s) \cup {x}
  <1>1. Append(s, x) \in Seq(S) /\ Len(Append(s, x)) = Len(s) + 1
    OBVIOUS
  <1>2. \A i \in 1..Len(s) : Append(s, x)[i] = s[i]
    OBVIOUS
  <1>3. Append(s, x)[Len(s) + 1] = x
    OBVIOUS
  <1>4. 1..(Len(s) + 1) = (1..Len(s)) \cup {Len(s) + 1}
    OBVIOUS
  <1> QED BY <1>1, <1>2, <1>3, <1>4 DEF InSeq

\* A list has no elements but those of its type.
LEMMA ListTyped ==
    ASSUME NEW S, NEW s \in Seq(S)
    PROVE  InSeq(s) \subseteq S
  BY DEF InSeq

-----------------------------------------------------------------------------
(***************************************************************************)
(* Each command, and each update outside the log, keeps metadata sound.    *)
(***************************************************************************)

\* What only touches the data nodes cannot break a reference.
LEMMA NodesDoNotMatter ==
    ASSUME NEW s, Sound(s), NEW t \in NodeTable
    PROVE  Sound([s EXCEPT !.datanodes = t])
  BY DEF Sound, Metadata, Refs, Named

\* Neither does a status that is set.
LEMMA NodeStatusSound ==
    ASSUME NEW s, Sound(s), NEW n \in DataNode, NEW v \in {Online, Offline}
    PROVE  /\ Sound([s EXCEPT !.datanodes = Put(@, n, v)])
           /\ n \in DOMAIN s.datanodes => Sound([s EXCEPT !.datanodes[n] = v])
  <1> DEFINE t == s.datanodes
  <1>1. PICK S \in SUBSET DataNode : t \in [S -> {Online, Offline}]
    BY DEF Sound, Metadata, NodeTable
  <1>2. Put(t, n, v) \in NodeTable
    <2>1. /\ Put(t, n, v) \in [S \cup {n} -> {Online, Offline}]
          /\ S \cup {n} \in SUBSET DataNode
      BY <1>1 DEF Put
    <2> QED BY <2>1 DEF NodeTable
  <1>3. [t EXCEPT ![n] = v] \in NodeTable
    BY <1>1 DEF NodeTable
  <1>4. [s EXCEPT !.datanodes[n] = v] = [s EXCEPT !.datanodes = [t EXCEPT ![n] = v]]
    OBVIOUS
  <1> QED BY <1>2, <1>3, <1>4, NodesDoNotMatter

\* A file made anew lists nothing.
LEMMA CreateFileSound ==
    ASSUME NEW s, Sound(s), NEW cmd, cmd.file \in File
    PROVE  Sound(CreateFile(s, cmd))
  <1> DEFINE t == Put(s.files, cmd.file, <<>>)
  <1>1. PICK S \in SUBSET File : s.files \in [S -> Seq(Chunk)]
    BY DEF Sound, Metadata, FileTable
  <1>2. <<>> \in Seq(Chunk) /\ InSeq(<<>>) = {}
    BY DEF InSeq
  <1>3. t \in [S \cup {cmd.file} -> Seq(Chunk)] /\ S \cup {cmd.file} \in SUBSET File
    BY <1>1, <1>2, PutTyped
  <1>4. CreateFile(s, cmd) \in Metadata
    BY <1>3 DEF CreateFile, Sound, Metadata, FileTable
  <1>5. /\ CreateFile(s, cmd).files = t
        /\ CreateFile(s, cmd).chunks = s.chunks
    BY DEF CreateFile, Sound, Metadata
  <1>6. \A f \in DOMAIN t : f = cmd.file \/ (f \in DOMAIN s.files /\ t[f] = s.files[f])
    BY DEF Put
  <1>7. t[cmd.file] = <<>>
    BY DEF Put
  <1>8. Refs(CreateFile(s, cmd))
    BY <1>2, <1>5, <1>6, <1>7 DEF Sound, Refs
  <1> QED BY <1>4, <1>5, <1>8 DEF Sound, Named

\* The chunks that go with a file are its own: no other file lists them.
LEMMA DeleteFileSound ==
    ASSUME NEW s, Sound(s), NEW cmd, cmd.file \in File
    PROVE  Sound(DeleteFile(s, cmd))
  <1>1. CASE cmd.file \notin DOMAIN s.files
    BY <1>1 DEF DeleteFile
  <1>2. CASE cmd.file \in DOMAIN s.files
    <2> DEFINE gone == InSeq(s.files[cmd.file])
               fs   == Delete(s.files, {cmd.file})
               cs   == Delete(s.chunks, gone)
    <2>1. PICK S \in SUBSET File : s.files \in [S -> Seq(Chunk)]
      BY DEF Sound, Metadata, FileTable
    <2>2. PICK T \in SUBSET Chunk : s.chunks \in [T -> ChunkInfo]
      BY DEF Sound, Metadata, ChunkTable
    <2>3. /\ fs \in [S \ {cmd.file} -> Seq(Chunk)] /\ S \ {cmd.file} \in SUBSET File
          /\ \A f \in S \ {cmd.file} : fs[f] = s.files[f]
      BY <2>1 DEF Delete, Restrict
    <2>4. /\ cs \in [T \ gone -> ChunkInfo] /\ T \ gone \in SUBSET Chunk
          /\ \A c \in T \ gone : cs[c] = s.chunks[c]
      BY <2>2 DEF Delete, Restrict
    <2>5. DeleteFile(s, cmd) = [s EXCEPT !.files = fs, !.chunks = cs]
      BY <1>2 DEF DeleteFile
    <2>6. fs \in FileTable /\ cs \in ChunkTable
      BY <2>3, <2>4 DEF FileTable, ChunkTable
    <2>7. /\ DeleteFile(s, cmd) \in Metadata
          /\ DeleteFile(s, cmd).files = fs
          /\ DeleteFile(s, cmd).chunks = cs
      BY <2>5, <2>6 DEF Sound, Metadata
    <2>8. ASSUME NEW f \in DOMAIN fs, NEW c \in InSeq(fs[f])
          PROVE  c \in DOMAIN cs /\ cs[c].file = f
      <3>1. f \in S /\ f # cmd.file /\ fs[f] = s.files[f]
        BY <2>3
      <3>2. c \in T /\ s.chunks[c].file = f
        BY <2>1, <2>2, <3>1 DEF Sound, Refs
      <3>3. c \notin gone
        BY <1>2, <3>1, <3>2 DEF Sound, Refs
      <3> QED BY <2>4, <3>2, <3>3
    <2>9. \A c \in DOMAIN cs : cs[c].file = c[1]
      BY <2>2, <2>4 DEF Sound, Named
    <2> QED BY <2>7, <2>8, <2>9 DEF Sound, Refs, Named
  <1> QED BY <1>1, <1>2

\* The chunk is listed by its own file only, and stays with that file when replaced.
LEMMA AllocChunkSound ==
    ASSUME NEW s, Sound(s), NEW cmd,
           cmd.file \in File, cmd.index \in 0..(MaxChunks - 1), cmd.replicas \in Seq(DataNode)
    PROVE  Sound(AllocChunk(s, cmd))
  <1> DEFINE id    == ChunkID(cmd.file, cmd.index)
             chunk == [file |-> cmd.file, content |-> Unset, replicas |-> cmd.replicas]
             cs    == Put(s.chunks, id, chunk)
             fs    == IF cmd.file \in DOMAIN s.files
                      THEN [s.files EXCEPT ![cmd.file] = Append(s.files[cmd.file], id)]
                      ELSE s.files
  <1>1. PICK S \in SUBSET File : s.files \in [S -> Seq(Chunk)]
    BY DEF Sound, Metadata, FileTable
  <1>2. PICK T \in SUBSET Chunk : s.chunks \in [T -> ChunkInfo]
    BY DEF Sound, Metadata, ChunkTable
  <1>3. /\ id \in Chunk /\ id[1] = cmd.file
        /\ chunk \in ChunkInfo /\ chunk.file = cmd.file
    <2>1. id \in Chunk /\ id[1] = cmd.file
      BY DEF ChunkID, Chunk
    <2>2. chunk \in ChunkInfo /\ chunk.file = cmd.file
      BY DEF ChunkInfo
    <2> QED BY <2>1, <2>2
  <1>4. /\ cs \in [T \cup {id} -> ChunkInfo] /\ T \cup {id} \in SUBSET Chunk
        /\ cs[id] = chunk
        /\ \A c \in T \ {id} : cs[c] = s.chunks[c]
    BY <1>2, <1>3, PutTyped DEF Put
  <1>5. fs \in [S -> Seq(Chunk)]
    BY <1>1, <1>3, AppendLists
  <1>6. AllocChunk(s, cmd) = [s EXCEPT !.chunks = cs, !.files = fs]
    BY DEF AllocChunk
  <1>7. cs \in ChunkTable /\ fs \in FileTable
    BY <1>1, <1>4, <1>5 DEF ChunkTable, FileTable
  <1>8. /\ AllocChunk(s, cmd) \in Metadata
        /\ AllocChunk(s, cmd).files = fs
        /\ AllocChunk(s, cmd).chunks = cs
    BY <1>6, <1>7 DEF Sound, Metadata
  <1>9. ASSUME NEW f \in DOMAIN fs, NEW c \in InSeq(fs[f])
        PROVE  c \in DOMAIN cs /\ cs[c].file = f
    <2>1. c \in InSeq(s.files[f]) \/ (c = id /\ f = cmd.file)
      BY <1>1, <1>3, AppendLists
    <2>2. CASE c \in InSeq(s.files[f])
      <3>1. c \in T /\ s.chunks[c].file = f
        BY <1>1, <1>2, <1>5, <2>2 DEF Sound, Refs
      <3>2. CASE c # id
        BY <1>4, <3>1, <3>2
      <3>3. CASE c = id
        BY <1>2, <1>3, <1>4, <3>1, <3>3 DEF Sound, Named
      <3> QED BY <3>2, <3>3
    <2>3. CASE c = id /\ f = cmd.file
      BY <1>4, <2>3
    <2> QED BY <2>1, <2>2, <2>3
  <1>10. \A c \in DOMAIN cs : cs[c].file = c[1]
    BY <1>2, <1>3, <1>4 DEF Sound, Named
  <1> QED BY <1>8, <1>9, <1>10 DEF Sound, Refs, Named

\* The content of a chunk says nothing of its file.
LEMMA UpdateChunkSound ==
    ASSUME NEW s, Sound(s), NEW cmd, cmd.content \in STRING
    PROVE  Sound(UpdateChunk(s, cmd))
  <1>1. CASE cmd.chunk \notin DOMAIN s.chunks
    BY <1>1 DEF UpdateChunk
  <1>2. CASE cmd.chunk \in DOMAIN s.chunks
    <2> DEFINE cs == [s.chunks EXCEPT ![cmd.chunk].content = cmd.content]
    <2>1. PICK T \in SUBSET Chunk : s.chunks \in [T -> ChunkInfo]
      BY DEF Sound, Metadata, ChunkTable
    <2>2. cs \in [T -> ChunkInfo] /\ \A c \in T : cs[c].file = s.chunks[c].file
      BY <1>2, <2>1 DEF ChunkInfo
    <2>3. UpdateChunk(s, cmd) = [s EXCEPT !.chunks = cs]
      BY <1>2 DEF UpdateChunk
    <2>4. cs \in ChunkTable
      BY <2>1, <2>2 DEF ChunkTable
    <2>5. /\ UpdateChunk(s, cmd) \in Metadata
          /\ UpdateChunk(s, cmd).files = s.files
          /\ UpdateChunk(s, cmd).chunks = cs
      BY <2>3, <2>4 DEF Sound, Metadata
    <2> QED BY <2>1, <2>2, <2>5 DEF Sound, Refs, Named
  <1> QED BY <1>1, <1>2

\* Every command the state machine accepts keeps its metadata sound.
THEOREM ApplySound ==
    ASSUME NEW s, Sound(s), NEW cmd \in AnyCommand
    PROVE  Sound(Apply(s, cmd))
  <1>1. CASE cmd \in [type : {"REGISTER_NODE"}, node : DataNode]
    <2>1. Apply(s, cmd) = RegisterNode(s, cmd)
      BY <1>1 DEF Apply
    <2>2. cmd.node \in DataNode
      BY <1>1
    <2> QED BY <2>1, <2>2, NodeStatusSound DEF RegisterNode, Online, Offline
  <1>2. CASE cmd \in [type : {"CREATE_FILE"}, file : File]
    <2>1. Apply(s, cmd) = CreateFile(s, cmd)
      BY <1>2 DEF Apply
    <2> QED BY <1>2, <2>1, CreateFileSound
  <1>3. CASE cmd \in [type : {"ALLOC_CHUNK"}, file : File, index : 0..(MaxChunks - 1),
                      replicas : Seq(DataNode)]
    <2>1. Apply(s, cmd) = AllocChunk(s, cmd)
      BY <1>3 DEF Apply
    <2> QED BY <1>3, <2>1, AllocChunkSound
  <1>4. CASE cmd \in [type : {"UNREGISTER_NODE"}, node : DataNode]
    <2>1. Apply(s, cmd) = UnregisterNode(s, cmd)
      BY <1>4 DEF Apply
    <2>2. cmd.node \in DataNode
      BY <1>4
    <2> QED BY <2>1, <2>2, NodeStatusSound DEF UnregisterNode
  <1>5. CASE cmd \in [type : {"DELETE_FILE"}, file : File]
    <2>1. Apply(s, cmd) = DeleteFile(s, cmd)
      BY <1>5 DEF Apply
    <2> QED BY <1>5, <2>1, DeleteFileSound
  <1>6. CASE cmd \in [type : {"UPDATE_CHUNK"}, chunk : Chunk, content : STRING]
    <2>1. Apply(s, cmd) = UpdateChunk(s, cmd)
      BY <1>6 DEF Apply
    <2> QED BY <1>6, <2>1, UpdateChunkSound
  <1> QED BY <1>1, <1>2, <1>3, <1>4, <1>5, <1>6 DEF AnyCommand, Command

-----------------------------------------------------------------------------
(***************************************************************************)
(* The invariant of the system: types, sound metadata on every master, and *)
(* allocations that have nodes to choose from and chunks left to propose.  *)
(***************************************************************************)
AllSound == sm \in [Master -> Metadata] /\ \A m \in Master : Sound(sm[m])

AllocationsOpen ==
    \A f \in File : upload[f] \in Allocation =>
        /\ Len(upload[f].nodes) > 0
        /\ upload[f].phase = "allocating" => upload[f].next < upload[f].count

IInv == TypeOK /\ AllSound /\ DOMAIN upload = File /\ AllocationsOpen

\* What an upload can be.
LEMMA UploadPhases ==
    ASSUME IInv, NEW f \in File
    PROVE  /\ upload[f].phase = "created" =>
                 \E m \in Master : upload[f] = Created(m)
           /\ upload[f].phase = "allocating" => upload[f] \in Allocation
  BY DEF IInv, TypeOK, Waiting, Refused, Created, Allocation

\* Proposing keeps the type of the logs and the number of terms.
LEMMA ProposedTyped ==
    ASSUME IInv, NEW m \in Master, NEW cmd \in Command
    PROVE  Proposed(m, cmd) \in Seq(Seq(Command)) /\ Len(Proposed(m, cmd)) = Len(branches)
  <1>1. CASE leading[m] = 0
    BY <1>1 DEF Proposed, IsLeader, IInv, TypeOK
  <1>2. CASE leading[m] # 0
    <2>1. leading[m] \in 1..Len(branches)
      BY <1>2 DEF IInv, TypeOK
    <2>2. Append(branches[leading[m]], cmd) \in Seq(Command)
      BY <2>1 DEF IInv, TypeOK
    <2> QED BY <1>2, <2>1, <2>2 DEF Proposed, IsLeader, IInv, TypeOK
  <1> QED BY <1>1, <1>2

\* Sound metadata of one master in the place of another keeps them all sound, and
\* has the types of TypeOK.
LEMMA OneMoreSound ==
    ASSUME AllSound, NEW m \in Master, NEW s, Sound(s), sm' = [sm EXCEPT ![m] = s]
    PROVE  AllSound'
  BY DEF AllSound, Sound

\* Sound metadata has the keys that TypeOK asks for.
LEMMA SoundTyped ==
    ASSUME NEW s \in Metadata
    PROVE  /\ DOMAIN s.files \subseteq File
           /\ DOMAIN s.chunks \subseteq File \X (0..(MaxChunks - 1))
           /\ DOMAIN s.datanodes \subseteq DataNode
  BY DEF Metadata, FileTable, ChunkTable, NodeTable, Chunk

\* Empty metadata is sound.
LEMMA NothingSound == NoMetadata \in Metadata /\ Sound(NoMetadata)
  <1>1. \A S : <<>> \in [{} -> S] /\ DOMAIN <<>> = {}
    OBVIOUS
  <1>2. <<>> \in FileTable /\ <<>> \in ChunkTable /\ <<>> \in NodeTable
    BY <1>1 DEF FileTable, ChunkTable, NodeTable
  <1> QED BY <1>1, <1>2 DEF NoMetadata, Metadata, Sound, Refs, Named

\* Empty logs and empty metadata satisfy the invariant.
LEMMA InitInv == Init => IInv
  <1> SUFFICES ASSUME Init PROVE IInv
    OBVIOUS
  <1> USE DEF Init, LogInit
  <1>1. NoMetadata \in Metadata /\ Sound(NoMetadata)
    BY NothingSound
  <1>2. AllSound
    BY <1>1 DEF AllSound
  <1>3. TypeOK
    BY <1>1, <1>2, SoundTyped, MasterAssumption DEF TypeOK, AllSound
  <1>4. AllocationsOpen
    BY DEF AllocationsOpen, Waiting, Allocation
  <1> QED BY <1>2, <1>3, <1>4 DEF IInv

\* A step that leaves the logs and the uploads alone and metadata sound.
LEMMA MetadataStep ==
    ASSUME IInv, NEW m \in Master, NEW s, Sound(s), sm' = [sm EXCEPT ![m] = s],
           UNCHANGED <<logVars, requeues, upload>>, started' \subseteq DataNode,
           cursor' \in [Master -> 1..(Len(committed) + 1)],
           \A k \in Master : cursor'[k] <= known[k] + 1
    PROVE  IInv'
  <1>1. AllSound'
    BY OneMoreSound DEF IInv
  <1>2. TypeOK'
    BY <1>1, SoundTyped DEF IInv, TypeOK, AllSound, logVars
  <1> QED BY <1>1, <1>2 DEF IInv, AllocationsOpen

\* A step of a client or of a data node that may propose a command.
LEMMA ProposalStep ==
    ASSUME IInv, NEW f \in File, NEW u,
           branches' \in Seq(Seq(Command)), Len(branches') = Len(branches),
           UNCHANGED <<committed, known, leading, smVars>>, started' \subseteq DataNode,
           upload' = [upload EXCEPT ![f] = u],
           \/ u \in {Waiting, Refused} \cup {Created(m) : m \in Master}
           \/ /\ u \in Allocation /\ Len(u.nodes) > 0
              /\ u.phase = "allocating" => u.next < u.count
    PROVE  IInv'
  <1>1. TypeOK'
    BY DEF IInv, TypeOK, smVars
  <1>2. u \notin Allocation \/ (Len(u.nodes) > 0 /\ (u.phase = "allocating" => u.next < u.count))
    BY DEF Waiting, Refused, Created, Allocation
  <1>3. AllocationsOpen'
    BY <1>2 DEF IInv, AllocationsOpen
  <1> QED BY <1>1, <1>3 DEF IInv, AllSound, smVars

-----------------------------------------------------------------------------
\* A leader starts from a log.
LEMMA InheritedTyped ==
    ASSUME IInv, NEW lg \in Inherited
    PROVE  lg \in Seq(Command)
  <1>1. CASE lg = committed
    BY <1>1 DEF IInv, TypeOK
  <1>2. CASE lg # committed
    <2>1. PICK t \in 1..Len(branches) : \E n \in Len(committed)..Len(branches[t]) :
             lg = SubSeq(branches[t], 1, n)
      BY <1>2 DEF Inherited
    <2>2. PICK n \in Len(committed)..Len(branches[t]) : lg = SubSeq(branches[t], 1, n)
      BY <2>1
    <2>3. branches[t] \in Seq(Command) /\ n \in Nat /\ n <= Len(branches[t])
      BY DEF IInv, TypeOK
    <2> QED BY <2>2, <2>3
  <1> QED BY <1>1, <1>2

\* The types of the committed log and of what the masters know and apply of it.
LEMMA CursorsTyped ==
    IInv => /\ committed \in Seq(Command) /\ Len(committed) \in Nat
            /\ known \in [Master -> 0..Len(committed)]
            /\ cursor \in [Master -> 1..(Len(committed) + 1)]
            /\ \A k \in Master : cursor[k] <= known[k] + 1
  BY DEF IInv, TypeOK

\* What Raft does keeps the invariant.
LEMMA RaftInv == IInv /\ RaftStep => IInv'
  <1> SUFFICES ASSUME IInv, RaftStep PROVE IInv'
    OBVIOUS
  <1>0. /\ committed \in Seq(Command) /\ Len(committed) \in Nat
        /\ known \in [Master -> 0..Len(committed)]
        /\ cursor \in [Master -> 1..(Len(committed) + 1)]
        /\ \A k \in Master : cursor[k] <= known[k] + 1
    BY CursorsTyped
  <1>1. UNCHANGED <<started, upload>>
    BY DEF RaftStep
  <1>2. ASSUME NEW m \in Master, Commit(m) PROVE IInv'
    <2> DEFINE newest == branches[Len(branches)]
    <2>1. newest \in Seq(Command)
      <3>1. Len(branches) \in 1..Len(branches)
        BY <1>2 DEF IInv, TypeOK, Commit, IsLeader
      <3> QED BY <3>1 DEF IInv, TypeOK
    <2>2. PICK n \in (Len(committed) + 1)..Len(newest) :
             committed' = SubSeq(newest, 1, n) /\ known' = [known EXCEPT ![m] = n]
      BY <1>2 DEF Commit
    <2> HIDE DEF newest
    <2>3. n \in Nat /\ n <= Len(newest) /\ n > Len(committed) /\ Len(committed) \in Nat
      BY <1>0, <2>1, <2>2
    <2>4. committed' \in Seq(Command) /\ Len(committed') = n
      BY <2>1, <2>2, <2>3
    <2>5. /\ known' \in [Master -> 0..Len(committed')]
          /\ \A k \in Master : known[k] \in Nat /\ known'[k] \in Nat /\ known[k] <= known'[k]
      BY <1>0, <2>2, <2>3, <2>4
    <2>6. /\ cursor \in [Master -> 1..(Len(committed') + 1)]
          /\ \A k \in Master : cursor[k] <= known'[k] + 1
      <3>1. \A k \in Master : cursor[k] \in 1..(n + 1)
        BY <1>0, <2>3
      <3>2. \A k \in Master : cursor[k] <= known'[k] + 1
        BY <1>0, <2>5, <3>1
      <3>3. cursor \in [Master -> 1..(Len(committed') + 1)]
        BY <1>0, <2>4, <3>1
      <3> QED BY <3>2, <3>3
    <2>7. TypeOK'
      BY <1>1, <1>2, <2>4, <2>5, <2>6 DEF IInv, TypeOK, Commit, smVars
    <2> QED BY <1>1, <1>2, <2>7 DEF IInv, AllSound, AllocationsOpen, Commit, smVars
  <1>7. ASSUME NEW m \in Master, Learn(m) PROVE IInv'
    <2>1. PICK n \in (known[m] + 1)..Len(committed) : known' = [known EXCEPT ![m] = n]
      BY <1>7 DEF Learn
    <2>2. /\ known' \in [Master -> 0..Len(committed)]
          /\ \A k \in Master : known[k] \in Nat /\ known'[k] \in Nat /\ known[k] <= known'[k]
      BY <1>0, <2>1
    <2>3. \A k \in Master : cursor[k] <= known'[k] + 1
      BY <1>0, <2>2
    <2>4. TypeOK'
      BY <1>1, <1>7, <2>2, <2>3 DEF IInv, TypeOK, Learn, smVars
    <2> QED BY <1>1, <1>7, <2>4 DEF IInv, AllSound, AllocationsOpen, Learn, smVars
  <1>3. ASSUME NEW m \in Master, Elect(m) PROVE IInv'
    <2>1. PICK lg \in Inherited : branches' = Append(branches, lg)
      BY <1>3 DEF Elect
    <2>2. lg \in Seq(Command)
      BY InheritedTyped
    <2>3. /\ branches' \in Seq(Seq(Command)) /\ Len(branches') = Len(branches) + 1
          /\ Len(branches') <= MaxElections
      BY <1>3, <2>1, <2>2, MasterAssumption DEF IInv, TypeOK, Elect
    <2>4. leading' \in [Master -> 0..Len(branches')]
      BY <1>3, <2>3 DEF IInv, TypeOK, Elect
    <2>5. TypeOK'
      BY <1>1, <1>3, <2>3, <2>4 DEF IInv, TypeOK, Elect, smVars
    <2> QED BY <1>1, <1>3, <2>5 DEF IInv, AllSound, AllocationsOpen, Elect, smVars
  <1>4. ASSUME NEW m \in Master, StepDown(m) PROVE IInv'
    <2>1. leading' \in [Master -> 0..Len(branches)]
      BY <1>4 DEF IInv, TypeOK, StepDown
    <2>2. TypeOK'
      BY <1>1, <1>4, <2>1 DEF IInv, TypeOK, StepDown, smVars
    <2> QED BY <1>1, <1>4, <2>2 DEF IInv, AllSound, AllocationsOpen, StepDown, smVars
  <1>5. ASSUME NEW m \in Master, Deliver(m) PROVE IInv'
    <2>1. /\ cursor[m] \in 1..Len(committed)
          /\ cursor' \in [Master -> 1..(Len(committed) + 1)]
          /\ \A k \in Master : cursor'[k] <= known[k] + 1
      BY <1>5 DEF IInv, TypeOK, Deliver
    <2>2. committed[cursor[m]] \in AnyCommand
      BY <2>1 DEF IInv, TypeOK, AnyCommand
    <2>3. Sound(Apply(sm[m], committed[cursor[m]]))
      BY <2>2, ApplySound DEF IInv, AllSound
    <2> QED BY <1>1, <1>5, <2>1, <2>3, MetadataStep DEF IInv, TypeOK, Deliver
  <1>6. ASSUME NEW m \in Master, Requeue(m) PROVE IInv'
    <2>1. /\ cursor' \in [Master -> 1..(Len(committed) + 1)]
          /\ \A k \in Master : cursor'[k] <= known[k] + 1
      <3>1. PICK n \in 1..(cursor[m] - 1) : cursor' = [cursor EXCEPT ![m] = n]
        BY <1>6 DEF Requeue
      <3>2. n \in 1..(Len(committed) + 1) /\ n <= cursor[m]
        BY <1>0, <3>1
      <3>3. cursor' \in [Master -> 1..(Len(committed) + 1)]
        BY <1>0, <3>1, <3>2
      <3>4. \A k \in Master : cursor'[k] <= cursor[k] /\ known[k] \in Nat
        BY <1>0, <3>1, <3>2
      <3>5. \A k \in Master : cursor'[k] \in Nat /\ cursor[k] \in Nat
        BY <1>0, <3>3
      <3>6. \A k \in Master : cursor'[k] <= known[k] + 1
        BY <1>0, <3>4, <3>5
      <3> QED BY <3>3, <3>6
    <2>2. requeues' \in [Master -> 0..MaxRequeues]
      <3>1. requeues \in [Master -> 0..MaxRequeues]
        BY DEF IInv, TypeOK
      <3>2. requeues[m] < MaxRequeues /\ requeues' = [requeues EXCEPT ![m] = @ + 1]
        BY <1>6 DEF Requeue
      <3>3. requeues[m] + 1 \in 0..MaxRequeues
        BY <3>1, <3>2, MasterAssumption
      <3> QED BY <3>1, <3>2, <3>3
    <2>3. TypeOK'
      BY <1>1, <1>6, <2>1, <2>2 DEF IInv, TypeOK, Requeue, logVars
    <2> QED BY <1>1, <1>6, <2>3 DEF IInv, AllSound, AllocationsOpen, Requeue, logVars
  <1> QED BY <1>2, <1>3, <1>4, <1>5, <1>6, <1>7 DEF RaftStep

\* So do registrations, heartbeats and the checker,
LEMMA DataNodeInv == IInv /\ DataNodeStep => IInv'
  <1> SUFFICES ASSUME IInv, NEW n \in DataNode,
                      Register(n) \/ Heartbeat(n) \/ \E m \in Master : CheckDataNode(m, n)
               PROVE  IInv'
    BY DEF DataNodeStep
  <1>0. MasterOf[n] \in Master
    BY ClusterAssumption
  <1>1. CASE Register(n)
    <2> DEFINE cmd == [type |-> "REGISTER_NODE", node |-> n]
    <2>1. cmd \in Command
      BY DEF Command
    <2>2. branches' \in Seq(Seq(Command)) /\ Len(branches') = Len(branches)
      BY <1>0, <1>1, <2>1, ProposedTyped DEF Register
    <2>3. TypeOK'
      BY <1>1, <2>2 DEF IInv, TypeOK, Register, smVars
    <2> QED BY <1>1, <2>3 DEF IInv, AllSound, AllocationsOpen, Register, smVars
  <1>2. CASE Heartbeat(n)
    <2> DEFINE m == MasterOf[n]
    <2>1. Sound(UpdateNodeHeartbeat(sm[m], n))
      BY <1>0, NodeStatusSound DEF UpdateNodeHeartbeat, IInv, AllSound
    <2> QED BY <1>0, <1>2, <2>1, MetadataStep DEF IInv, TypeOK, Heartbeat, logVars
  <1>3. ASSUME NEW m \in Master, CheckDataNode(m, n) PROVE IInv'
    <2>1. Sound(SetNodeOffline(sm[m], n))
      BY NodeStatusSound DEF SetNodeOffline, IInv, AllSound
    <2> QED BY <1>3, <2>1, MetadataStep DEF IInv, TypeOK, CheckDataNode, logVars
  <1> QED BY <1>1, <1>2, <1>3

\* The nodes read for an allocation are a list of data nodes, and not an empty one.
LEMMA ChosenTyped ==
    ASSUME NEW S \in SUBSET DataNode, Cardinality(S) >= ReplicaCount, NEW nodes \in SetToSeqs(S)
    PROVE  nodes \in Seq(DataNode) /\ Len(nodes) > 0
  <1>1. IsFiniteSet(S) /\ Cardinality(S) \in Nat
    BY ClusterAssumption, FS_Subset, FS_CardinalityType
  <1>2. nodes \in [1..Cardinality(S) -> S]
    BY DEF SetToSeqs
  <1>3. nodes \in Seq(S) /\ Len(nodes) = Cardinality(S)
    BY <1>1, <1>2
  <1> QED BY <1>1, <1>3, ClusterAssumption

\* Going round the nodes from any of them on stays among them.
LEMMA SelectedTyped ==
    ASSUME NEW nodes \in Seq(DataNode), Len(nodes) > 0, NEW i \in Nat
    PROVE  Selected(nodes, i) \in Seq(DataNode)
  <1>1. \A k \in Nat : (k % Len(nodes)) + 1 \in 1..Len(nodes)
    OBVIOUS
  <1>2. \A j \in 1..ReplicaCount : nodes[((i + j - 1) % Len(nodes)) + 1] \in DataNode
    <2> TAKE j \in 1..ReplicaCount
    <2>1. i + j - 1 \in Nat
      BY ClusterAssumption
    <2> QED BY <1>1, <2>1
  <1>3. Selected(nodes, i) \in [1..ReplicaCount -> DataNode]
    BY <1>2 DEF Selected
  <1> QED BY <1>3, ClusterAssumption

\* The next chunk's command is one that the state machine knows, and the client waits
\* for the chunk after it.
LEMMA AllocAdvances ==
    ASSUME IInv, NEW f \in File, AllocNext(f)
    PROVE  /\ upload[f] \in Allocation
           /\ upload[f].master \in Master /\ upload[f].next \in Nat
           /\ AllocCommand(f, upload[f]) \in Command
           /\ \E u \in Allocation :
                /\ upload' = [upload EXCEPT ![f] = u]
                /\ u.nodes = upload[f].nodes /\ u.next = upload[f].next + 1
                /\ Len(u.nodes) > 0 /\ (u.phase = "allocating" => u.next < u.count)
  <1> DEFINE a == upload[f]
             u == [a EXCEPT !.next = @ + 1,
                     !.phase = IF a.next + 1 = a.count THEN "answered" ELSE @]
  <1>1. /\ a \in Allocation /\ a.phase = "allocating"
        /\ Len(a.nodes) > 0 /\ a.next < a.count
    BY UploadPhases DEF AllocNext, IInv, AllocationsOpen
  <1>2. /\ a.master \in Master /\ a.nodes \in Seq(DataNode)
        /\ a.next \in Nat /\ a.count \in Nat /\ a.count <= MaxChunks /\ MaxChunks \in Nat
    BY <1>1, ClusterAssumption DEF Allocation
  <1>3. AllocCommand(f, a) \in Command
    <2>1. Selected(a.nodes, a.next) \in Seq(DataNode)
      BY <1>1, <1>2, SelectedTyped
    <2>2. a.next \in 0..(MaxChunks - 1)
      BY <1>1, <1>2
    <2> QED BY <2>1, <2>2 DEF AllocCommand, Command
  <1>4. upload' = [upload EXCEPT ![f] = u]
    BY <1>1 DEF AllocNext, IInv, Allocation
  <1>5. /\ u \in Allocation /\ u.nodes = a.nodes /\ u.next = a.next + 1
        /\ u.phase = "allocating" => u.next < u.count
    <2>1. CASE a.next + 1 = a.count
      <3>1. u = [a EXCEPT !.next = a.next + 1, !.phase = "answered"]
        BY <2>1
      <3>2. a.next + 1 \in 0..MaxChunks
        BY <1>1, <1>2
      <3> HIDE DEF u
      <3> QED BY <1>1, <3>1, <3>2 DEF Allocation
    <2>2. CASE a.next + 1 # a.count
      <3>1. u = [a EXCEPT !.next = a.next + 1]
        BY <1>1, <2>2 DEF Allocation
      <3>2. a.next + 1 \in 0..MaxChunks /\ a.next + 1 < a.count
        BY <1>1, <1>2, <2>2
      <3> HIDE DEF u
      <3> QED BY <1>1, <3>1, <3>2 DEF Allocation
    <2> QED BY <2>1, <2>2
  <1> HIDE DEF u
  <1>6. Len(u.nodes) > 0
    BY <1>1, <1>5
  <1> QED BY <1>1, <1>2, <1>3, <1>4, <1>5, <1>6

\* and the handlers that a client calls.
LEMMA ClientInv == IInv /\ ClientStep => IInv'
  <1> SUFFICES ASSUME IInv, NEW f \in File,
                      BeginAlloc(f) \/ AllocNext(f) \/ \E m \in Master : PutFile(m, f)
               PROVE  IInv'
    BY DEF ClientStep
  <1>0. started \subseteq DataNode
    BY DEF IInv, TypeOK
  <1>1. ASSUME NEW m \in Master, PutFile(m, f) PROVE IInv'
    <2> DEFINE cmd == [type |-> "CREATE_FILE", file |-> f]
    <2>1. cmd \in Command
      BY DEF Command
    <2>2. branches' \in Seq(Seq(Command)) /\ Len(branches') = Len(branches)
      BY <1>1, <2>1, ProposedTyped DEF PutFile
    <2> QED BY <1>0, <1>1, <2>2, ProposalStep DEF PutFile
  <1>2. CASE BeginAlloc(f)
    <2> DEFINE m      == upload[f].master
               online == NodesToChoose(m)
    <2>1. m \in Master
      <3>1. upload[f].phase = "created"
        BY <1>2 DEF BeginAlloc
      <3>2. PICK k \in Master : upload[f] = Created(k)
        BY <3>1, UploadPhases
      <3> QED BY <3>2 DEF Created
    <2>2. online \in SUBSET DataNode
      BY <2>1 DEF NodesToChoose, OnlineNodes, IInv, TypeOK
    <2>3. branches' \in Seq(Seq(Command)) /\ Len(branches') = Len(branches)
      BY <1>2 DEF BeginAlloc, logVars, IInv, TypeOK
    <2>4. CASE ~IsLeader(m) \/ Cardinality(online) < ReplicaCount
      BY <1>0, <1>2, <2>3, <2>4, ProposalStep DEF BeginAlloc, logVars
    <2>5. CASE IsLeader(m) /\ ~(Cardinality(online) < ReplicaCount)
      <3>1. PICK nodes \in SetToSeqs(online), count \in 1..MaxChunks :
               upload' = [upload EXCEPT ![f] =
                 [phase |-> "allocating", master |-> m,
                  nodes |-> nodes, count |-> count, next |-> 0]]
        BY <1>2, <2>5 DEF BeginAlloc
      <3>2. Cardinality(online) >= ReplicaCount
        <4>1. Cardinality(online) \in Nat
          BY <2>2, ClusterAssumption, FS_Subset, FS_CardinalityType
        <4> QED BY <2>5, <4>1, ClusterAssumption
      <3>3. nodes \in Seq(DataNode) /\ Len(nodes) > 0
        BY <2>2, <3>2, ChosenTyped
      <3> DEFINE u == [phase |-> "allocating", master |-> m,
                       nodes |-> nodes, count |-> count, next |-> 0]
      <3>4. u \in Allocation /\ Len(u.nodes) > 0 /\ u.next < u.count
        BY <2>1, <3>3, ClusterAssumption DEF Allocation
      <3> QED BY <1>0, <1>2, <2>3, <3>1, <3>4, ProposalStep DEF BeginAlloc, logVars
    <2> QED BY <2>4, <2>5
  <1>3. CASE AllocNext(f)
    <2>1. PICK u \in Allocation :
             /\ upload' = [upload EXCEPT ![f] = u]
             /\ Len(u.nodes) > 0 /\ (u.phase = "allocating" => u.next < u.count)
      BY <1>3, AllocAdvances
    <2>2. branches' \in Seq(Seq(Command)) /\ Len(branches') = Len(branches)
      BY <1>3, AllocAdvances, ProposedTyped DEF AllocNext
    <2> QED BY <1>0, <1>3, <2>1, <2>2, ProposalStep DEF AllocNext
  <1> QED BY <1>1, <1>2, <1>3

\* Every step keeps the invariant,
LEMMA StepInv == IInv /\ [Next]_vars => IInv'
  <1>1. IInv /\ UNCHANGED vars => IInv'
    BY DEF IInv, TypeOK, AllSound, AllocationsOpen, vars, logVars, smVars
  <1> QED BY <1>1, RaftInv, DataNodeInv, ClientInv DEF Next

\* so it holds always.
LEMMA Invariance == Spec => []IInv
  BY InitInv, StepInv, PTL DEF Spec

-----------------------------------------------------------------------------
\* The logs hold commands, masters believe to lead terms that exist, no master
\* applies beyond what is committed: the types of the cluster master.
THEOREM ClusterTypeCorrect == Spec => []TypeOK
  <1>1. IInv => TypeOK
    BY DEF IInv
  <1> QED BY <1>1, Invariance, PTL

\* For any number of masters, data nodes, clients and terms, and however often a
\* queue is fed again: no master's file ever lists a chunk that the master does not
\* know or that is another file's (applyCreateFile, applyAllocChunk).
THEOREM ReferencesSound == Spec => []RefsSound
  <1>1. IInv => RefsSound
    BY DEF IInv, AllSound, Sound, Refs, RefsSound
  <1> QED BY <1>1, Invariance, PTL
-----------------------------------------------------------------------------
(***************************************************************************)
(* Where chunks are placed.  A log is followed from the allocation whose   *)
(* client waits for it to the masters that apply it: what it says of a     *)
(* chunk is what the client is told, and the nodes it names are registered *)
(* earlier in the same log, unless it is a log that will never be          *)
(* committed.                                                              *)
(***************************************************************************)

\* What an allocation in a log says is what its client was told, or will be, and a
\* file that is created there was asked for.
ToldBy(f, i, replicas) ==
    /\ upload[f] \in Allocation /\ i < upload[f].next
    /\ replicas = Selected(upload[f].nodes, i)

CommandTold(cmd) ==
    /\ cmd.type = "ALLOC_CHUNK" => ToldBy(cmd.file, cmd.index, cmd.replicas)
    /\ cmd.type = "CREATE_FILE" => upload[cmd.file] # Waiting

LogsTold ==
    /\ \A k \in 1..Len(committed) : CommandTold(committed[k])
    /\ \A t \in 1..Len(branches) : \A k \in 1..Len(branches[t]) : CommandTold(branches[t][k])

ChunksTold ==
    \A m \in Master : \A c \in DOMAIN sm[m].chunks : ToldBy(c[1], c[2], sm[m].chunks[c].replicas)

\* The registration of the node is among the first n commands of the log.
RegisteredIn(lg, n, node) == \E k \in 1..n : lg[k].type = "REGISTER_NODE" /\ lg[k].node = node

\* The nodes to choose from are different, enough, and registered for good.
NodesChosen ==
    \A f \in File : upload[f] \in Allocation =>
        LET nodes == upload[f].nodes
        IN  /\ Len(nodes) >= ReplicaCount
            /\ \A x, y \in 1..Len(nodes) : nodes[x] = nodes[y] => x = y
            /\ \A x \in 1..Len(nodes) : RegisteredIn(committed, Len(committed), nodes[x])

NodesLogged ==
    \A m \in Master : \A n \in DOMAIN sm[m].datanodes : RegisteredIn(committed, Len(committed), n)

\* The k-th command of the log, if it is an allocation, comes after the registrations
\* of its nodes.
PlacedAfter(lg, k) ==
    lg[k].type = "ALLOC_CHUNK" => \A n \in InSeq(lg[k].replicas) : RegisteredIn(lg, k - 1, n)

\* Among its first k commands the log differs from the committed one: it will never
\* be committed up to there.  A deposed leader goes on appending to such a log
\* allocations among nodes that it knows from the committed one.
Departs(lg, k) == \E x \in 1..k : x <= Len(committed) /\ lg[x] # committed[x]

RegisteredFirst ==
    /\ \A k \in 1..Len(committed) : PlacedAfter(committed, k)
    /\ \A t \in 1..Len(branches) : \A k \in 1..Len(branches[t]) :
         PlacedAfter(branches[t], k) \/ Departs(branches[t], k)

\* HasCommitted, command by command.
Continues(lg) ==
    /\ Len(committed) <= Len(lg)
    /\ \A x \in 1..Len(committed) : lg[x] = committed[x]

NewestCommits == branches # <<>> => Continues(branches[Len(branches)])

\* A master knows the nodes registered by what it has applied since it was fed again.
NodesFed ==
    \A m \in Master : \A k \in 1..(cursor[m] - 1) :
        committed[k].type = "REGISTER_NODE" => committed[k].node \in DOMAIN sm[m].datanodes

ReplicasRegistered ==
    \A m \in Master : \A c \in DOMAIN sm[m].chunks :
        InSeq(sm[m].chunks[c].replicas) \subseteq DOMAIN sm[m].datanodes

PlaceInv ==
    /\ LogsTold /\ ChunksTold /\ NodesChosen /\ NodesLogged
    /\ RegisteredFirst /\ NewestCommits /\ NodesFed /\ ReplicasRegistered

-----------------------------------------------------------------------------
\* What the commands of the handlers carry.
LEMMA CommandFields ==
    ASSUME NEW cmd \in Command
    PROVE  /\ cmd.type \in {"REGISTER_NODE", "CREATE_FILE", "ALLOC_CHUNK"}
           /\ cmd.type = "REGISTER_NODE" => cmd.node \in DataNode
           /\ cmd.type = "CREATE_FILE" => cmd.file \in File
           /\ cmd.type = "ALLOC_CHUNK" =>
                /\ cmd.file \in File /\ cmd.index \in 0..(MaxChunks - 1)
                /\ cmd.replicas \in Seq(DataNode)
  BY DEF Command

\* What the commands of the handlers do to chunks and to the nodes that are known.
LEMMA ApplyEffect ==
    ASSUME NEW s \in Metadata, NEW cmd \in Command
    PROVE  /\ cmd.type # "ALLOC_CHUNK" => Apply(s, cmd).chunks = s.chunks
           /\ cmd.type = "ALLOC_CHUNK" =>
                LET id == ChunkID(cmd.file, cmd.index)
                IN  /\ DOMAIN Apply(s, cmd).chunks = DOMAIN s.chunks \cup {id}
                    /\ Apply(s, cmd).chunks[id].replicas = cmd.replicas
                    /\ \A c \in DOMAIN s.chunks \ {id} : Apply(s, cmd).chunks[c] = s.chunks[c]
           /\ cmd.type # "REGISTER_NODE" =>
                DOMAIN Apply(s, cmd).datanodes = DOMAIN s.datanodes
           /\ cmd.type = "REGISTER_NODE" =>
                DOMAIN Apply(s, cmd).datanodes = DOMAIN s.datanodes \cup {cmd.node}
  <1>1. CASE cmd.type = "REGISTER_NODE"
    <2>1. Apply(s, cmd) = [s EXCEPT !.datanodes = Put(s.datanodes, cmd.node, Online)]
      BY <1>1 DEF Apply, RegisterNode
    <2>2. /\ Apply(s, cmd).chunks = s.chunks
          /\ Apply(s, cmd).datanodes = Put(s.datanodes, cmd.node, Online)
      BY <2>1 DEF Metadata
    <2> QED BY <1>1, <2>2 DEF Put
  <1>2. CASE cmd.type = "CREATE_FILE"
    <2>1. Apply(s, cmd) = CreateFile(s, cmd)
      BY <1>2 DEF Apply
    <2> QED BY <1>2, <2>1 DEF CreateFile, Metadata
  <1>3. CASE cmd.type = "ALLOC_CHUNK"
    <2> DEFINE id    == ChunkID(cmd.file, cmd.index)
               chunk == [file |-> cmd.file, content |-> Unset, replicas |-> cmd.replicas]
    <2>1. Apply(s, cmd) = AllocChunk(s, cmd)
      BY <1>3 DEF Apply
    <2>2. /\ Apply(s, cmd).chunks = Put(s.chunks, id, chunk)
          /\ Apply(s, cmd).datanodes = s.datanodes
      BY <2>1 DEF AllocChunk, Metadata
    <2>3. chunk.replicas = cmd.replicas
      OBVIOUS
    <2> HIDE DEF chunk
    <2>4. /\ DOMAIN Put(s.chunks, id, chunk) = DOMAIN s.chunks \cup {id}
          /\ Put(s.chunks, id, chunk)[id] = chunk
          /\ \A c \in DOMAIN s.chunks \ {id} : Put(s.chunks, id, chunk)[c] = s.chunks[c]
      BY DEF Put
    <2> QED BY <1>3, <2>2, <2>3, <2>4
  <1> QED BY <1>1, <1>2, <1>3, CommandFields

\* A log that a leader may start from continues the committed one, and is the
\* beginning of some log.
LEMMA InheritedContinues ==
    ASSUME IInv, NEW lg \in Inherited
    PROVE  /\ lg \in Seq(Command) /\ Continues(lg)
           /\ \/ lg = committed
              \/ \E t \in 1..Len(branches) :
                   /\ Len(lg) <= Len(branches[t])
                   /\ \A x \in 1..Len(lg) : lg[x] = branches[t][x]
  <1>1. lg \in Seq(Command) /\ committed \in Seq(Command)
    BY InheritedTyped DEF IInv, TypeOK
  <1>2. CASE lg = committed
    BY <1>1, <1>2 DEF Continues
  <1>3. CASE lg # committed
    <2>1. PICK t \in 1..Len(branches) :
             /\ HasCommitted(branches[t])
             /\ \E n \in Len(committed)..Len(branches[t]) : lg = SubSeq(branches[t], 1, n)
      BY <1>3 DEF Inherited
    <2>2. PICK n \in Len(committed)..Len(branches[t]) : lg = SubSeq(branches[t], 1, n)
      BY <2>1
    <2>3. branches[t] \in Seq(Command) /\ n \in Nat /\ n <= Len(branches[t])
      BY DEF IInv, TypeOK
    <2>4. Len(lg) = n /\ \A x \in 1..n : lg[x] = branches[t][x]
      BY <2>2, <2>3
    <2>5. \A x \in 1..Len(committed) : committed[x] = branches[t][x]
      <3>1. SubSeq(branches[t], 1, Len(committed)) = committed
        BY <2>1 DEF HasCommitted
      <3>2. Len(committed) <= Len(branches[t]) /\ Len(committed) \in Nat
        BY <1>1, <2>1 DEF HasCommitted
      <3>3. \A x \in 1..Len(committed) :
               SubSeq(branches[t], 1, Len(committed))[x] = branches[t][x]
        BY <2>3, <3>2
      <3> QED BY <3>1, <3>3
    <2>6. Continues(lg)
      BY <1>1, <2>2, <2>3, <2>4, <2>5 DEF Continues
    <2> QED BY <1>1, <2>3, <2>4, <2>6
  <1> QED BY <1>2, <1>3

-----------------------------------------------------------------------------
(***************************************************************************)
(* The steps, seen by the logs, the uploads and the metadata.              *)
(***************************************************************************)

\* An allocation under way keeps its nodes and goes forward.
LEMMA UploadMoves ==
    ASSUME IInv, [Next]_vars, NEW f \in File, upload[f] \in Allocation
    PROVE  /\ upload'[f] \in Allocation
           /\ upload'[f].nodes = upload[f].nodes
           /\ upload[f].next \in Nat /\ upload[f].next <= upload'[f].next
           /\ upload'[f].next \in Nat
  <1>0. upload[f].next \in Nat
    BY ClusterAssumption DEF Allocation
  <1>1. upload[f] # Waiting /\ upload[f].phase # "created"
    BY DEF Allocation, Waiting
  <1>2. CASE upload' = upload
    BY <1>0, <1>2
  <1>3. ASSUME NEW g \in File, BeginAlloc(g) \/ \E m \in Master : PutFile(m, g)
        PROVE  upload'[f] = upload[f]
    <2>1. g # f
      BY <1>1, <1>3 DEF BeginAlloc, PutFile
    <2> QED BY <1>3, <2>1 DEF BeginAlloc, PutFile, IInv
  <1>4. ASSUME NEW g \in File, AllocNext(g)
        PROVE  /\ upload'[f] \in Allocation
               /\ upload'[f].nodes = upload[f].nodes
               /\ upload[f].next <= upload'[f].next /\ upload'[f].next \in Nat
    <2>1. PICK u \in Allocation :
             /\ upload' = [upload EXCEPT ![g] = u]
             /\ u.nodes = upload[g].nodes /\ u.next = upload[g].next + 1
      BY <1>4, AllocAdvances
    <2>2. CASE g = f
      BY <1>0, <2>1, <2>2 DEF IInv
    <2>3. CASE g # f
      BY <1>0, <2>1, <2>3 DEF IInv
    <2> QED BY <2>2, <2>3
  <1>5. \/ upload' = upload
        \/ \E g \in File : \/ BeginAlloc(g) \/ \E m \in Master : PutFile(m, g)
                           \/ AllocNext(g)
    BY DEF Next, vars, RaftStep, DataNodeStep, Register, Heartbeat, CheckDataNode, ClientStep
  <1> QED BY <1>0, <1>2, <1>3, <1>4, <1>5

\* What a client was told it was told for good.
LEMMA ToldStays ==
    ASSUME IInv, [Next]_vars, NEW f \in File, NEW i \in Nat, NEW rs, ToldBy(f, i, rs)
    PROVE  ToldBy(f, i, rs)'
  <1>1. upload[f] \in Allocation /\ i < upload[f].next /\ rs = Selected(upload[f].nodes, i)
    BY DEF ToldBy
  <1>2. /\ upload'[f] \in Allocation /\ upload'[f].nodes = upload[f].nodes
        /\ i < upload'[f].next
    BY <1>1, UploadMoves
  <1> QED BY <1>1, <1>2 DEF ToldBy

\* A file is asked for once.
LEMMA AskedStays ==
    ASSUME IInv, [Next]_vars, NEW f \in File, upload[f] # Waiting
    PROVE  upload'[f] # Waiting
  <1>1. CASE upload' = upload
    BY <1>1
  <1>2. ASSUME NEW g \in File, AllocNext(g) \/ BeginAlloc(g) \/ \E m \in Master : PutFile(m, g)
        PROVE  upload'[f] # Waiting
    <2>1. CASE g # f
      BY <1>2, <2>1 DEF AllocNext, BeginAlloc, PutFile, IInv
    <2>2. CASE g = f
      <3>1. Waiting \notin Allocation
        BY DEF Waiting, Allocation
      <3>2. ASSUME AllocNext(g) PROVE upload'[f] # Waiting
        BY <2>2, <3>1, <3>2, AllocAdvances DEF IInv
      <3>3. ASSUME BeginAlloc(g) PROVE upload'[f] # Waiting
        BY <2>2, <3>3 DEF BeginAlloc, IInv, Refused, Waiting
      <3>4. ASSUME NEW m \in Master, PutFile(m, g) PROVE upload'[f] # Waiting
        BY <2>2, <3>4 DEF PutFile
      <3> QED BY <1>2, <3>2, <3>3, <3>4
    <2> QED BY <2>1, <2>2
  <1>3. \/ upload' = upload
        \/ \E g \in File : \/ AllocNext(g) \/ BeginAlloc(g)
                           \/ \E m \in Master : PutFile(m, g)
    BY DEF Next, vars, RaftStep, DataNodeStep, Register, Heartbeat, CheckDataNode, ClientStep
  <1> QED BY <1>1, <1>2, <1>3

\* What a client was told, or has asked for, is not taken back.
LEMMA CommandToldStays ==
    ASSUME IInv, [Next]_vars, NEW cmd \in Command, CommandTold(cmd)
    PROVE  CommandTold(cmd)'
  <1>1. CASE cmd.type = "ALLOC_CHUNK"
    <2>1. cmd.file \in File /\ cmd.index \in Nat
      BY <1>1, CommandFields, ClusterAssumption
    <2>2. ToldBy(cmd.file, cmd.index, cmd.replicas)
      BY <1>1 DEF CommandTold
    <2> QED BY <1>1, <2>1, <2>2, ToldStays DEF CommandTold
  <1>2. CASE cmd.type = "CREATE_FILE"
    BY <1>2, CommandFields, AskedStays DEF CommandTold
  <1> QED BY <1>1, <1>2 DEF CommandTold

\* The allocation that is proposed is the one that its client waits for, and the file
\* was not asked for before.
Asked(cmd) ==
    /\ cmd.type = "ALLOC_CHUNK" =>
         \E f \in File : /\ upload[f] \in Allocation
                         /\ cmd = AllocCommand(f, upload[f])
    /\ cmd.type = "CREATE_FILE" => upload[cmd.file] = Waiting

\* A master's metadata but for the status of the nodes.
SameButStatus(m) ==
    /\ sm'[m].files = sm[m].files
    /\ sm'[m].chunks = sm[m].chunks
    /\ DOMAIN sm'[m].datanodes = DOMAIN sm[m].datanodes

Delivers(m) ==
    /\ cursor[m] \in 1..Len(committed)
    /\ sm'[m] = Apply(sm[m], committed[cursor[m]])
    /\ cursor'[m] = cursor[m] + 1
    /\ committed' = committed

AppendsTo(t, cmd) == branches' = [branches EXCEPT ![t] = Append(branches[t], cmd)]

\* One log becomes longer by a command, or there is a new one, or more of the newest
\* is committed.
LogMoves ==
    \/ branches' = branches /\ committed' = committed
    \/ /\ committed' = committed
       /\ \E t \in 1..Len(branches), cmd \in Command :
            AppendsTo(t, cmd) /\ Asked(cmd) /\ CommandTold(cmd)'
    \/ committed' = committed /\ \E lg \in Inherited : branches' = Append(branches, lg)
    \/ /\ branches' = branches /\ branches # <<>>
       /\ \E n \in (Len(committed) + 1)..Len(branches[Len(branches)]) :
            committed' = SubSeq(branches[Len(branches)], 1, n)

\* What Propose does to the logs.
LEMMA ProposedMoves ==
    ASSUME IInv, NEW m \in Master, NEW cmd \in Command,
           branches' = Proposed(m, cmd), committed' = committed, Asked(cmd), CommandTold(cmd)'
    PROVE  LogMoves
  <1>1. CASE leading[m] = 0
    BY <1>1 DEF Proposed, IsLeader, LogMoves
  <1>2. CASE leading[m] # 0
    <2>1. leading[m] \in 1..Len(branches)
      BY <1>2 DEF IInv, TypeOK
    <2>2. AppendsTo(leading[m], cmd)
      BY <1>2 DEF Proposed, IsLeader, AppendsTo
    <2> QED BY <2>1, <2>2 DEF LogMoves
  <1> QED BY <1>1, <1>2

\* Nothing else happens to the logs.
LEMMA LogsMove == ASSUME IInv, [Next]_vars PROVE LogMoves
  <1>1. CASE UNCHANGED vars
    BY <1>1 DEF vars, logVars, LogMoves
  <1>2. CASE RaftStep
    <2>1. ASSUME NEW m \in Master, Commit(m) PROVE LogMoves
      <3>1. branches # <<>>
        BY <2>1 DEF Commit, IsLeader, IInv, TypeOK
      <3> QED BY <2>1, <3>1 DEF Commit, LogMoves
    <2>2. ASSUME NEW m \in Master, Elect(m) \/ StepDown(m) \/ Learn(m) \/ Deliver(m) \/ Requeue(m)
          PROVE  LogMoves
      BY <2>2 DEF Elect, StepDown, Learn, Deliver, Requeue, logVars, LogMoves
    <2> QED BY <1>2, <2>1, <2>2 DEF RaftStep
  <1>3. ASSUME NEW n \in DataNode, Register(n) PROVE LogMoves
    <2> DEFINE cmd == [type |-> "REGISTER_NODE", node |-> n]
    <2>1. cmd \in Command /\ cmd.type # "ALLOC_CHUNK" /\ cmd.type # "CREATE_FILE"
      BY DEF Command
    <2>2. MasterOf[n] \in Master
      BY ClusterAssumption
    <2>3. branches' = Proposed(MasterOf[n], cmd) /\ committed' = committed
      BY <1>3 DEF Register
    <2> HIDE DEF cmd
    <2> QED BY <2>1, <2>2, <2>3, ProposedMoves DEF Asked, CommandTold
  <1>4. ASSUME NEW n \in DataNode, Heartbeat(n) \/ \E m \in Master : CheckDataNode(m, n)
        PROVE  LogMoves
    BY <1>4 DEF Heartbeat, CheckDataNode, logVars, LogMoves
  <1>5. ASSUME NEW f \in File, NEW m \in Master, PutFile(m, f) PROVE LogMoves
    <2> DEFINE cmd == [type |-> "CREATE_FILE", file |-> f]
    <2>1. cmd \in Command /\ cmd.type # "ALLOC_CHUNK" /\ cmd.file = f
      BY DEF Command
    <2>2. branches' = Proposed(m, cmd) /\ committed' = committed
      BY <1>5 DEF PutFile
    <2>3. upload[f] = Waiting /\ upload'[f] # Waiting
      BY <1>5 DEF PutFile, IInv, Created, Refused, Waiting
    <2> HIDE DEF cmd
    <2> QED BY <2>1, <2>2, <2>3, ProposedMoves DEF Asked, CommandTold
  <1>6. ASSUME NEW f \in File, BeginAlloc(f) PROVE LogMoves
    BY <1>6 DEF BeginAlloc, logVars, LogMoves
  <1>7. ASSUME NEW f \in File, AllocNext(f) PROVE LogMoves
    <2>1. PICK a \in Allocation :
             a = upload[f] /\ a.master \in Master /\ a.next \in Nat
      BY <1>7, AllocAdvances
    <2>2. PICK cmd \in Command : cmd = AllocCommand(f, a)
      BY <1>7, <2>1, AllocAdvances
    <2>3. PICK u \in Allocation :
             upload' = [upload EXCEPT ![f] = u] /\ u.nodes = a.nodes /\ u.next = a.next + 1
      BY <1>7, <2>1, AllocAdvances
    <2>4. branches' = Proposed(a.master, cmd) /\ committed' = committed
      BY <1>7, <2>1, <2>2 DEF AllocNext
    <2>5. /\ cmd.type = "ALLOC_CHUNK" /\ cmd.file = f /\ cmd.index = a.next
          /\ cmd.replicas = Selected(a.nodes, a.next)
      BY <2>2 DEF AllocCommand
    <2>6. Asked(cmd)
      <3>1. cmd.type # "CREATE_FILE"
        BY <2>5
      <3> QED BY <2>1, <2>2, <3>1 DEF Asked
    <2>7. CommandTold(cmd)'
      <3>1. a.next < u.next
        BY <2>1, <2>3
      <3>2. upload'[f] = u
        BY <2>3 DEF IInv
      <3>3. ToldBy(f, a.next, cmd.replicas)'
        BY <2>3, <2>5, <3>1, <3>2 DEF ToldBy
      <3> QED BY <2>5, <3>3 DEF CommandTold
    <2> QED BY <2>1, <2>4, <2>6, <2>7, ProposedMoves
  <1> QED BY <1>1, <1>2, <1>3, <1>4, <1>5, <1>6, <1>7 DEF Next, DataNodeStep, ClientStep

\* A master applies the next command, or its chunks and nodes stay and it has not
\* applied more.
LEMMA MastersMove ==
    ASSUME IInv, [Next]_vars, NEW m \in Master
    PROVE  Delivers(m) \/ (SameButStatus(m) /\ cursor'[m] <= cursor[m])
  <1>0. cursor[m] \in Nat /\ cursor[m] \in 1..(Len(committed) + 1) /\ Len(committed) \in Nat
    BY DEF IInv, TypeOK
  <1>1. CASE sm' = sm /\ cursor' = cursor
    BY <1>0, <1>1 DEF SameButStatus
  <1>2. ASSUME NEW k \in Master, Deliver(k)
        PROVE  Delivers(m) \/ (SameButStatus(m) /\ cursor'[m] <= cursor[m])
    <2>1. CASE k = m
      BY <1>0, <1>2, <2>1 DEF Deliver, Delivers, logVars, IInv, TypeOK, AllSound
    <2>2. CASE k # m
      BY <1>0, <1>2, <2>2 DEF Deliver, SameButStatus, IInv, TypeOK, AllSound
    <2> QED BY <2>1, <2>2
  <1>3. ASSUME NEW k \in Master, Requeue(k)
        PROVE  SameButStatus(m) /\ cursor'[m] <= cursor[m]
    BY <1>0, <1>3 DEF Requeue, SameButStatus, IInv, TypeOK
  <1>4. ASSUME NEW n \in DataNode, Heartbeat(n) \/ \E k \in Master : CheckDataNode(k, n)
        PROVE  SameButStatus(m) /\ cursor'[m] <= cursor[m]
    <2>1. PICK k \in Master : \/ sm' = [sm EXCEPT ![k] = UpdateNodeHeartbeat(sm[k], n)]
                              \/ sm' = [sm EXCEPT ![k] = SetNodeOffline(sm[k], n)]
      BY <1>4, ClusterAssumption DEF Heartbeat, CheckDataNode
    <2>2. sm \in [Master -> Metadata]
      BY DEF IInv, AllSound
    <2>3. cursor' = cursor
      BY <1>4 DEF Heartbeat, CheckDataNode
    <2>4. \A s \in Metadata :
             /\ UpdateNodeHeartbeat(s, n).files = s.files
             /\ UpdateNodeHeartbeat(s, n).chunks = s.chunks
             /\ DOMAIN UpdateNodeHeartbeat(s, n).datanodes = DOMAIN s.datanodes
             /\ SetNodeOffline(s, n).files = s.files
             /\ SetNodeOffline(s, n).chunks = s.chunks
             /\ DOMAIN SetNodeOffline(s, n).datanodes = DOMAIN s.datanodes
      BY DEF Metadata, UpdateNodeHeartbeat, SetNodeOffline
    <2>5. SameButStatus(m)
      BY <2>1, <2>2, <2>4 DEF SameButStatus
    <2> QED BY <1>0, <2>3, <2>5
  <1>5. \/ sm' = sm /\ cursor' = cursor
        \/ \E k \in Master : Deliver(k) \/ Requeue(k)
        \/ \E n \in DataNode : Heartbeat(n) \/ \E k \in Master : CheckDataNode(k, n)
    BY DEF Next, vars, smVars, RaftStep, Commit, Learn, Elect, StepDown, DataNodeStep, Register,
           ClientStep, BeginAlloc, AllocNext, PutFile
  <1> QED BY <1>1, <1>2, <1>3, <1>4, <1>5

-----------------------------------------------------------------------------
\* What is committed stays, and becomes longer by what the newest leader has.
LEMMA CommittedMoves ==
    ASSUME IInv, IInv', [Next]_vars, NewestCommits
    PROVE  /\ committed \in Seq(Command) /\ committed' \in Seq(Command)
           /\ Len(committed) <= Len(committed')
           /\ \A x \in 1..Len(committed) : committed'[x] = committed[x]
           /\ \/ committed' = committed
              \/ /\ branches' = branches /\ branches # <<>>
                 /\ Len(committed') <= Len(branches[Len(branches)])
                 /\ \A x \in 1..Len(committed') : committed'[x] = branches[Len(branches)][x]
  <1>1. committed \in Seq(Command) /\ committed' \in Seq(Command)
    BY DEF IInv, TypeOK
  <1>2. CASE committed' = committed
    BY <1>1, <1>2
  <1>3. CASE committed' # committed
    <2> DEFINE newest == branches[Len(branches)]
    <2>1. /\ branches' = branches /\ branches # <<>>
          /\ \E n \in (Len(committed) + 1)..Len(newest) : committed' = SubSeq(newest, 1, n)
      BY <1>3, LogsMove DEF LogMoves
    <2>2. PICK n \in (Len(committed) + 1)..Len(newest) : committed' = SubSeq(newest, 1, n)
      BY <2>1
    <2>3. newest \in Seq(Command)
      BY <2>1 DEF IInv, TypeOK
    <2>4. n \in Nat /\ n <= Len(newest) /\ Len(committed) < n
      BY <1>1, <2>3
    <2>5. \A x \in 1..Len(committed) : newest[x] = committed[x]
      BY <2>1 DEF NewestCommits, Continues
    <2> HIDE DEF newest
    <2>6. Len(committed') = n /\ \A x \in 1..n : committed'[x] = newest[x]
      BY <2>2, <2>3, <2>4
    <2>7. \A x \in 1..Len(committed) : x \in 1..n
      BY <1>1, <2>4
    <2> QED BY <1>1, <2>1, <2>4, <2>5, <2>6, <2>7 DEF newest
  <1> QED BY <1>2, <1>3

\* A log stays, becomes longer by a command, or is one to start from.
LEMMA BranchMoves ==
    ASSUME IInv, [Next]_vars, NEW t \in 1..Len(branches')
    PROVE  \/ t \in 1..Len(branches) /\ branches'[t] = branches[t]
           \/ /\ committed' = committed /\ t \in 1..Len(branches)
              /\ \E cmd \in Command :
                   branches'[t] = Append(branches[t], cmd) /\ Asked(cmd) /\ CommandTold(cmd)'
           \/ committed' = committed /\ branches'[t] \in Inherited
  <1>1. branches \in Seq(Seq(Command))
    BY DEF IInv, TypeOK
  <1>2. CASE branches' = branches
    BY <1>2
  <1>3. ASSUME NEW s \in 1..Len(branches), NEW cmd \in Command,
               AppendsTo(s, cmd), Asked(cmd), CommandTold(cmd)', committed' = committed
        PROVE  /\ t \in 1..Len(branches)
               /\ \/ branches'[t] = branches[t]
                  \/ /\ committed' = committed
                     /\ branches'[t] = Append(branches[t], cmd)
    <2>1. Len(branches') = Len(branches)
      BY <1>1, <1>3 DEF AppendsTo
    <2>2. branches'[t] = IF t = s THEN Append(branches[s], cmd) ELSE branches[t]
      BY <1>1, <1>3, <2>1 DEF AppendsTo
    <2> QED BY <1>3, <2>1, <2>2
  <1>4. ASSUME NEW lg \in Inherited, branches' = Append(branches, lg)
        PROVE  (t \in 1..Len(branches) /\ branches'[t] = branches[t]) \/ branches'[t] = lg
    <2>1. lg \in Seq(Command)
      BY InheritedTyped
    <2> QED BY <1>1, <1>4, <2>1
  <1> QED BY <1>2, <1>3, <1>4, LogsMove DEF LogMoves

\* The newest leader has all that is committed.
LEMMA NewestCommitsStep ==
    ASSUME IInv, IInv', [Next]_vars, NewestCommits
    PROVE  NewestCommits'
  <1>1. branches \in Seq(Seq(Command)) /\ branches' \in Seq(Seq(Command))
        /\ committed \in Seq(Command)
    BY DEF IInv, TypeOK
  <1>2. CASE committed' # committed
    BY <1>2, CommittedMoves DEF NewestCommits, Continues
  <1>3. CASE committed' = committed /\ branches' = branches
    BY <1>3 DEF NewestCommits, Continues
  <1>4. ASSUME NEW s \in 1..Len(branches), NEW cmd \in Command,
               AppendsTo(s, cmd), committed' = committed
        PROVE  NewestCommits'
    <2>1. Len(branches') = Len(branches) /\ Len(branches) \in 1..Len(branches)
      BY <1>1, <1>4 DEF AppendsTo
    <2> DEFINE n == Len(branches)
    <2>2. branches'[n] = IF n = s THEN Append(branches[s], cmd) ELSE branches[n]
      BY <1>1, <1>4, <2>1 DEF AppendsTo
    <2>3. branches[n] \in Seq(Command)
      BY <1>1, <2>1
    <2>4. Continues(branches[n])
      BY <2>1 DEF NewestCommits
    <2> HIDE DEF n
    <2>5. /\ Len(committed) <= Len(branches'[n])
          /\ \A x \in 1..Len(committed) : branches'[n][x] = committed[x]
      <3>1. CASE n = s
        <4>1. /\ Len(Append(branches[n], cmd)) = Len(branches[n]) + 1
              /\ \A x \in 1..Len(branches[n]) : Append(branches[n], cmd)[x] = branches[n][x]
          BY <2>3
        <4>2. Len(committed) \in Nat /\ Len(branches[n]) \in Nat
          BY <1>1, <2>3
        <4> QED BY <2>2, <2>4, <3>1, <4>1, <4>2 DEF Continues
      <3>2. CASE n # s
        BY <2>2, <2>4, <3>2 DEF Continues
      <3> QED BY <3>1, <3>2
    <2>6. n = Len(branches')
      BY <2>1 DEF n
    <2> QED BY <1>4, <2>5, <2>6 DEF NewestCommits, Continues
  <1>5. ASSUME NEW lg \in Inherited, branches' = Append(branches, lg), committed' = committed
        PROVE  NewestCommits'
    <2>1. lg \in Seq(Command) /\ Continues(lg)
      BY InheritedContinues
    <2>2. branches'[Len(branches')] = lg
      BY <1>1, <1>5, <2>1
    <2> QED BY <1>5, <2>1, <2>2 DEF NewestCommits, Continues
  <1> QED BY <1>2, <1>3, <1>4, <1>5, LogsMove DEF LogMoves

\* Logs and committed commands hold what clients wait for.
LEMMA LogsToldStep ==
    ASSUME IInv, IInv', [Next]_vars, NewestCommits, LogsTold
    PROVE  LogsTold'
  <1>1. /\ committed \in Seq(Command) /\ branches \in Seq(Seq(Command))
        /\ branches' \in Seq(Seq(Command))
    BY DEF IInv, TypeOK
  <1>2. ASSUME NEW k \in 1..Len(committed), NEW cmd, cmd = committed[k] PROVE CommandTold(cmd)'
    BY <1>1, <1>2, CommandToldStays DEF LogsTold
  <1>3. ASSUME NEW t \in 1..Len(branches), NEW k \in 1..Len(branches[t]),
               NEW cmd, cmd = branches[t][k]
        PROVE  CommandTold(cmd)'
    BY <1>1, <1>3, CommandToldStays DEF LogsTold
  <1>4. ASSUME NEW k \in 1..Len(committed'), NEW cmd, cmd = committed'[k]
        PROVE  CommandTold(cmd)'
    <2>1. CASE committed' = committed
      BY <1>2, <1>4, <2>1
    <2>2. CASE committed' # committed
      <3> DEFINE n == Len(branches)
      <3>1. /\ branches # <<>> /\ Len(committed') <= Len(branches[n])
            /\ committed'[k] = branches[n][k]
        BY <2>2, CommittedMoves
      <3>2. n \in 1..Len(branches) /\ Len(branches[n]) \in Nat /\ Len(committed') \in Nat
        BY <1>1, <3>1, CommittedMoves
      <3>3. k \in 1..Len(branches[n])
        BY <3>1, <3>2
      <3> QED BY <1>3, <1>4, <3>1, <3>2, <3>3
    <2> QED BY <2>1, <2>2
  <1>5. ASSUME NEW t \in 1..Len(branches'), NEW k \in 1..Len(branches'[t]),
               NEW cmd, cmd = branches'[t][k]
        PROVE  CommandTold(cmd)'
    <2>1. CASE t \in 1..Len(branches) /\ branches'[t] = branches[t]
      BY <1>3, <1>5, <2>1
    <2>2. ASSUME NEW new \in Command, CommandTold(new)', t \in 1..Len(branches),
                 branches'[t] = Append(branches[t], new)
          PROVE  CommandTold(cmd)'
      <3>1. cmd = new \/ (k \in 1..Len(branches[t]) /\ cmd = branches[t][k])
        BY <1>1, <1>5, <2>2
      <3> QED BY <1>3, <2>2, <3>1
    <2>3. CASE branches'[t] \in Inherited
      <3>1. PICK lg \in Inherited : lg = branches'[t]
        BY <2>3
      <3>2. \/ cmd = committed[k] /\ k \in 1..Len(committed)
            \/ \E s \in 1..Len(branches) : k \in 1..Len(branches[s]) /\ cmd = branches[s][k]
        <4>1. CASE lg = committed
          BY <1>5, <3>1, <4>1
        <4>2. ASSUME NEW s \in 1..Len(branches), Len(lg) <= Len(branches[s]),
                     \A x \in 1..Len(lg) : lg[x] = branches[s][x]
              PROVE  k \in 1..Len(branches[s]) /\ cmd = branches[s][k]
          <5>1. Len(lg) \in Nat /\ Len(branches[s]) \in Nat /\ k \in 1..Len(lg)
            BY <1>1, <1>5, <3>1, InheritedContinues
          <5> QED BY <1>5, <3>1, <4>2, <5>1
        <4> QED BY <4>1, <4>2, InheritedContinues
      <3> QED BY <1>2, <1>3, <3>2
    <2> QED BY <2>1, <2>2, <2>3, BranchMoves
  <1>6. \A k \in 1..Len(committed') : CommandTold(committed[k])'
    <2> TAKE k \in 1..Len(committed')
    <2>1. PICK cmd : cmd = committed'[k]
      OBVIOUS
    <2>2. CommandTold(cmd)'
      BY <1>4, <2>1
    <2> QED BY <2>1, <2>2 DEF CommandTold
  <1>7. \A t \in 1..Len(branches') : \A k \in 1..Len(branches'[t]) : CommandTold(branches[t][k])'
    <2> TAKE t \in 1..Len(branches')
    <2> TAKE k \in 1..Len(branches'[t])
    <2>1. PICK cmd : cmd = branches'[t][k]
      OBVIOUS
    <2>2. CommandTold(cmd)'
      BY <1>5, <2>1
    <2> QED BY <2>1, <2>2 DEF CommandTold
  <1> QED BY <1>6, <1>7 DEF LogsTold

\* A master that applies a command comes to know at most the chunk it allocates, and
\* keeps the others.
LEMMA ChunksMove ==
    ASSUME IInv, [Next]_vars, NEW m \in Master
    PROVE  \/ sm'[m].chunks = sm[m].chunks
           \/ /\ Delivers(m) /\ committed[cursor[m]] \in Command
              /\ committed[cursor[m]].type = "ALLOC_CHUNK"
              /\ LET cmd == committed[cursor[m]]
                     id  == ChunkID(cmd.file, cmd.index)
                 IN  /\ DOMAIN sm'[m].chunks = DOMAIN sm[m].chunks \cup {id}
                     /\ sm'[m].chunks[id].replicas = cmd.replicas
                     /\ \A c \in DOMAIN sm[m].chunks \ {id} :
                          sm'[m].chunks[c] = sm[m].chunks[c]
  <1>1. CASE SameButStatus(m)
    BY <1>1 DEF SameButStatus
  <1>2. CASE Delivers(m)
    <2>1. sm[m] \in Metadata
      BY DEF IInv, AllSound
    <2>2. PICK cmd \in Command : cmd = committed[cursor[m]]
      BY <1>2 DEF Delivers, IInv, TypeOK
    <2>3. sm'[m] = Apply(sm[m], cmd)
      BY <1>2, <2>2 DEF Delivers
    <2> QED BY <1>2, <2>1, <2>2, <2>3, ApplyEffect
  <1> QED BY <1>1, <1>2, MastersMove

\* Chunks have the replicas that were told.
LEMMA ChunksToldStep ==
    ASSUME IInv, IInv', [Next]_vars, LogsTold, ChunksTold
    PROVE  ChunksTold'
  <1> SUFFICES ASSUME NEW m \in Master, NEW c \in DOMAIN sm'[m].chunks,
                      NEW rs, rs = sm'[m].chunks[c].replicas
               PROVE  ToldBy(c[1], c[2], rs)'
    <2>1. \A m \in Master : \A c \in DOMAIN sm'[m].chunks :
             ToldBy(c[1], c[2], sm[m].chunks[c].replicas)'
      <3> TAKE m \in Master
      <3> TAKE c \in DOMAIN sm'[m].chunks
      <3>1. PICK rs : rs = sm'[m].chunks[c].replicas
        OBVIOUS
      <3>2. ToldBy(c[1], c[2], rs)'
        BY <3>1
      <3> QED BY <3>1, <3>2 DEF ToldBy
    <2> QED BY <2>1 DEF ChunksTold
  <1>1. c[1] \in File /\ c[2] \in Nat
    <2>1. c \in File \X (0..(MaxChunks - 1))
      BY DEF IInv, TypeOK
    <2> QED BY <2>1, ClusterAssumption
  <1>2. CASE c \in DOMAIN sm[m].chunks /\ rs = sm[m].chunks[c].replicas
    <2>1. ToldBy(c[1], c[2], rs)
      BY <1>2 DEF ChunksTold
    <2> QED BY <1>1, <2>1, ToldStays
  <1>3. ASSUME NEW cmd \in Command, CommandTold(cmd), cmd.type = "ALLOC_CHUNK",
               c = ChunkID(cmd.file, cmd.index), rs = cmd.replicas
        PROVE  ToldBy(c[1], c[2], rs)'
    <2>1. ToldBy(c[1], c[2], rs)
      BY <1>3 DEF CommandTold, ChunkID
    <2> QED BY <1>1, <2>1, ToldStays
  <1>4. cursor[m] \in 1..Len(committed) => CommandTold(committed[cursor[m]])
    BY DEF LogsTold
  <1> QED BY <1>2, <1>3, <1>4, ChunksMove DEF Delivers

\* A registration that is committed stays so.
LEMMA RegisteredStays ==
    ASSUME IInv, IInv', [Next]_vars, NewestCommits, NEW n,
           RegisteredIn(committed, Len(committed), n)
    PROVE  RegisteredIn(committed, Len(committed), n)'
  <1>1. PICK k \in 1..Len(committed) :
           committed[k].type = "REGISTER_NODE" /\ committed[k].node = n
    BY DEF RegisteredIn
  <1>2. committed'[k] = committed[k] /\ k \in 1..Len(committed')
    <2>1. /\ Len(committed) \in Nat /\ Len(committed') \in Nat
          /\ Len(committed) <= Len(committed') /\ committed'[k] = committed[k]
      BY CommittedMoves
    <2> QED BY <2>1
  <1> QED BY <1>1, <1>2 DEF RegisteredIn

\* A master learns of a node from a registration that is committed.
LEMMA NodesLoggedStep ==
    ASSUME IInv, IInv', [Next]_vars, NewestCommits, NodesLogged
    PROVE  NodesLogged'
  <1>1. ASSUME NEW m \in Master, NEW n \in DOMAIN sm'[m].datanodes
        PROVE  RegisteredIn(committed, Len(committed), n)
    <2>1. CASE n \in DOMAIN sm[m].datanodes
      BY <2>1 DEF NodesLogged
    <2>2. CASE n \notin DOMAIN sm[m].datanodes
      <3>1. Delivers(m)
        BY <1>1, <2>2, MastersMove DEF SameButStatus
      <3>2. PICK cmd \in Command : cmd = committed[cursor[m]]
        BY <3>1 DEF Delivers, IInv, TypeOK
      <3>3. sm[m] \in Metadata /\ sm'[m] = Apply(sm[m], cmd)
        BY <3>1, <3>2 DEF Delivers, IInv, AllSound
      <3>4. cmd.type = "REGISTER_NODE" /\ cmd.node = n
        BY <1>1, <2>2, <3>3, ApplyEffect
      <3> QED BY <3>1, <3>2, <3>4 DEF Delivers, RegisteredIn
    <2> QED BY <2>1, <2>2
  <1>2. \A m \in Master : \A n \in DOMAIN sm'[m].datanodes :
           RegisteredIn(committed, Len(committed), n)'
    BY <1>1, RegisteredStays
  <1> QED BY <1>2 DEF NodesLogged

\* The nodes read for an allocation are some of those its master knows, each once.
LEMMA ChosenApart ==
    ASSUME NEW S \in SUBSET DataNode, Cardinality(S) >= ReplicaCount, NEW nodes \in SetToSeqs(S)
    PROVE  /\ Len(nodes) >= ReplicaCount
           /\ \A x \in 1..Len(nodes) : nodes[x] \in S
           /\ \A x, y \in 1..Len(nodes) : nodes[x] = nodes[y] => x = y
  <1>1. IsFiniteSet(S) /\ Cardinality(S) \in Nat
    BY ClusterAssumption, FS_Subset, FS_CardinalityType
  <1>2. /\ nodes \in [1..Cardinality(S) -> S]
        /\ \A x, y \in 1..Cardinality(S) : x # y => nodes[x] # nodes[y]
    BY DEF SetToSeqs
  <1>3. Len(nodes) = Cardinality(S)
    BY <1>1, <1>2
  <1> QED BY <1>2, <1>3

\* Allocations choose among registered nodes.
LEMMA NodesChosenStep ==
    ASSUME IInv, IInv', [Next]_vars, NewestCommits, NodesLogged, NodesChosen
    PROVE  NodesChosen'
  <1> DEFINE Good(nodes) ==
               /\ Len(nodes) >= ReplicaCount
               /\ \A x, y \in 1..Len(nodes) : nodes[x] = nodes[y] => x = y
               /\ \A x \in 1..Len(nodes) : RegisteredIn(committed, Len(committed), nodes[x])
  <1>1. ASSUME NEW f \in File, upload'[f] \in Allocation, NEW nodes, nodes = upload'[f].nodes
        PROVE  Good(nodes)
    <2>1. CASE upload[f] \in Allocation
      <3>1. nodes = upload[f].nodes
        BY <1>1, <2>1, UploadMoves
      <3> QED BY <2>1, <3>1 DEF NodesChosen
    <2>2. CASE upload[f] \notin Allocation
      <3>1. BeginAlloc(f)
        <4>1. upload'[f] # upload[f]
          BY <1>1, <2>2
        <4>2. \E g \in File : BeginAlloc(g) \/ AllocNext(g) \/ \E m \in Master : PutFile(m, g)
          BY <4>1 DEF Next, vars, RaftStep, DataNodeStep, Register, Heartbeat, CheckDataNode,
                      ClientStep
        <4>3. BeginAlloc(f) \/ AllocNext(f) \/ \E m \in Master : PutFile(m, f)
          BY <4>1, <4>2 DEF BeginAlloc, AllocNext, PutFile, IInv
        <4>4. ~AllocNext(f)
          BY <2>2, AllocAdvances
        <4>5. ASSUME NEW m \in Master, PutFile(m, f) PROVE FALSE
          <5>1. upload'[f] \in {Created(m), Refused}
            BY <4>5 DEF PutFile, IInv
          <5> QED BY <1>1, <5>1 DEF Created, Refused, Allocation
        <4> QED BY <4>3, <4>4, <4>5
      <3>2. PICK m \in Master : upload[f] = Created(m)
        BY <3>1, UploadPhases DEF BeginAlloc
      <3>3. upload[f].master = m
        BY <3>2 DEF Created
      <3> DEFINE online == NodesToChoose(m)
      <3>4. online \subseteq DOMAIN sm[m].datanodes /\ online \in SUBSET DataNode
        BY DEF NodesToChoose, OnlineNodes, IInv, TypeOK
      <3>5. Refused \notin Allocation
        BY DEF Refused, Allocation
      <3>6. /\ ~(Cardinality(online) < ReplicaCount)
            /\ \E ns \in SetToSeqs(online), count \in 1..MaxChunks :
                 upload' = [upload EXCEPT ![f] =
                   [phase |-> "allocating", master |-> m,
                    nodes |-> ns, count |-> count, next |-> 0]]
        <4>1. upload' # [upload EXCEPT ![f] = Refused]
          BY <1>1, <3>5 DEF IInv
        <4> QED BY <3>1, <3>3, <4>1 DEF BeginAlloc
      <3>7. nodes \in SetToSeqs(online)
        BY <1>1, <3>6 DEF IInv
      <3>8. Cardinality(online) >= ReplicaCount
        <4>1. Cardinality(online) \in Nat
          BY <3>4, ClusterAssumption, FS_Subset, FS_CardinalityType
        <4> QED BY <3>6, <4>1, ClusterAssumption
      <3> HIDE DEF online
      <3>9. /\ Len(nodes) >= ReplicaCount
            /\ \A x \in 1..Len(nodes) : nodes[x] \in DOMAIN sm[m].datanodes
            /\ \A x, y \in 1..Len(nodes) : nodes[x] = nodes[y] => x = y
        BY <3>4, <3>7, <3>8, ChosenApart
      <3> QED BY <3>9 DEF NodesLogged
    <2> QED BY <2>1, <2>2
  <1>2. ASSUME NEW f \in File, upload'[f] \in Allocation, NEW nodes, nodes = upload'[f].nodes
        PROVE  Good(nodes)'
    <2>1. Good(nodes)
      BY <1>1, <1>2
    <2> QED BY <2>1, RegisteredStays
  <1>3. ASSUME NEW f \in File, upload'[f] \in Allocation
        PROVE  /\ Len(upload'[f].nodes) >= ReplicaCount
               /\ \A x, y \in 1..Len(upload'[f].nodes) :
                    upload'[f].nodes[x] = upload'[f].nodes[y] => x = y
               /\ \A x \in 1..Len(upload'[f].nodes) :
                    RegisteredIn(committed', Len(committed'), upload'[f].nodes[x])
    <2>1. PICK nodes : nodes = upload'[f].nodes
      OBVIOUS
    <2>2. Good(nodes)'
      BY <1>2, <1>3, <2>1
    <2> QED BY <2>1, <2>2 DEF RegisteredIn
  <1> HIDE DEF Good
  <1> QED BY <1>3 DEF NodesChosen, RegisteredIn

-----------------------------------------------------------------------------
(***************************************************************************)
(* A chunk's nodes are registered before the chunk is allocated.           *)
(***************************************************************************)

\* Replicas are selected among the nodes.
LEMMA SelectedAmong ==
    ASSUME NEW nodes \in Seq(DataNode), Len(nodes) > 0, NEW i \in Nat
    PROVE  /\ Len(Selected(nodes, i)) = ReplicaCount
           /\ \A j \in 1..ReplicaCount :
                /\ ((i + j - 1) % Len(nodes)) + 1 \in 1..Len(nodes)
                /\ Selected(nodes, i)[j] = nodes[((i + j - 1) % Len(nodes)) + 1]
           /\ \A n \in InSeq(Selected(nodes, i)) : \E x \in 1..Len(nodes) : n = nodes[x]
  <1>1. Len(Selected(nodes, i)) = ReplicaCount
    BY ClusterAssumption DEF Selected
  <1>2. \A j \in 1..ReplicaCount : ((i + j - 1) % Len(nodes)) + 1 \in 1..Len(nodes)
    <2> TAKE j \in 1..ReplicaCount
    <2>1. \A k \in Nat : (k % Len(nodes)) + 1 \in 1..Len(nodes)
      OBVIOUS
    <2>2. i + j - 1 \in Nat
      BY ClusterAssumption
    <2> QED BY <2>1, <2>2
  <1>3. \A j \in 1..ReplicaCount : Selected(nodes, i)[j] = nodes[((i + j - 1) % Len(nodes)) + 1]
    BY DEF Selected
  <1>4. \A n \in InSeq(Selected(nodes, i)) : \E j \in 1..ReplicaCount : n = Selected(nodes, i)[j]
    BY <1>1 DEF InSeq
  <1>5. \A n \in InSeq(Selected(nodes, i)) : \E x \in 1..Len(nodes) : n = nodes[x]
    BY <1>2, <1>3, <1>4
  <1> QED BY <1>1, <1>2, <1>3, <1>5

\* Whether nodes are registered first is a matter of the beginning of the log.
LEMMA PlacedCarries ==
    ASSUME NEW lg, NEW new, NEW k \in Nat \ {0}, \A x \in 1..k : new[x] = lg[x]
    PROVE  /\ PlacedAfter(lg, k) => PlacedAfter(new, k)
           /\ Departs(lg, k) => Departs(new, k)
  <1>1. k \in 1..k /\ \A x \in 1..(k - 1) : x \in 1..k
    OBVIOUS
  <1>2. PlacedAfter(lg, k) => PlacedAfter(new, k)
    BY <1>1 DEF PlacedAfter, RegisteredIn
  <1>3. Departs(lg, k) => Departs(new, k)
    BY DEF Departs
  <1> QED BY <1>2, <1>3

\* A log that departs from the committed one does so for good.
LEMMA DepartsStays ==
    ASSUME IInv, IInv', [Next]_vars, NewestCommits, NEW lg, NEW k \in Nat, Departs(lg, k)
    PROVE  Departs(lg, k)'
  <1>1. PICK x \in 1..k : x <= Len(committed) /\ lg[x] # committed[x]
    BY DEF Departs
  <1>2. x \in 1..Len(committed)
    BY <1>1, CommittedMoves
  <1>3. x <= Len(committed') /\ committed'[x] = committed[x]
    BY <1>1, <1>2, CommittedMoves
  <1> QED BY <1>1, <1>3 DEF Departs

\* A log that continues the committed one does not depart from it.
LEMMA ContinuesStays ==
    ASSUME IInv, NEW lg, Continues(lg), NEW k \in Nat
    PROVE  ~Departs(lg, k)
  <1>1. Len(committed) \in Nat
    BY DEF IInv, TypeOK
  <1> QED BY <1>1 DEF Departs, Continues

\* The allocation a leader appends comes after its nodes' registrations, unless it is
\* lost to the leader's log already.  Where the log is shorter than the committed one
\* and agrees with it, the committed one has this very allocation in its place.
LEMMA AskedPlaced ==
    ASSUME IInv, NodesChosen, RegisteredFirst,
           NEW lg \in Seq(Command), NEW cmd \in Command, Asked(cmd),
           NEW new, new = Append(lg, cmd), NEW k, k = Len(lg) + 1
    PROVE  PlacedAfter(new, k) \/ Departs(new, k)
  <1>0. Len(committed) \in Nat /\ k \in Nat \ {0}
    BY DEF IInv, TypeOK
  <1> SUFFICES ASSUME ~Departs(new, k) PROVE PlacedAfter(new, k)
    OBVIOUS
  <1>1. \A x \in 1..k : x <= Len(committed) => new[x] = committed[x]
    BY DEF Departs
  <1>2. CASE k <= Len(committed)
    <2>1. PlacedAfter(committed, k)
      BY <1>0, <1>2 DEF RegisteredFirst
    <2>2. \A x \in 1..k : new[x] = committed[x]
      BY <1>0, <1>1, <1>2
    <2> QED BY <1>0, <2>1, <2>2, PlacedCarries
  <1>3. CASE Len(committed) < k
    <2>1. new[k] = cmd
      OBVIOUS
    <2> SUFFICES ASSUME cmd.type = "ALLOC_CHUNK", NEW n \in InSeq(cmd.replicas)
                 PROVE  RegisteredIn(new, k - 1, n)
      BY <2>1 DEF PlacedAfter
    <2>2. PICK f \in File : upload[f] \in Allocation /\ cmd = AllocCommand(f, upload[f])
      BY DEF Asked
    <2>3. /\ upload[f].nodes \in Seq(DataNode) /\ upload[f].next \in Nat
          /\ Len(upload[f].nodes) > 0
      BY <2>2, ClusterAssumption DEF Allocation, IInv, AllocationsOpen
    <2>4. PICK x \in 1..Len(upload[f].nodes) : n = upload[f].nodes[x]
      BY <2>2, <2>3, SelectedAmong DEF AllocCommand
    <2>5. RegisteredIn(committed, Len(committed), n)
      BY <2>2, <2>4 DEF NodesChosen
    <2>6. PICK y \in 1..Len(committed) :
             committed[y].type = "REGISTER_NODE" /\ committed[y].node = n
      BY <2>5 DEF RegisteredIn
    <2>7. y \in 1..(k - 1) /\ y \in 1..k /\ y <= Len(committed)
      BY <1>0, <1>3
    <2>8. new[y] = committed[y]
      BY <1>1, <2>7
    <2> QED BY <2>6, <2>7, <2>8 DEF RegisteredIn
  <1> QED BY <1>0, <1>2, <1>3

\* In every log that may still be committed, registrations come first.
LEMMA RegisteredFirstStep ==
    ASSUME IInv, IInv', [Next]_vars, NewestCommits, NodesChosen, RegisteredFirst
    PROVE  RegisteredFirst'
  <1>1. /\ committed \in Seq(Command) /\ committed' \in Seq(Command)
        /\ branches \in Seq(Seq(Command)) /\ branches' \in Seq(Seq(Command))
    BY DEF IInv, TypeOK
  <1>2. ASSUME NEW lg, NEW k \in 1..Len(committed'), lg = committed' PROVE PlacedAfter(lg, k)
    <2>1. CASE committed' = committed
      BY <1>2, <2>1 DEF RegisteredFirst
    <2>2. CASE committed' # committed
      <3>1. /\ branches # <<>> /\ Len(committed') <= Len(branches[Len(branches)])
            /\ \A x \in 1..Len(committed') : committed'[x] = branches[Len(branches)][x]
        BY <2>2, CommittedMoves
      <3>2. PICK newest : newest = branches[Len(branches)]
        OBVIOUS
      <3>3. Len(branches) \in 1..Len(branches) /\ newest \in Seq(Command)
        BY <1>1, <3>1, <3>2
      <3>4. k \in 1..Len(newest) /\ k \in Nat \ {0} /\ \A x \in 1..k : lg[x] = newest[x]
        BY <1>1, <1>2, <3>1, <3>2, <3>3
      <3>5. PlacedAfter(newest, k) \/ Departs(newest, k)
        BY <3>2, <3>3, <3>4 DEF RegisteredFirst
      <3>6. ~Departs(newest, k)
        BY <3>1, <3>2, <3>4, ContinuesStays DEF NewestCommits
      <3> QED BY <3>4, <3>5, <3>6, PlacedCarries
    <2> QED BY <2>1, <2>2
  <1>3. ASSUME NEW t \in 1..Len(branches'), NEW lg, lg = branches'[t], NEW k \in 1..Len(lg)
        PROVE  PlacedAfter(lg, k) \/ Departs(lg, k)
    <2>0. lg \in Seq(Command) /\ k \in Nat \ {0}
      BY <1>1, <1>3
    <2>1. CASE t \in 1..Len(branches) /\ branches'[t] = branches[t]
      BY <1>3, <2>1 DEF RegisteredFirst
    <2>2. ASSUME NEW cmd \in Command, t \in 1..Len(branches), Asked(cmd),
                 branches'[t] = Append(branches[t], cmd)
          PROVE  PlacedAfter(lg, k) \/ Departs(lg, k)
      <3>0. branches[t] \in Seq(Command) /\ lg = Append(branches[t], cmd)
        BY <1>1, <1>3, <2>2
      <3>1. PICK old \in Seq(Command) : old = branches[t] /\ lg = Append(old, cmd)
        BY <3>0
      <3>2. CASE k = Len(old) + 1
        BY <2>2, <3>1, <3>2, AskedPlaced
      <3>3. CASE k # Len(old) + 1
        <4>1. k \in 1..Len(old) /\ \A x \in 1..k : lg[x] = old[x]
          BY <1>3, <3>1, <3>3
        <4>2. PlacedAfter(old, k) \/ Departs(old, k)
          BY <2>2, <3>1, <4>1 DEF RegisteredFirst
        <4> QED BY <2>0, <4>1, <4>2, PlacedCarries
      <3> QED BY <3>2, <3>3
    <2>3. CASE lg \in Inherited
      <3>1. CASE lg = committed
        BY <1>3, <3>1 DEF RegisteredFirst
      <3>2. ASSUME NEW s \in 1..Len(branches), Len(lg) <= Len(branches[s]),
                   \A x \in 1..Len(lg) : lg[x] = branches[s][x]
            PROVE  PlacedAfter(lg, k) \/ Departs(lg, k)
        <4>1. PICK old \in Seq(Command) : old = branches[s]
          BY <1>1
        <4>2. k \in 1..Len(old) /\ \A x \in 1..k : lg[x] = old[x]
          BY <1>3, <2>0, <3>2, <4>1
        <4>3. PlacedAfter(old, k) \/ Departs(old, k)
          BY <4>1, <4>2 DEF RegisteredFirst
        <4> QED BY <2>0, <4>2, <4>3, PlacedCarries
      <3> QED BY <2>3, <3>1, <3>2, InheritedContinues
    <2> QED BY <1>3, <2>1, <2>2, <2>3, BranchMoves
  <1>4. ASSUME NEW t \in 1..Len(branches'), NEW k \in 1..Len(branches'[t])
        PROVE  PlacedAfter(branches'[t], k) \/ Departs(branches[t], k)'
    <2>1. PICK lg : lg = branches'[t]
      OBVIOUS
    <2>2. k \in Nat
      BY <1>1, <1>4
    <2>3. PlacedAfter(lg, k) \/ Departs(lg, k)'
      BY <1>3, <1>4, <2>1, <2>2, DepartsStays
    <2> QED BY <2>1, <2>3 DEF Departs
  <1>5. \A k \in 1..Len(committed') : PlacedAfter(committed', k)
    BY <1>2
  <1> QED BY <1>4, <1>5 DEF RegisteredFirst, PlacedAfter, RegisteredIn

\* A master knows the nodes whose registrations it has applied.
LEMMA NodesFedStep ==
    ASSUME IInv, IInv', [Next]_vars, NewestCommits, NodesFed
    PROVE  NodesFed'
  <1>1. ASSUME NEW m \in Master, NEW k \in 1..(cursor'[m] - 1),
               committed'[k].type = "REGISTER_NODE"
        PROVE  committed'[k].node \in DOMAIN sm'[m].datanodes
    <2>0. /\ cursor[m] \in Nat /\ cursor[m] <= Len(committed) + 1 /\ Len(committed) \in Nat
          /\ cursor'[m] \in Nat /\ k \in Nat /\ 1 <= k /\ k <= cursor'[m] - 1
      <3>1. cursor[m] \in Nat /\ cursor[m] <= Len(committed) + 1 /\ Len(committed) \in Nat
        BY CursorsTyped
      <3>2. cursor'[m] \in Nat
        BY DEF IInv, TypeOK
      <3>3. QED
        BY <1>1, <3>1, <3>2
    <2>1. CASE SameButStatus(m) /\ cursor'[m] <= cursor[m]
      <3>1. k \in 1..(cursor[m] - 1) /\ k \in 1..Len(committed)
        BY <2>0, <2>1
      <3>2. committed'[k] = committed[k]
        BY <3>1, CommittedMoves
      <3> QED BY <1>1, <2>1, <3>1, <3>2 DEF NodesFed, SameButStatus
    <2>2. CASE Delivers(m)
      <3>1. PICK cmd \in Command : cmd = committed[cursor[m]]
        BY <2>2, CursorsTyped DEF Delivers
      <3>2. sm[m] \in Metadata /\ sm'[m] = Apply(sm[m], cmd) /\ committed' = committed
        BY <2>2, <3>1 DEF Delivers, IInv, AllSound
      <3>3. k \in 1..(cursor[m] - 1) \/ k = cursor[m]
        BY <2>0, <2>2 DEF Delivers
      <3>4. DOMAIN sm[m].datanodes \subseteq DOMAIN sm'[m].datanodes
        BY <3>2, ApplyEffect
      <3>5. CASE k \in 1..(cursor[m] - 1)
        BY <1>1, <3>2, <3>4, <3>5 DEF NodesFed
      <3>6. CASE k = cursor[m]
        BY <1>1, <3>1, <3>2, <3>6, ApplyEffect
      <3> QED BY <3>3, <3>5, <3>6
    <2> QED BY <2>1, <2>2, MastersMove
  <1> QED BY <1>1 DEF NodesFed

\* So it knows those of the chunks it applies.
LEMMA ReplicasRegisteredStep ==
    ASSUME IInv, IInv', [Next]_vars, NodesFed, RegisteredFirst, ReplicasRegistered
    PROVE  ReplicasRegistered'
  <1>1. ASSUME NEW m \in Master, NEW c \in DOMAIN sm'[m].chunks
        PROVE  InSeq(sm'[m].chunks[c].replicas) \subseteq DOMAIN sm'[m].datanodes
    <2>1. DOMAIN sm[m].datanodes \subseteq DOMAIN sm'[m].datanodes
      <3>1. CASE SameButStatus(m)
        BY <3>1 DEF SameButStatus
      <3>2. CASE Delivers(m)
        <4>1. PICK cmd \in Command : cmd = committed[cursor[m]]
          BY <3>2, CursorsTyped DEF Delivers
        <4>2. sm[m] \in Metadata /\ sm'[m] = Apply(sm[m], cmd)
          BY <3>2, <4>1 DEF Delivers, IInv, AllSound
        <4> QED BY <4>2, ApplyEffect
      <3> QED BY <3>1, <3>2, MastersMove
    <2>2. CASE c \in DOMAIN sm[m].chunks /\ sm'[m].chunks[c] = sm[m].chunks[c]
      BY <2>1, <2>2 DEF ReplicasRegistered
    <2>3. CASE ~(c \in DOMAIN sm[m].chunks /\ sm'[m].chunks[c] = sm[m].chunks[c])
      <3> DEFINE k == cursor[m]
      <3>1. /\ k \in 1..Len(committed) /\ committed[k].type = "ALLOC_CHUNK"
            /\ sm'[m].chunks[c].replicas = committed[k].replicas
        BY <1>1, <2>3, ChunksMove DEF Delivers
      <3>2. PlacedAfter(committed, k)
        BY <3>1 DEF RegisteredFirst
      <3>3. ASSUME NEW n \in InSeq(committed[k].replicas) PROVE n \in DOMAIN sm[m].datanodes
        <4>1. PICK j \in 1..(k - 1) :
                 committed[j].type = "REGISTER_NODE" /\ committed[j].node = n
          BY <3>1, <3>2, <3>3 DEF PlacedAfter, RegisteredIn
        <4> QED BY <4>1 DEF NodesFed
      <3> HIDE DEF k
      <3> QED BY <2>1, <3>1, <3>3
    <2> QED BY <2>2, <2>3
  <1> QED BY <1>1 DEF ReplicasRegistered

-----------------------------------------------------------------------------
\* Nothing is allocated at first.
LEMMA PlaceInit == Init => PlaceInv
  <1> SUFFICES ASSUME Init PROVE PlaceInv
    OBVIOUS
  <1> USE DEF Init, LogInit
  <1>1. DOMAIN <<>> = {} /\ Len(<<>>) = 0
    OBVIOUS
  <1>2. LogsTold /\ RegisteredFirst /\ NewestCommits
    BY <1>1 DEF LogsTold, RegisteredFirst, NewestCommits
  <1>3. ChunksTold /\ NodesLogged /\ NodesFed /\ ReplicasRegistered
    BY <1>1 DEF ChunksTold, NodesLogged, NodesFed, ReplicasRegistered, NoMetadata
  <1>4. Waiting \notin Allocation
    BY DEF Waiting, Allocation
  <1>5. NodesChosen
    BY <1>4 DEF NodesChosen
  <1> QED BY <1>2, <1>3, <1>5 DEF PlaceInv

\* The placement of chunks holds always.
LEMMA PlaceInvariant == Spec => [](IInv /\ PlaceInv)
  <1>1. IInv /\ PlaceInv /\ [Next]_vars => IInv' /\ PlaceInv'
    <2> SUFFICES ASSUME IInv, PlaceInv, [Next]_vars PROVE IInv' /\ PlaceInv'
      OBVIOUS
    <2>1. IInv'
      BY StepInv
    <2>2. LogsTold' /\ ChunksTold'
      BY <2>1, LogsToldStep, ChunksToldStep DEF PlaceInv
    <2>3. NodesChosen' /\ NodesLogged'
      BY <2>1, NodesChosenStep, NodesLoggedStep DEF PlaceInv
    <2>4. RegisteredFirst' /\ NewestCommits'
      BY <2>1, RegisteredFirstStep, NewestCommitsStep DEF PlaceInv
    <2>5. NodesFed' /\ ReplicasRegistered'
      BY <2>1, NodesFedStep, ReplicasRegisteredStep DEF PlaceInv
    <2> QED BY <2>1, <2>2, <2>3, <2>4, <2>5 DEF PlaceInv
  <1> QED BY InitInv, PlaceInit, <1>1, PTL DEF Spec

\* As many nodes are selected as there are replicas.
LEMMA SelectedApart ==
    ASSUME NEW nodes \in Seq(DataNode), Len(nodes) >= ReplicaCount, NEW i \in Nat,
           \A x, y \in 1..Len(nodes) : nodes[x] = nodes[y] => x = y
    PROVE  /\ Len(Selected(nodes, i)) = ReplicaCount
           /\ Cardinality(InSeq(Selected(nodes, i))) = ReplicaCount
  <1> DEFINE s == Selected(nodes, i)
  <1>0. ReplicaCount \in Nat /\ Len(nodes) \in Nat \ {0}
    BY ClusterAssumption
  <1>1. Len(s) = ReplicaCount
    BY <1>0, SelectedAmong
  <1> DEFINE place(j) == ((i + j - 1) % Len(nodes)) + 1
  <1>2. \A j \in 1..ReplicaCount : place(j) \in 1..Len(nodes) /\ s[j] = nodes[place(j)]
    <2>1. Len(nodes) > 0
      BY <1>0
    <2> QED BY <2>1, SelectedAmong, Zenon
  <1>3. \A j, k \in 1..ReplicaCount : s[j] = s[k] => j = k
    <2> TAKE j, k \in 1..ReplicaCount
    <2> HAVE s[j] = s[k]
    <2>1. place(j) = place(k)
      <3> HIDE DEF place, s
      <3> QED BY <1>2
    <2>2. /\ (i + j - 1) % Len(nodes) \in Int
          /\ (i + k - 1) % Len(nodes) \in Int
      BY <1>0
    <2>3. (i + j - 1) % Len(nodes) = (i + k - 1) % Len(nodes)
      BY <2>1, <2>2
    <2> QED BY <1>0, <2>3, RoundApart
  <1>4. s \in [1..ReplicaCount -> InSeq(s)]
    <2>1. s = [j \in 1..ReplicaCount |-> s[j]]
      BY DEF Selected
    <2> QED BY <1>1, <2>1 DEF InSeq
  <1>5. s \in Bijection(1..ReplicaCount, InSeq(s))
    <2>1. \A n \in InSeq(s) : \E j \in 1..ReplicaCount : s[j] = n
      BY <1>1 DEF InSeq
    <2> HIDE DEF s
    <2> QED BY <1>3, <1>4, <2>1 DEF Bijection, Injection, Surjection, IsInjective
  <1>6. Cardinality(InSeq(s)) = ReplicaCount
    BY <1>0, <1>5, FS_CountingElements DEF ExistsBijection
  <1> QED BY <1>1, <1>6

\* For any number of masters, nodes and terms: whichever master a reader asks, a chunk
\* it knows has as many replicas as configured, on different nodes that this master
\* knows, although another master chose them from its own list (handleAllocChunk), and
\* a command of a deposed leader or a queue fed again can come in between.
THEOREM ChunksPlaced == Spec => []ReplicasKnown
  <1>1. IInv /\ PlaceInv => ReplicasKnown
    <2> SUFFICES ASSUME IInv, PlaceInv, NEW m \in Master, NEW c \in DOMAIN sm[m].chunks
                 PROVE  LET rs == sm[m].chunks[c].replicas
                        IN  /\ Len(rs) = ReplicaCount
                            /\ Cardinality(InSeq(rs)) = ReplicaCount
                            /\ InSeq(rs) \subseteq DOMAIN sm[m].datanodes
      BY DEF ReplicasKnown
    <2>1. PICK f \in File, i \in Nat : c = <<f, i>>
      <3>1. c \in File \X (0..(MaxChunks - 1))
        BY DEF IInv, TypeOK
      <3> QED BY <3>1, ClusterAssumption
    <2>2. /\ upload[f] \in Allocation
          /\ sm[m].chunks[c].replicas = Selected(upload[f].nodes, i)
      BY <2>1 DEF PlaceInv, ChunksTold, ToldBy
    <2>3. /\ upload[f].nodes \in Seq(DataNode) /\ Len(upload[f].nodes) >= ReplicaCount
          /\ \A x, y \in 1..Len(upload[f].nodes) :
               upload[f].nodes[x] = upload[f].nodes[y] => x = y
      BY <2>2 DEF PlaceInv, NodesChosen, Allocation
    <2>4. InSeq(sm[m].chunks[c].replicas) \subseteq DOMAIN sm[m].datanodes
      BY DEF PlaceInv, ReplicasRegistered
    <2> QED BY <2>2, <2>3, <2>4, SelectedApart
  <1> QED BY <1>1, PlaceInvariant, PTL

\* A client of handleAllocChunk that was told where to write chunk i was told the
\* replicas that every master which knows the chunk has.
THEOREM ClientsToldRight == Spec => []ToldAsRecorded
  <1>1. PlaceInv => ToldAsRecorded
    <2> SUFFICES ASSUME PlaceInv, NEW m \in Master, NEW f \in File,
                        upload[f] \in Allocation, NEW i \in 0..(upload[f].next - 1),
                        ChunkID(f, i) \in DOMAIN sm[m].chunks
                 PROVE  sm[m].chunks[ChunkID(f, i)].replicas = Selected(upload[f].nodes, i)
      BY DEF ToldAsRecorded
    <2>1. ChunkID(f, i)[1] = f /\ ChunkID(f, i)[2] = i
      BY DEF ChunkID
    <2> QED BY <2>1 DEF PlaceInv, ChunksTold, ToldBy
  <1> QED BY <1>1, PlaceInvariant, PTL

\* No step of the cluster makes a master forget a chunk or move it to other replicas:
\* an allocation that is applied again (applyC fed again) says the same.
THEOREM ChunksStayPut == Spec => ChunksStay
  <1>1. IInv /\ PlaceInv /\ [Next]_vars =>
          [\A m \in Master : \A c \in DOMAIN sm[m].chunks :
             /\ c \in DOMAIN sm'[m].chunks
             /\ sm'[m].chunks[c].replicas = sm[m].chunks[c].replicas]_vars
    <2> SUFFICES ASSUME IInv, PlaceInv, [Next]_vars,
                        NEW m \in Master, NEW c \in DOMAIN sm[m].chunks
                 PROVE  /\ c \in DOMAIN sm'[m].chunks
                        /\ sm'[m].chunks[c].replicas = sm[m].chunks[c].replicas
      OBVIOUS
    <2>1. CASE sm'[m].chunks = sm[m].chunks
      BY <2>1
    <2>2. ASSUME NEW cmd, cmd = committed[cursor[m]], cursor[m] \in 1..Len(committed),
                 cmd.type = "ALLOC_CHUNK", c = ChunkID(cmd.file, cmd.index),
                 sm'[m].chunks[c].replicas = cmd.replicas
          PROVE  sm'[m].chunks[c].replicas = sm[m].chunks[c].replicas
      <3>1. ToldBy(cmd.file, cmd.index, cmd.replicas)
        BY <2>2 DEF PlaceInv, LogsTold, CommandTold
      <3>2. c[1] = cmd.file /\ c[2] = cmd.index
        BY <2>2 DEF ChunkID
      <3>3. ToldBy(cmd.file, cmd.index, sm[m].chunks[c].replicas)
        BY <3>2 DEF PlaceInv, ChunksTold
      <3> QED BY <2>2, <3>1, <3>3 DEF ToldBy
    <2> QED BY <2>1, <2>2, ChunksMove DEF Delivers
  <1> QED BY <1>1, PlaceInvariant, PTL DEF Spec, ChunksStay

-----------------------------------------------------------------------------
(***************************************************************************)
(* The metadata a log stands for.  Induction is over the set of numbers    *)
(* for which a fact is known, which takes no operator as a parameter, and  *)
(* rests on the least number outside of it.                                *)
(***************************************************************************)

\* A set of numbers that begins at 0 and goes on is complete.
LEMMA CountUp ==
    ASSUME NEW N \in Nat, NEW S, 0 \in S, \A n \in 0..(N - 1) : n \in S => n + 1 \in S
    PROVE  0..N \subseteq S
  <1> DEFINE R == {ss \in Nat \X Nat : ss[1] < ss[2]}
             T == (0..N) \ S
  <1>1. IsWellFoundedOn(R, Nat)
    BY NatLessThanWellFounded, Zenon DEF OpToRel
  <1>2. \A y, x \in Nat : y < x => <<y, x>> \in R
    OBVIOUS
  <1> HIDE DEF R
  <1> SUFFICES ASSUME T # {} PROVE FALSE
    OBVIOUS
  <1>3. T \subseteq Nat
    OBVIOUS
  <1>4. PICK x \in T : \A y \in T : ~(<<y, x>> \in R)
    BY <1>1, <1>3, WFMin, Zenon
  <1>5. x \in 1..N /\ x - 1 \in 0..(N - 1) /\ x - 1 \in Nat /\ x \in Nat /\ x - 1 < x
    OBVIOUS
  <1>6. x - 1 \notin T
    BY <1>2, <1>4, <1>5
  <1>7. x - 1 \in S
    BY <1>5, <1>6
  <1>8. (x - 1) + 1 \in S
    BY <1>5, <1>7
  <1> QED BY <1>5, <1>8

\* N steps from v0, each by a function of its own.
Steps(g, N, V, v0, F) ==
    g \in [0..N -> V] /\ g[0] = v0 /\ \A k \in 1..N : g[k] = F[k][g[k - 1]]

\* What is defined from a number to the next is defined.
LEMMA Recursion ==
    ASSUME NEW N \in Nat, NEW V, NEW v0 \in V, NEW F \in [1..N -> [V -> V]]
    PROVE  \E g : Steps(g, N, V, v0, F)
  <1> USE DEF Steps
  <1> DEFINE Upto(n) == \E g : Steps(g, n, V, v0, F)
             S == {n \in 0..N : Upto(n)}
  <1>1. 0 \in S
    <2> DEFINE g == [k \in 0..0 |-> v0]
    <2>1. g \in [0..0 -> V] /\ g[0] = v0
      OBVIOUS
    <2>2. \A k \in 1..0 : FALSE
      OBVIOUS
    <2> HIDE DEF g
    <2>3. Upto(0)
      BY <2>1, <2>2
    <2> HIDE DEF Upto
    <2> QED BY <2>3
  <1>2. ASSUME NEW n \in 0..(N - 1), n \in S PROVE n + 1 \in S
    <2>0. /\ n \in Nat /\ n + 1 \in 0..N /\ n + 1 \in 1..N
          /\ n \in 0..n /\ 0 \in 0..n /\ n + 1 \notin 0..n
          /\ 0..(n + 1) = (0..n) \cup {n + 1}
          /\ 1..(n + 1) = (1..n) \cup {n + 1}
          /\ (n + 1) - 1 = n
          /\ \A k \in 1..n : k \in 0..n /\ k - 1 \in 0..n
      OBVIOUS
    <2>1. PICK g : Steps(g, n, V, v0, F)
      BY <1>2
    <2> DEFINE v == F[n + 1][g[n]]
               h == [k \in 0..(n + 1) |-> IF k \in 0..n THEN g[k] ELSE v]
    <2>2. v \in V
      BY <2>0, <2>1
    <2> HIDE DEF v
    <2>3. h \in [0..(n + 1) -> V]
      BY <2>1, <2>2
    <2>4. h[n + 1] = v /\ \A k \in 0..n : h[k] = g[k]
      BY <2>0
    <2> HIDE DEF h
    <2>5. \A k \in 1..n : h[k] = F[k][h[k - 1]]
      BY <2>0, <2>1, <2>4
    <2>6. h[n + 1] = F[n + 1][h[(n + 1) - 1]]
      BY <2>0, <2>4 DEF v
    <2>7. h[0] = v0
      BY <2>0, <2>1, <2>4
    <2>8. \A k \in 1..(n + 1) : h[k] = F[k][h[k - 1]]
      BY <2>0, <2>5, <2>6
    <2>9. Upto(n + 1)
      BY <2>3, <2>7, <2>8
    <2> QED BY <2>0, <2>9
  <1> HIDE DEF Upto
  <1>3. 0..N \subseteq S
    <2> HIDE DEF S
    <2> QED BY <1>1, <1>2, CountUp
  <1>4. N \in S
    BY <1>3
  <1> QED BY <1>4 DEF Upto

\* A log is applied one command after the other.
LEMMA ReplaySteps ==
    ASSUME NEW lg \in Seq(Command)
    PROVE  /\ Replay(lg)[0] = NoMetadata
           /\ \A n \in 0..Len(lg) : Sound(Replay(lg)[n])
           /\ \A n \in 1..Len(lg) : Replay(lg)[n] = Apply(Replay(lg)[n - 1], lg[n])
  <1> DEFINE N == Len(lg)
             V == {s \in Metadata : Sound(s)}
             F == [n \in 1..N |-> [s \in V |-> Apply(s, lg[n])]]
             Equation(r) == r = [n \in 0..N |-> IF n = 0 THEN NoMetadata
                                                ELSE Apply(r[n - 1], lg[n])]
  <1>1. N \in Nat /\ \A n \in 1..N : lg[n] \in Command
    OBVIOUS
  <1>2. NoMetadata \in V
    BY NothingSound DEF Sound
  <1>3. ASSUME NEW s \in V, NEW n \in 1..N PROVE Apply(s, lg[n]) \in V
    <2>1. lg[n] \in AnyCommand
      BY <1>1 DEF AnyCommand
    <2> QED BY <2>1, ApplySound DEF Sound
  <1> HIDE DEF V, N
  <1>4. F \in [1..N -> [V -> V]]
    BY <1>3
  <1>5. \A s \in V, n \in 1..N : F[n][s] = Apply(s, lg[n])
    OBVIOUS
  <1> HIDE DEF F
  <1>6. PICK g \in [0..N -> V] : g[0] = NoMetadata /\ \A k \in 1..N : g[k] = F[k][g[k - 1]]
    <2>1. N \in Nat
      BY <1>1
    <2>2. PICK g : Steps(g, N, V, NoMetadata, F)
      BY <1>2, <1>4, <2>1, Recursion, Zenon
    <2> QED BY <2>2 DEF Steps
  <1>0. \A n \in 1..N : n \in 0..N /\ n - 1 \in 0..N /\ n # 0
    BY <1>1
  <1>7. Equation(g)
    <2>1. \A n \in 1..N : g[n - 1] \in V
      BY <1>0, <1>6
    <2>2. \A n \in 1..N : g[n] = Apply(g[n - 1], lg[n])
      BY <1>5, <1>6, <2>1
    <2>3. \A n \in 0..N : g[n] = IF n = 0 THEN NoMetadata ELSE Apply(g[n - 1], lg[n])
      <3>1. \A n \in 0..N : n = 0 \/ n \in 1..N
        BY <1>1
      <3> QED BY <1>6, <2>2, <3>1
    <2> QED BY <2>3
  <1>8. Replay(lg) = CHOOSE r : Equation(r)
    BY DEF Replay, N
  <1>9. Equation(Replay(lg))
    <2> HIDE DEF Equation
    <2> QED BY <1>7, <1>8
  <1>10. /\ Replay(lg)[0] = NoMetadata
         /\ \A n \in 1..N : Replay(lg)[n] = Apply(Replay(lg)[n - 1], lg[n])
    <2>1. 0 \in 0..N
      BY <1>1
    <2> DEFINE r == Replay(lg)
    <2>2. Equation(r)
      BY <1>9
    <2> HIDE DEF r
    <2>3. \A n \in 0..N : r[n] = IF n = 0 THEN NoMetadata ELSE Apply(r[n - 1], lg[n])
      BY <2>2
    <2> QED BY <1>0, <2>1, <2>3 DEF r
  <1> HIDE DEF Equation
  <1> DEFINE S == {n \in 0..N : Replay(lg)[n] \in V}
  <1>11. 0..N \subseteq S
    <2>1. 0 \in S
      BY <1>1, <1>2, <1>10
    <2>2. ASSUME NEW n \in 0..(N - 1), n \in S PROVE n + 1 \in S
      <3>1. n + 1 \in 1..N /\ n + 1 \in 0..N /\ (n + 1) - 1 = n
        BY <1>1
      <3>2. Replay(lg)[n + 1] = Apply(Replay(lg)[n], lg[n + 1])
        BY <1>10, <3>1
      <3>3. Replay(lg)[n] \in V
        BY <2>2
      <3> QED BY <1>3, <3>1, <3>2, <3>3
    <2> HIDE DEF S
    <2> QED BY <1>1, <2>1, <2>2, CountUp
  <1> QED BY <1>10, <1>11 DEF V, N

\* What a log has applied is a matter of its beginning.
LEMMA ReplayCarries ==
    ASSUME NEW lg \in Seq(Command), NEW new \in Seq(Command), NEW k \in Nat,
           k <= Len(lg), k <= Len(new), \A x \in 1..k : new[x] = lg[x]
    PROVE  \A n \in 0..k : Replay(new)[n] = Replay(lg)[n]
  <1> DEFINE S == {n \in 0..k : Replay(new)[n] = Replay(lg)[n]}
  <1>1. 0 \in S
    BY ReplaySteps
  <1>2. ASSUME NEW n \in 0..(k - 1), n \in S PROVE n + 1 \in S
    <2>1. /\ n + 1 \in 1..k /\ n + 1 \in 0..k /\ (n + 1) - 1 = n
          /\ n + 1 \in 1..Len(lg) /\ n + 1 \in 1..Len(new)
      OBVIOUS
    <2>2. Replay(lg)[n + 1] = Apply(Replay(lg)[n], lg[n + 1])
      BY <2>1, ReplaySteps
    <2>3. Replay(new)[n + 1] = Apply(Replay(new)[n], new[n + 1])
      BY <2>1, ReplaySteps
    <2> QED BY <1>2, <2>1, <2>2, <2>3
  <1> HIDE DEF S
  <1>3. 0..k \subseteq S
    BY <1>1, <1>2, CountUp
  <1> QED BY <1>3 DEF S

\* The repetitions of a sequence are left out one element after the other.
LEMMA FirstsSteps ==
    ASSUME NEW S, NEW s \in Seq(S)
    PROVE  /\ FirstsOf(s)[0] = <<>>
           /\ \A n \in 0..Len(s) : FirstsOf(s)[n] \in Seq(S)
           /\ \A n \in 1..Len(s) :
                FirstsOf(s)[n] = IF s[n] \in InSeq(FirstsOf(s)[n - 1]) THEN FirstsOf(s)[n - 1]
                                 ELSE Append(FirstsOf(s)[n - 1], s[n])
  <1> DEFINE N == Len(s)
             Keep(t, n) == IF s[n] \in InSeq(t) THEN t ELSE Append(t, s[n])
             V == Seq(S)
             F == [n \in 1..N |-> [t \in V |-> Keep(t, n)]]
             Equation(r) == r = [n \in 0..N |-> IF n = 0 THEN <<>> ELSE Keep(r[n - 1], n)]
  <1>1. N \in Nat /\ \A n \in 1..N : s[n] \in S
    OBVIOUS
  <1>2. <<>> \in V
    OBVIOUS
  <1>3. ASSUME NEW t \in V, NEW n \in 1..N PROVE Keep(t, n) \in V
    BY <1>1
  <1>8. FirstsOf(s) = CHOOSE r : Equation(r)
    BY DEF FirstsOf
  <1> HIDE DEF V, N, Keep
  <1>4. F \in [1..N -> [V -> V]]
    BY <1>3
  <1>5. \A t \in V, n \in 1..N : F[n][t] = Keep(t, n)
    OBVIOUS
  <1> HIDE DEF F
  <1>6. PICK g \in [0..N -> V] : g[0] = <<>> /\ \A k \in 1..N : g[k] = F[k][g[k - 1]]
    <2>1. N \in Nat
      BY <1>1
    <2>2. PICK g : Steps(g, N, V, <<>>, F)
      BY <1>2, <1>4, <2>1, Recursion, Zenon
    <2> QED BY <2>2 DEF Steps
  <1>0. \A n \in 1..N : n \in 0..N /\ n - 1 \in 0..N /\ n # 0
    BY <1>1
  <1>7. Equation(g)
    <2>1. \A n \in 1..N : g[n - 1] \in V
      BY <1>0, <1>6
    <2>2. \A n \in 1..N : g[n] = Keep(g[n - 1], n)
      BY <1>5, <1>6, <2>1
    <2>3. \A n \in 0..N : g[n] = IF n = 0 THEN <<>> ELSE Keep(g[n - 1], n)
      <3>1. \A n \in 0..N : n = 0 \/ n \in 1..N
        BY <1>1
      <3> QED BY <1>6, <2>2, <3>1
    <2> QED BY <2>3
  <1>9. Equation(FirstsOf(s))
    <2> HIDE DEF Equation
    <2> QED BY <1>7, <1>8
  <1>10. /\ FirstsOf(s)[0] = <<>>
         /\ \A n \in 1..N : FirstsOf(s)[n] = Keep(FirstsOf(s)[n - 1], n)
    <2>1. 0 \in 0..N
      BY <1>1
    <2> DEFINE r == FirstsOf(s)
    <2>2. Equation(r)
      BY <1>9
    <2> HIDE DEF r
    <2>3. \A n \in 0..N : r[n] = IF n = 0 THEN <<>> ELSE Keep(r[n - 1], n)
      BY <2>2
    <2> QED BY <1>0, <2>1, <2>3 DEF r
  <1> HIDE DEF Equation
  <1> DEFINE T == {n \in 0..N : FirstsOf(s)[n] \in V}
  <1>11. 0..N \subseteq T
    <2>1. 0 \in T
      BY <1>1, <1>2, <1>10
    <2>2. ASSUME NEW n \in 0..(N - 1), n \in T PROVE n + 1 \in T
      <3>1. n + 1 \in 1..N /\ n + 1 \in 0..N /\ (n + 1) - 1 = n
        BY <1>1
      <3>2. FirstsOf(s)[n + 1] = Keep(FirstsOf(s)[n], n + 1)
        BY <1>10, <3>1
      <3>3. FirstsOf(s)[n] \in V
        BY <2>2
      <3> QED BY <1>3, <3>1, <3>2, <3>3
    <2> HIDE DEF T
    <2> QED BY <1>1, <2>1, <2>2, CountUp
  <1> QED BY <1>10, <1>11 DEF V, N, Keep

\* One element more is one more to keep, unless it is a repetition.
LEMMA FirstsAppend ==
    ASSUME NEW S, NEW s \in Seq(S), NEW x \in S
    PROVE  /\ Firsts(<<>>) = <<>>
           /\ Firsts(s) \in Seq(S)
           /\ Firsts(Append(s, x)) = IF x \in InSeq(Firsts(s)) THEN Firsts(s)
                                     ELSE Append(Firsts(s), x)
  <1>1. <<>> \in Seq(S) /\ Len(<<>>) = 0
    OBVIOUS
  <1>2. Firsts(<<>>) = <<>>
    BY <1>1, FirstsSteps DEF Firsts
  <1>3. Firsts(s) \in Seq(S)
    <2>1. Len(s) \in 0..Len(s)
      OBVIOUS
    <2> QED BY <2>1, FirstsSteps DEF Firsts
  <1> DEFINE t == Append(s, x)
             N == Len(s)
  <1>4. /\ t \in Seq(S) /\ Len(t) = N + 1 /\ t[N + 1] = x /\ N \in Nat
        /\ \A k \in 1..N : t[k] = s[k]
    OBVIOUS
  <1> HIDE DEF t
  <1> DEFINE T == {n \in 0..N : FirstsOf(t)[n] = FirstsOf(s)[n]}
  <1>5. 0 \in T
    BY <1>4, FirstsSteps
  <1>6. ASSUME NEW n \in 0..(N - 1), n \in T PROVE n + 1 \in T
    <2>1. /\ n + 1 \in 1..N /\ n + 1 \in 0..N /\ (n + 1) - 1 = n
          /\ n + 1 \in 1..Len(t)
      BY <1>4
    <2>2. FirstsOf(s)[n + 1] =
            IF s[n + 1] \in InSeq(FirstsOf(s)[n]) THEN FirstsOf(s)[n]
            ELSE Append(FirstsOf(s)[n], s[n + 1])
      BY <2>1, FirstsSteps
    <2>3. FirstsOf(t)[n + 1] =
            IF t[n + 1] \in InSeq(FirstsOf(t)[n]) THEN FirstsOf(t)[n]
            ELSE Append(FirstsOf(t)[n], t[n + 1])
      BY <1>4, <2>1, FirstsSteps
    <2>4. t[n + 1] = s[n + 1] /\ FirstsOf(t)[n] = FirstsOf(s)[n]
      BY <1>4, <1>6, <2>1
    <2> QED BY <2>1, <2>2, <2>3, <2>4
  <1>7. N \in T
    <2> HIDE DEF T
    <2>1. 0..N \subseteq T
      BY <1>4, <1>5, <1>6, CountUp
    <2> QED BY <1>4, <2>1
  <1>8. FirstsOf(t)[N] = FirstsOf(s)[N]
    BY <1>7
  <1>9. FirstsOf(t)[N + 1] = IF x \in InSeq(FirstsOf(t)[N]) THEN FirstsOf(t)[N]
                             ELSE Append(FirstsOf(t)[N], x)
    <2>1. N + 1 \in 1..Len(t) /\ (N + 1) - 1 = N
      BY <1>4
    <2> QED BY <1>4, <2>1, FirstsSteps
  <1> QED BY <1>2, <1>3, <1>4, <1>8, <1>9 DEF Firsts, t

-----------------------------------------------------------------------------
(***************************************************************************)
(* A master against the log it is fed: what it has been fed since it last  *)
(* started over is there, and there is nothing that the log does not say.  *)
(* Replay itself is such a master, which never starts over.                *)
(***************************************************************************)

\* The chunk that an allocation makes, and its ID.
IdOf(cmd)    == ChunkID(cmd.file, cmd.index)
ChunkOf(cmd) == [file |-> cmd.file, content |-> Unset, replicas |-> cmd.replicas]

\* The metadata has what the command makes.
Made(s, cmd) ==
    /\ cmd.type = "REGISTER_NODE" => cmd.node \in DOMAIN s.datanodes
    /\ cmd.type = "CREATE_FILE" => cmd.file \in DOMAIN s.files
    /\ cmd.type = "ALLOC_CHUNK" => IdOf(cmd) \in DOMAIN s.chunks

\* The metadata has nothing but what the first n commands of the log make.
MadeBy(s, lg, n) ==
    /\ \A d \in DOMAIN s.datanodes : RegisteredIn(lg, n, d)
    /\ \A f \in DOMAIN s.files : \E k \in 1..n : lg[k].type = "CREATE_FILE" /\ lg[k].file = f
    /\ \A c \in DOMAIN s.chunks : \E k \in 1..n :
         lg[k].type = "ALLOC_CHUNK" /\ IdOf(lg[k]) = c /\ s.chunks[c] = ChunkOf(lg[k])

\* Two commands that create the same file or allocate the same chunk.
Alike(a, b) ==
    /\ a.type = b.type /\ a.type \in {"CREATE_FILE", "ALLOC_CHUNK"}
    /\ a.file = b.file
    /\ a.type = "ALLOC_CHUNK" => a.index = b.index

Once(lg) == \A j, k \in 1..Len(lg) : Alike(lg[j], lg[k]) => j = k

\* A file that the first n commands of the log create has the list of chunks, but for
\* repetitions, that the log gives it, there or further on.
Listed(s, lg, n) ==
    \A p \in 1..n : lg[p].type = "CREATE_FILE" =>
        /\ lg[p].file \in DOMAIN s.files
        /\ \E r \in n..Len(lg) : Firsts(s.files[lg[p].file]) = Replay(lg)[r].files[lg[p].file]

\* What the commands of the handlers do to lists of chunks, and to a chunk.
LEMMA ApplyLists ==
    ASSUME NEW s \in Metadata, NEW cmd \in Command
    PROVE  /\ cmd.type = "REGISTER_NODE" => Apply(s, cmd).files = s.files
           /\ cmd.type = "CREATE_FILE" =>
                /\ DOMAIN Apply(s, cmd).files = DOMAIN s.files \cup {cmd.file}
                /\ Apply(s, cmd).files[cmd.file] = <<>>
                /\ \A f \in DOMAIN s.files \ {cmd.file} : Apply(s, cmd).files[f] = s.files[f]
           /\ cmd.type = "ALLOC_CHUNK" =>
                /\ Apply(s, cmd).chunks[IdOf(cmd)] = ChunkOf(cmd)
                /\ DOMAIN Apply(s, cmd).files = DOMAIN s.files
                /\ cmd.file \in DOMAIN s.files =>
                     Apply(s, cmd).files[cmd.file] = Append(s.files[cmd.file], IdOf(cmd))
                /\ \A f \in DOMAIN s.files \ {cmd.file} : Apply(s, cmd).files[f] = s.files[f]
  <1>1. CASE cmd.type = "REGISTER_NODE"
    BY <1>1 DEF Apply, RegisterNode, Metadata
  <1>2. CASE cmd.type = "CREATE_FILE"
    <2>1. Apply(s, cmd) = CreateFile(s, cmd)
      BY <1>2 DEF Apply
    <2>2. Apply(s, cmd).files = Put(s.files, cmd.file, <<>>)
      BY <2>1 DEF CreateFile, Metadata
    <2>3. /\ DOMAIN Put(s.files, cmd.file, <<>>) = DOMAIN s.files \cup {cmd.file}
          /\ Put(s.files, cmd.file, <<>>)[cmd.file] = <<>>
          /\ \A f \in DOMAIN s.files \ {cmd.file} :
               Put(s.files, cmd.file, <<>>)[f] = s.files[f]
      BY DEF Put
    <2> QED BY <1>2, <2>2, <2>3
  <1>3. CASE cmd.type = "ALLOC_CHUNK"
    <2> DEFINE fs == IF cmd.file \in DOMAIN s.files
                     THEN [s.files EXCEPT ![cmd.file] = Append(s.files[cmd.file], IdOf(cmd))]
                     ELSE s.files
    <2>1. Apply(s, cmd) = AllocChunk(s, cmd)
      BY <1>3 DEF Apply
    <2>2. /\ Apply(s, cmd).chunks = Put(s.chunks, IdOf(cmd), ChunkOf(cmd))
          /\ Apply(s, cmd).files = fs
      BY <2>1 DEF AllocChunk, Metadata, IdOf, ChunkOf
    <2>3. Put(s.chunks, IdOf(cmd), ChunkOf(cmd))[IdOf(cmd)] = ChunkOf(cmd)
      BY DEF Put
    <2>4. PICK S : s.files \in [S -> Seq(Chunk)]
      BY DEF Metadata, FileTable
    <2>5. /\ DOMAIN fs = DOMAIN s.files
          /\ cmd.file \in DOMAIN s.files => fs[cmd.file] = Append(s.files[cmd.file], IdOf(cmd))
          /\ \A f \in DOMAIN s.files \ {cmd.file} : fs[f] = s.files[f]
      BY <2>4
    <2> HIDE DEF fs
    <2> QED BY <1>3, <2>2, <2>3, <2>5
  <1> QED BY <1>1, <1>2, <1>3, CommandFields

\* From s to t, the list of the file grows by the chunk that the command allocates, if
\* it allocates one of the file's, and stays otherwise.
Grown(s, t, cmd, f) ==
    /\ f \in DOMAIN t.files /\ s.files[f] \in Seq(Chunk)
    /\ \/ /\ cmd.type = "ALLOC_CHUNK" /\ cmd.file = f /\ IdOf(cmd) \in Chunk
          /\ t.files[f] = Append(s.files[f], IdOf(cmd))
       \/ ~(cmd.type = "ALLOC_CHUNK" /\ cmd.file = f) /\ t.files[f] = s.files[f]

\* That is what happens to a file that is not created anew.
LEMMA ListGrows ==
    ASSUME NEW s \in Metadata, NEW cmd \in Command, NEW f \in DOMAIN s.files,
           ~(cmd.type = "CREATE_FILE" /\ cmd.file = f)
    PROVE  Grown(s, Apply(s, cmd), cmd, f)
  <1>1. s.files[f] \in Seq(Chunk)
    BY DEF Metadata, FileTable
  <1>2. cmd.type = "ALLOC_CHUNK" => IdOf(cmd) \in Chunk
    BY CommandFields DEF IdOf, ChunkID, Chunk
  <1>3. f \in DOMAIN Apply(s, cmd).files
    BY ApplyLists, CommandFields
  <1>4. ~(cmd.type = "ALLOC_CHUNK" /\ cmd.file = f) => Apply(s, cmd).files[f] = s.files[f]
    BY ApplyLists, CommandFields
  <1>5. cmd.type = "ALLOC_CHUNK" /\ cmd.file = f => Apply(s, cmd).files[f] = Append(s.files[f], IdOf(cmd))
    BY ApplyLists
  <1> QED BY <1>1, <1>2, <1>3, <1>4, <1>5 DEF Grown

\* What a command makes is there, and stays when other commands are applied.
LEMMA MadeStays ==
    ASSUME NEW s \in Metadata, NEW cmd \in Command
    PROVE  /\ Made(Apply(s, cmd), cmd)
           /\ \A x : Made(s, x) => Made(Apply(s, cmd), x)
  <1>1. /\ DOMAIN s.datanodes \subseteq DOMAIN Apply(s, cmd).datanodes
        /\ DOMAIN s.chunks \subseteq DOMAIN Apply(s, cmd).chunks
    BY ApplyEffect
  <1>2. DOMAIN s.files \subseteq DOMAIN Apply(s, cmd).files
    BY ApplyLists, CommandFields
  <1>3. Made(Apply(s, cmd), cmd)
    BY ApplyEffect, ApplyLists DEF Made, IdOf
  <1> QED BY <1>1, <1>2, <1>3 DEF Made

\* Nor does a command make anything that the log does not say.
LEMMA MadeByStep ==
    ASSUME NEW s \in Metadata, NEW lg, NEW n \in Nat, NEW m \in Nat, n <= m,
           NEW k \in 1..m, NEW cmd \in Command, lg[k] = cmd, MadeBy(s, lg, n)
    PROVE  MadeBy(Apply(s, cmd), lg, m)
  <1>0. \A x \in 1..n : x \in 1..m
    OBVIOUS
  <1> DEFINE t == Apply(s, cmd)
  <1>1. ASSUME NEW d \in DOMAIN t.datanodes PROVE RegisteredIn(lg, m, d)
    <2>1. CASE d \in DOMAIN s.datanodes
      BY <1>0, <2>1 DEF MadeBy, RegisteredIn
    <2>2. CASE d \notin DOMAIN s.datanodes
      BY <1>1, <2>2, ApplyEffect DEF RegisteredIn
    <2> QED BY <2>1, <2>2
  <1>2. ASSUME NEW f \in DOMAIN t.files
        PROVE  \E x \in 1..m : lg[x].type = "CREATE_FILE" /\ lg[x].file = f
    <2>1. CASE f \in DOMAIN s.files
      BY <1>0, <2>1 DEF MadeBy
    <2>2. CASE f \notin DOMAIN s.files
      BY <1>2, <2>2, ApplyLists, CommandFields
    <2> QED BY <2>1, <2>2
  <1>3. ASSUME NEW c \in DOMAIN t.chunks
        PROVE  \E x \in 1..m :
                 lg[x].type = "ALLOC_CHUNK" /\ IdOf(lg[x]) = c /\ t.chunks[c] = ChunkOf(lg[x])
    <2>1. CASE cmd.type = "ALLOC_CHUNK" /\ c = IdOf(cmd)
      BY <2>1, ApplyLists
    <2>2. CASE ~(cmd.type = "ALLOC_CHUNK" /\ c = IdOf(cmd))
      <3>1. c \in DOMAIN s.chunks /\ t.chunks[c] = s.chunks[c]
        BY <1>3, <2>2, ApplyEffect DEF IdOf
      <3> HIDE DEF t
      <3> QED BY <1>0, <3>1 DEF MadeBy
    <2> QED BY <2>1, <2>2
  <1> QED BY <1>1, <1>2, <1>3 DEF MadeBy

\* Replay has what the log says and nothing else.
LEMMA ReplayMade ==
    ASSUME NEW lg \in Seq(Command), NEW n \in 0..Len(lg)
    PROVE  /\ Replay(lg)[n] \in Metadata
           /\ \A k \in 1..n : Made(Replay(lg)[n], lg[k])
           /\ MadeBy(Replay(lg)[n], lg, n)
  <1> DEFINE N == Len(lg)
             R == Replay(lg)
             S == {x \in 0..N : MadeBy(R[x], lg, x) /\ \A k \in 1..x : Made(R[x], lg[k])}
  <1>0. N \in Nat /\ \A x \in 0..N : R[x] \in Metadata
    BY ReplaySteps DEF Sound
  <1>1. 0 \in S
    <2>1. R[0] = NoMetadata /\ DOMAIN <<>> = {} /\ 0 \in 0..N
      BY <1>0, ReplaySteps
    <2>2. MadeBy(NoMetadata, lg, 0)
      BY <2>1 DEF MadeBy, NoMetadata
    <2>3. \A k \in 1..0 : FALSE
      OBVIOUS
    <2> HIDE DEF R, N
    <2> QED BY <2>1, <2>2, <2>3
  <1>2. ASSUME NEW x \in 0..(N - 1), x \in S PROVE x + 1 \in S
    <2>1. /\ x \in Nat /\ x + 1 \in 1..N /\ x + 1 \in 0..N /\ (x + 1) - 1 = x
          /\ x \in 0..N /\ x + 1 \in Nat /\ x <= x + 1 /\ x + 1 \in 1..(x + 1)
          /\ \A k \in 1..(x + 1) : k \in 1..x \/ k = x + 1
      BY <1>0
    <2>2. PICK cmd \in Command : cmd = lg[x + 1]
      BY <2>1
    <2>3. R[x + 1] = Apply(R[x], cmd)
      BY <2>1, <2>2, ReplaySteps
    <2> HIDE DEF R, N
    <2>4. R[x] \in Metadata
      BY <1>0, <2>1
    <2>5. MadeBy(R[x], lg, x) /\ \A k \in 1..x : Made(R[x], lg[k])
      BY <1>2
    <2>6. MadeBy(R[x + 1], lg, x + 1)
      BY <2>1, <2>2, <2>3, <2>4, <2>5, MadeByStep
    <2>7. \A k \in 1..(x + 1) : Made(R[x + 1], lg[k])
      BY <2>1, <2>2, <2>3, <2>4, <2>5, MadeStays
    <2> QED BY <2>1, <2>6, <2>7
  <1> HIDE DEF S
  <1>3. 0..N \subseteq S
    BY <1>0, <1>1, <1>2, CountUp
  <1> QED BY <1>0, <1>3 DEF S

\* A file that a log creates is given every chunk that it allocates later.
LEMMA ReplayLists ==
    ASSUME NEW lg \in Seq(Command), Once(lg), NEW p \in 1..Len(lg), NEW k \in 1..Len(lg), p < k,
           lg[p].type = "CREATE_FILE", lg[k].type = "ALLOC_CHUNK", lg[k].file = lg[p].file,
           NEW n \in k..Len(lg)
    PROVE  IdOf(lg[k]) \in InSeq(Replay(lg)[n].files[lg[p].file])
  <1> DEFINE N == Len(lg)
             R == Replay(lg)
             f == lg[p].file
             id == IdOf(lg[k])
             S == {x \in 0..N : k <= x => id \in InSeq(R[x].files[f])}
  <1>0. N \in Nat /\ k \in Nat /\ p \in Nat /\ \A x \in 0..N : R[x] \in Metadata
    BY ReplaySteps DEF Sound
  <1>1. 0 \in S
    BY <1>0
  <1>2. ASSUME NEW x \in 0..(N - 1), x \in S PROVE x + 1 \in S
    <2>1. /\ x \in Nat /\ x + 1 \in 1..N /\ x + 1 \in 0..N /\ (x + 1) - 1 = x /\ x \in 0..N
      BY <1>0
    <2> SUFFICES ASSUME k <= x + 1 PROVE id \in InSeq(R[x + 1].files[f])
      BY <2>1
    <2>2. PICK cmd \in Command : cmd = lg[x + 1]
      BY <2>1
    <2>3. R[x + 1] = Apply(R[x], cmd)
      BY <2>1, <2>2, ReplaySteps
    <2>4. p \in 1..x
      BY <1>0, <2>1
    <2>5. Made(R[x], lg[p])
      BY <2>1, <2>4, ReplayMade
    <2>6. f \in DOMAIN R[x].files /\ R[x].files[f] \in Seq(Chunk)
      <3>1. f \in DOMAIN R[x].files
        BY <2>5 DEF Made
      <3>2. R[x] \in Metadata
        BY <1>0, <2>1
      <3> HIDE DEF R, f
      <3> QED BY <3>1, <3>2 DEF Metadata, FileTable
    <2>7. ~(cmd.type = "CREATE_FILE" /\ cmd.file = f)
      <3>1. x + 1 # p
        BY <2>1, <2>4
      <3> QED BY <2>1, <2>2, <3>1 DEF Once, Alike
    <2> DEFINE old == R[x].files[f]
               new == R[x + 1].files[f]
    <2>8. \/ /\ cmd.type = "ALLOC_CHUNK" /\ cmd.file = f /\ IdOf(cmd) \in Chunk
             /\ new = Append(old, IdOf(cmd))
          \/ ~(cmd.type = "ALLOC_CHUNK" /\ cmd.file = f) /\ new = old
      <3>1. PICK u \in Metadata : u = R[x]
        BY <1>0, <2>1
      <3>2. f \in DOMAIN u.files
        BY <2>6, <3>1
      <3> HIDE DEF R, f
      <3>3. Grown(u, Apply(u, cmd), cmd, f)
        BY <2>7, <3>2, ListGrows
      <3> QED BY <2>3, <3>1, <3>3 DEF Grown
    <2>11. \A c \in Chunk : InSeq(Append(old, c)) = InSeq(old) \cup {c}
      <3>1. old \in Seq(Chunk)
        BY <2>6
      <3> HIDE DEF old
      <3> QED BY <3>1, AppendLists
    <2>12. id \in InSeq(new)
      <3>1. k = x + 1 => cmd.type = "ALLOC_CHUNK" /\ cmd.file = f /\ id = IdOf(cmd)
        BY <2>2
      <3>2. k # x + 1 => id \in InSeq(old)
        BY <1>0, <1>2, <2>1
      <3> HIDE DEF f, id, old, new
      <3> QED BY <2>8, <2>11, <3>1, <3>2
    <2> QED BY <2>12
  <1> HIDE DEF S
  <1>3. 0..N \subseteq S
    BY <1>0, <1>1, <1>2, CountUp
  <1>4. n \in 0..N /\ k <= n
    BY <1>0
  <1> QED BY <1>3, <1>4 DEF S

\* A chunk that the log allocates further on is not listed yet.
LEMMA ReplayFresh ==
    ASSUME NEW lg \in Seq(Command), Once(lg), NEW k \in 1..Len(lg), lg[k].type = "ALLOC_CHUNK",
           NEW f \in DOMAIN Replay(lg)[k - 1].files
    PROVE  IdOf(lg[k]) \notin InSeq(Replay(lg)[k - 1].files[f])
  <1> SUFFICES ASSUME IdOf(lg[k]) \in InSeq(Replay(lg)[k - 1].files[f]) PROVE FALSE
    OBVIOUS
  <1>0. k - 1 \in 0..Len(lg)
    OBVIOUS
  <1>1. IdOf(lg[k]) \in DOMAIN Replay(lg)[k - 1].chunks
    BY <1>0, ReplaySteps DEF Sound, Refs
  <1>2. MadeBy(Replay(lg)[k - 1], lg, k - 1)
    BY <1>0, ReplayMade
  <1>3. PICK j \in 1..(k - 1) : lg[j].type = "ALLOC_CHUNK" /\ IdOf(lg[j]) = IdOf(lg[k])
    BY <1>1, <1>2 DEF MadeBy
  <1>4. lg[j].file = lg[k].file /\ lg[j].index = lg[k].index
    BY <1>3 DEF IdOf, ChunkID
  <1>5. j \in 1..Len(lg) /\ j # k
    OBVIOUS
  <1> QED BY <1>3, <1>4, <1>5 DEF Once, Alike

\* A master that applies the next command has the lists for one command more.
LEMMA ListedStep ==
    ASSUME NEW lg \in Seq(Command), Once(lg), NEW c \in 1..Len(lg),
           NEW s \in Metadata, Listed(s, lg, c - 1)
    PROVE  Listed(Apply(s, lg[c]), lg, c)
  <1>1. PICK cmd \in Command : cmd = lg[c]
    OBVIOUS
  <1>2. PICK t : t = Apply(s, cmd)
    OBVIOUS
  <1> DEFINE R == Replay(lg)
  <1>3. /\ c \in Nat /\ c - 1 \in 0..Len(lg) /\ c \in 0..Len(lg) /\ c \in c..Len(lg)
        /\ R[c] = Apply(R[c - 1], cmd) /\ R[c - 1] \in Metadata /\ R[c] \in Metadata
    BY <1>1, ReplaySteps DEF Sound
  <1> SUFFICES ASSUME NEW p \in 1..c, lg[p].type = "CREATE_FILE", NEW f, f = lg[p].file
               PROVE  f \in DOMAIN t.files /\ \E r \in c..Len(lg) : Firsts(t.files[f]) = R[r].files[f]
    BY <1>1, <1>2 DEF Listed
  <1>4. CASE p = c
    <2>1. cmd.type = "CREATE_FILE" /\ cmd.file = f
      BY <1>1, <1>4
    <2>2. f \in DOMAIN t.files /\ t.files[f] = <<>> /\ R[c].files[f] = <<>>
      BY <1>2, <1>3, <2>1, ApplyLists
    <2>3. Firsts(<<>>) = <<>>
      <3>1. <<>> \in Seq({0}) /\ 0 \in {0}
        OBVIOUS
      <3> QED BY <3>1, FirstsAppend
    <2> QED BY <1>3, <2>2, <2>3
  <1>5. CASE p # c
    <2>0. p \in 1..(c - 1) /\ p \in 1..Len(lg) /\ p < c
      BY <1>3, <1>5
    <2>1. f \in DOMAIN s.files
      BY <2>0 DEF Listed
    <2>2. PICK r \in (c - 1)..Len(lg) : Firsts(s.files[f]) = R[r].files[f]
      BY <2>0 DEF Listed
    <2>3. ~(cmd.type = "CREATE_FILE" /\ cmd.file = f)
      BY <1>1, <1>5, <2>0 DEF Once, Alike
    <2> DEFINE id  == IdOf(cmd)
               old == s.files[f]
               new == t.files[f]
               q   == R[c - 1].files[f]
    <2>4. /\ f \in DOMAIN t.files /\ old \in Seq(Chunk)
          /\ \/ cmd.type = "ALLOC_CHUNK" /\ cmd.file = f /\ id \in Chunk /\ new = Append(old, id)
             \/ ~(cmd.type = "ALLOC_CHUNK" /\ cmd.file = f) /\ new = old
      <3>1. Grown(s, t, cmd, f)
        BY <1>2, <2>1, <2>3, ListGrows
      <3> QED BY <3>1 DEF Grown
    <2>5. f \in DOMAIN R[c - 1].files
      BY <1>3, <2>0, ReplayMade DEF Made
    <2>6. \/ cmd.type = "ALLOC_CHUNK" /\ cmd.file = f /\ R[c].files[f] = Append(q, id)
          \/ ~(cmd.type = "ALLOC_CHUNK" /\ cmd.file = f) /\ R[c].files[f] = q
      <3>1. PICK u \in Metadata : u = R[c - 1]
        BY <1>3
      <3>2. PICK v : v = R[c] /\ v = Apply(u, cmd)
        BY <1>3, <3>1
      <3>3. f \in DOMAIN u.files
        BY <2>5, <3>1
      <3>4. Grown(u, v, cmd, f)
        BY <2>3, <3>2, <3>3, ListGrows
      <3> HIDE DEF R
      <3> QED BY <3>1, <3>2, <3>4 DEF Grown
    <2>7. r = c - 1 \/ r \in c..Len(lg)
      BY <1>3
    <2>8. CASE cmd.type = "ALLOC_CHUNK" /\ cmd.file = f
      <3>1. id \in Chunk /\ new = Append(old, id) /\ R[c].files[f] = Append(q, id)
        BY <2>4, <2>6, <2>8
      <3>2. Firsts(new) = IF id \in InSeq(Firsts(old)) THEN Firsts(old)
                          ELSE Append(Firsts(old), id)
        <4>1. old \in Seq(Chunk)
          BY <2>4
        <4> HIDE DEF old, new, id
        <4> QED BY <3>1, <4>1, FirstsAppend
      <3>3. CASE r = c - 1
        <4>1. id \notin InSeq(q)
          BY <1>1, <2>5, <2>8, ReplayFresh
        <4>2. Firsts(old) = q
          BY <2>2, <3>3
        <4>3. Firsts(new) = Append(q, id)
          <5> HIDE DEF old, new, id, q
          <5> QED BY <3>2, <4>1, <4>2
        <4> QED BY <1>3, <2>4, <3>1, <4>3
      <3>4. CASE r \in c..Len(lg)
        <4>1. id \in InSeq(R[r].files[f])
          BY <1>1, <2>0, <2>8, <3>4, ReplayLists
        <4>2. Firsts(new) = R[r].files[f]
          <5>1. Firsts(old) = R[r].files[f]
            BY <2>2
          <5> HIDE DEF old, new, id
          <5> QED BY <3>2, <4>1, <5>1
        <4> QED BY <2>4, <3>4, <4>2
      <3> QED BY <2>7, <3>3, <3>4
    <2>9. CASE ~(cmd.type = "ALLOC_CHUNK" /\ cmd.file = f)
      <3>1. new = old /\ R[c].files[f] = q
        BY <2>4, <2>6, <2>9
      <3>2. CASE r = c - 1
        BY <1>3, <2>2, <2>4, <3>1, <3>2
      <3>3. CASE r \in c..Len(lg)
        BY <2>2, <2>4, <3>1, <3>3
      <3> QED BY <2>7, <3>2, <3>3
    <2> QED BY <2>8, <2>9
  <1> QED BY <1>4, <1>5

\* What a log makes on one master it makes on every master that has all of it.
LEMMA MadeCovers ==
    ASSUME NEW lg, NEW n \in Nat, NEW s, NEW t,
           \A k \in 1..n : Made(t, lg[k]), MadeBy(s, lg, n)
    PROVE  /\ DOMAIN s.files \subseteq DOMAIN t.files
           /\ DOMAIN s.datanodes \subseteq DOMAIN t.datanodes
           /\ DOMAIN s.chunks \subseteq DOMAIN t.chunks
  <1>1. ASSUME NEW f \in DOMAIN s.files PROVE f \in DOMAIN t.files
    <2>1. PICK k \in 1..n : lg[k].type = "CREATE_FILE" /\ lg[k].file = f
      BY DEF MadeBy
    <2> QED BY <2>1 DEF Made
  <1>2. ASSUME NEW d \in DOMAIN s.datanodes PROVE d \in DOMAIN t.datanodes
    <2>1. PICK k \in 1..n : lg[k].type = "REGISTER_NODE" /\ lg[k].node = d
      BY DEF MadeBy, RegisteredIn
    <2> QED BY <2>1 DEF Made
  <1>3. ASSUME NEW c \in DOMAIN s.chunks PROVE c \in DOMAIN t.chunks
    <2>1. PICK k \in 1..n : lg[k].type = "ALLOC_CHUNK" /\ IdOf(lg[k]) = c
      BY DEF MadeBy
    <2> QED BY <2>1 DEF Made
  <1> QED BY <1>1, <1>2, <1>3

\* Two masters that have all that a log says, and nothing else, know the same.
LEMMA MadeAlike ==
    ASSUME NEW lg \in Seq(Command), Once(lg),
           NEW s \in Metadata, NEW t \in Metadata,
           \A k \in 1..Len(lg) : Made(s, lg[k]) /\ Made(t, lg[k]),
           MadeBy(s, lg, Len(lg)), MadeBy(t, lg, Len(lg))
    PROVE  /\ DOMAIN s.files = DOMAIN t.files
           /\ DOMAIN s.datanodes = DOMAIN t.datanodes
           /\ s.chunks = t.chunks
  <1>0. Len(lg) \in Nat
    OBVIOUS
  <1>3. /\ DOMAIN s.files = DOMAIN t.files
        /\ DOMAIN s.datanodes = DOMAIN t.datanodes
        /\ DOMAIN s.chunks = DOMAIN t.chunks
    <2>1. /\ DOMAIN s.files \subseteq DOMAIN t.files
          /\ DOMAIN s.datanodes \subseteq DOMAIN t.datanodes
          /\ DOMAIN s.chunks \subseteq DOMAIN t.chunks
      BY <1>0, MadeCovers
    <2>2. /\ DOMAIN t.files \subseteq DOMAIN s.files
          /\ DOMAIN t.datanodes \subseteq DOMAIN s.datanodes
          /\ DOMAIN t.chunks \subseteq DOMAIN s.chunks
      BY <1>0, MadeCovers
    <2> QED BY <2>1, <2>2
  <1>4. ASSUME NEW c \in DOMAIN s.chunks PROVE s.chunks[c] = t.chunks[c]
    <2>1. PICK j \in 1..Len(lg) :
             lg[j].type = "ALLOC_CHUNK" /\ IdOf(lg[j]) = c /\ s.chunks[c] = ChunkOf(lg[j])
      BY DEF MadeBy
    <2>2. PICK k \in 1..Len(lg) :
             lg[k].type = "ALLOC_CHUNK" /\ IdOf(lg[k]) = c /\ t.chunks[c] = ChunkOf(lg[k])
      BY <1>3 DEF MadeBy
    <2>3. lg[j].file = lg[k].file /\ lg[j].index = lg[k].index
      BY <2>1, <2>2 DEF IdOf, ChunkID
    <2>4. j = k
      BY <2>1, <2>2, <2>3 DEF Once, Alike
    <2> QED BY <2>1, <2>2, <2>4
  <1>5. s.chunks = t.chunks
    <2>1. /\ s.chunks = [c \in DOMAIN s.chunks |-> s.chunks[c]]
          /\ t.chunks = [c \in DOMAIN t.chunks |-> t.chunks[c]]
      BY DEF Metadata, ChunkTable
    <2> QED BY <1>3, <1>4, <2>1
  <1> QED BY <1>3, <1>5

\* A master that has been fed the whole log has what the log stands for.
LEMMA FedAll ==
    ASSUME NEW lg \in Seq(Command), Once(lg), NEW s \in Metadata,
           \A k \in 1..Len(lg) : Made(s, lg[k]),
           MadeBy(s, lg, Len(lg)), Listed(s, lg, Len(lg))
    PROVE  LET t == Replay(lg)[Len(lg)]
           IN  /\ s.chunks = t.chunks
               /\ DOMAIN s.datanodes = DOMAIN t.datanodes
               /\ [f \in DOMAIN s.files |-> Firsts(s.files[f])] = t.files
  <1>0. Len(lg) \in 0..Len(lg)
    OBVIOUS
  <1>1. PICK t : t = Replay(lg)[Len(lg)]
    OBVIOUS
  <1>2. /\ t \in Metadata /\ MadeBy(t, lg, Len(lg))
        /\ \A k \in 1..Len(lg) : Made(t, lg[k])
    BY <1>0, <1>1, ReplayMade
  <1>3. /\ DOMAIN s.files = DOMAIN t.files
        /\ DOMAIN s.datanodes = DOMAIN t.datanodes
        /\ s.chunks = t.chunks
    BY <1>2, MadeAlike
  <1>4. ASSUME NEW f \in DOMAIN s.files PROVE Firsts(s.files[f]) = t.files[f]
    <2>1. PICK p \in 1..Len(lg) : lg[p].type = "CREATE_FILE" /\ lg[p].file = f
      BY DEF MadeBy
    <2>2. PICK r \in Len(lg)..Len(lg) : Firsts(s.files[f]) = Replay(lg)[r].files[f]
      BY <2>1 DEF Listed
    <2>3. r = Len(lg)
      BY <1>0
    <2> QED BY <1>1, <2>2, <2>3
  <1>5. t.files = [f \in DOMAIN t.files |-> t.files[f]]
    BY <1>2 DEF Metadata, FileTable
  <1>6. [f \in DOMAIN s.files |-> Firsts(s.files[f])] = t.files
    BY <1>3, <1>4, <1>5
  <1> QED BY <1>1, <1>3, <1>6

-----------------------------------------------------------------------------
(***************************************************************************)
(* The logs never hold a command twice, and every master is fed from the   *)
(* committed one.                                                          *)
(***************************************************************************)
LogsOnce == Once(committed) /\ \A t \in 1..Len(branches) : Once(branches[t])

\* The master has what the first n commands make, and nothing that is not in the log.
Fed(s, lg, n) ==
    /\ \A k \in 1..n : Made(s, lg[k])
    /\ MadeBy(s, lg, Len(lg))
    /\ Listed(s, lg, n)

MastersFed == \A m \in Master : Fed(sm[m], committed, cursor[m] - 1)

\* The beginning of a log without repetitions has none.
LEMMA OnceBefore ==
    ASSUME NEW lg \in Seq(Command), NEW new \in Seq(Command), Once(lg),
           Len(new) <= Len(lg), \A x \in 1..Len(new) : new[x] = lg[x]
    PROVE  Once(new)
  <1>1. \A x \in 1..Len(new) : x \in 1..Len(lg)
    OBVIOUS
  <1> QED BY <1>1 DEF Once

\* What a client asks for is in no log yet.
LEMMA AskedFresh ==
    ASSUME IInv, NEW cmd \in Command, Asked(cmd), NEW old, CommandTold(old)
    PROVE  ~Alike(cmd, old) /\ ~Alike(old, cmd)
  <1>1. CASE cmd.type = "CREATE_FILE"
    BY <1>1 DEF Asked, CommandTold, Alike
  <1>2. CASE cmd.type = "ALLOC_CHUNK"
    <2>1. PICK f \in File : upload[f] \in Allocation /\ cmd = AllocCommand(f, upload[f])
      BY <1>2 DEF Asked
    <2>2. cmd.file = f /\ cmd.index = upload[f].next
      BY <2>1 DEF AllocCommand
    <2>3. upload[f].next \in Nat
      BY <2>1, ClusterAssumption DEF Allocation
    <2>4. old.type = "ALLOC_CHUNK" /\ old.file = f => old.index < upload[f].next
      BY DEF CommandTold, ToldBy
    <2>5. old.type = "ALLOC_CHUNK" /\ old.file = f => old.index # cmd.index
      BY <2>2, <2>3, <2>4
    <2> QED BY <1>2, <2>2, <2>5 DEF Alike
  <1>3. CASE cmd.type = "REGISTER_NODE"
    BY <1>3 DEF Alike
  <1> QED BY <1>1, <1>2, <1>3, CommandFields

\* A log that a leader appends to stays without repetitions.
LEMMA OnceAppend ==
    ASSUME IInv, NEW lg \in Seq(Command), NEW cmd \in Command, Asked(cmd), Once(lg),
           \A k \in 1..Len(lg) : CommandTold(lg[k])
    PROVE  Once(Append(lg, cmd))
  <1> DEFINE new == Append(lg, cmd)
             N   == Len(lg)
  <1>1. /\ N \in Nat /\ Len(new) = N + 1 /\ new[N + 1] = cmd
        /\ \A k \in 1..N : new[k] = lg[k]
        /\ \A k \in 1..(N + 1) : k \in 1..N \/ k = N + 1
    OBVIOUS
  <1>2. \A k \in 1..N : ~Alike(cmd, lg[k]) /\ ~Alike(lg[k], cmd)
    BY AskedFresh
  <1>3. \A j, k \in 1..N : Alike(lg[j], lg[k]) => j = k
    BY DEF Once
  <1> HIDE DEF new, N
  <1> SUFFICES ASSUME NEW j \in 1..(N + 1), NEW k \in 1..(N + 1), Alike(new[j], new[k])
               PROVE  j = k
    BY <1>1 DEF Once, new
  <1> QED BY <1>1, <1>2, <1>3

\* No log comes to hold a command twice.
LEMMA LogsOnceStep ==
    ASSUME IInv, IInv', [Next]_vars, NewestCommits, LogsTold, LogsOnce
    PROVE  LogsOnce'
  <1>1. /\ committed \in Seq(Command) /\ committed' \in Seq(Command)
        /\ branches \in Seq(Seq(Command)) /\ branches' \in Seq(Seq(Command))
    BY DEF IInv, TypeOK
  <1>2. Once(committed')
    <2>1. CASE committed' = committed
      BY <2>1 DEF LogsOnce
    <2>2. CASE committed' # committed
      <3>1. /\ branches # <<>> /\ Len(committed') <= Len(branches[Len(branches)])
            /\ \A x \in 1..Len(committed') : committed'[x] = branches[Len(branches)][x]
        BY <2>2, CommittedMoves
      <3>2. Len(branches) \in 1..Len(branches)
        BY <1>1, <3>1
      <3>3. branches[Len(branches)] \in Seq(Command) /\ Once(branches[Len(branches)])
        BY <1>1, <3>2 DEF LogsOnce
      <3> QED BY <1>1, <3>1, <3>3, OnceBefore
    <2> QED BY <2>1, <2>2
  <1>3. ASSUME NEW t \in 1..Len(branches') PROVE Once(branches'[t])
    <2>1. CASE t \in 1..Len(branches) /\ branches'[t] = branches[t]
      BY <2>1 DEF LogsOnce
    <2>2. ASSUME NEW cmd \in Command, t \in 1..Len(branches), Asked(cmd),
                 branches'[t] = Append(branches[t], cmd)
          PROVE  Once(branches'[t])
      <3>1. PICK lg \in Seq(Command) : lg = branches[t]
        BY <1>1, <2>2
      <3>2. Once(lg) /\ \A k \in 1..Len(lg) : CommandTold(lg[k])
        BY <2>2, <3>1 DEF LogsOnce, LogsTold
      <3> QED BY <2>2, <3>1, <3>2, OnceAppend
    <2>3. CASE branches'[t] \in Inherited
      <3>1. PICK lg \in Inherited : lg = branches'[t]
        BY <2>3
      <3>2. lg \in Seq(Command)
        BY InheritedTyped
      <3>3. CASE lg = committed
        BY <3>1, <3>3 DEF LogsOnce
      <3>4. ASSUME NEW s \in 1..Len(branches), Len(lg) <= Len(branches[s]),
                   \A x \in 1..Len(lg) : lg[x] = branches[s][x]
            PROVE  Once(lg)
        <4>1. branches[s] \in Seq(Command) /\ Once(branches[s])
          BY <1>1 DEF LogsOnce
        <4> QED BY <3>2, <3>4, <4>1, OnceBefore
      <3> QED BY <3>1, <3>3, <3>4, InheritedContinues
    <2> QED BY <2>1, <2>2, <2>3, BranchMoves
  <1> QED BY <1>2, <1>3 DEF LogsOnce, Once

\* A master whose chunks, files and nodes stay is still fed when more is committed, or
\* when it starts over.
LEMMA FedCarries ==
    ASSUME NEW lg \in Seq(Command), NEW new \in Seq(Command), Len(lg) <= Len(new),
           \A x \in 1..Len(lg) : new[x] = lg[x],
           NEW n \in 0..Len(lg), NEW low \in 0..n,
           NEW s, NEW t, t.files = s.files, t.chunks = s.chunks,
           DOMAIN t.datanodes = DOMAIN s.datanodes,
           Fed(s, lg, n)
    PROVE  Fed(t, new, low)
  <1>0. /\ Len(lg) \in Nat /\ Len(new) \in Nat
        /\ \A x \in 1..Len(lg) : x \in 1..Len(new)
        /\ \A x \in 1..low : x \in 1..n /\ x \in 1..Len(lg)
    OBVIOUS
  <1>1. \A k \in 1..low : Made(t, new[k])
    BY <1>0 DEF Fed, Made
  <1>2. MadeBy(t, new, Len(new))
    <2>0. MadeBy(s, lg, Len(lg))
      BY DEF Fed
    <2>1. \A d \in DOMAIN t.datanodes : RegisteredIn(new, Len(new), d)
      BY <1>0, <2>0 DEF MadeBy, RegisteredIn
    <2>2. \A f \in DOMAIN t.files : \E k \in 1..Len(new) :
             new[k].type = "CREATE_FILE" /\ new[k].file = f
      BY <1>0, <2>0 DEF MadeBy
    <2>3. \A c \in DOMAIN t.chunks : \E k \in 1..Len(new) :
             new[k].type = "ALLOC_CHUNK" /\ IdOf(new[k]) = c /\ t.chunks[c] = ChunkOf(new[k])
      <3> SUFFICES ASSUME NEW c \in DOMAIN t.chunks
                   PROVE  \E k \in 1..Len(new) :
                            new[k].type = "ALLOC_CHUNK" /\ IdOf(new[k]) = c
                            /\ t.chunks[c] = ChunkOf(new[k])
        OBVIOUS
      <3>1. PICK k \in 1..Len(lg) :
               lg[k].type = "ALLOC_CHUNK" /\ IdOf(lg[k]) = c /\ s.chunks[c] = ChunkOf(lg[k])
        BY <2>0 DEF MadeBy
      <3> QED BY <1>0, <3>1
    <2> QED BY <2>1, <2>2, <2>3 DEF MadeBy
  <1>3. Listed(t, new, low)
    <2> SUFFICES ASSUME NEW p \in 1..low, new[p].type = "CREATE_FILE", NEW f, f = new[p].file
                 PROVE  /\ f \in DOMAIN t.files
                        /\ \E r \in low..Len(new) :
                             Firsts(t.files[f]) = Replay(new)[r].files[f]
      BY DEF Listed
    <2>1. p \in 1..n /\ lg[p].type = "CREATE_FILE" /\ f = lg[p].file
      BY <1>0
    <2>2. f \in DOMAIN s.files
      BY <2>1 DEF Fed, Listed
    <2>3. PICK r \in n..Len(lg) : Firsts(s.files[f]) = Replay(lg)[r].files[f]
      BY <2>1 DEF Fed, Listed
    <2>4. r \in 0..Len(lg) /\ r \in low..Len(new)
      BY <1>0
    <2>5. Replay(new)[r] = Replay(lg)[r]
      BY <1>0, <2>4, ReplayCarries
    <2> QED BY <2>2, <2>3, <2>4, <2>5
  <1> QED BY <1>1, <1>2, <1>3 DEF Fed

\* Every master goes on being fed from the committed log.
LEMMA MastersFedStep ==
    ASSUME IInv, IInv', [Next]_vars, NewestCommits, LogsOnce, MastersFed
    PROVE  MastersFed'
  <1> SUFFICES ASSUME NEW m \in Master
               PROVE  Fed(sm'[m], committed', cursor'[m] - 1)
    BY DEF MastersFed, Fed, Made, MadeBy, RegisteredIn, Listed
  <1>1. /\ committed \in Seq(Command) /\ committed' \in Seq(Command)
        /\ cursor[m] \in 1..(Len(committed) + 1) /\ cursor'[m] \in 1..(Len(committed') + 1)
        /\ Len(committed) \in Nat
    BY DEF IInv, TypeOK
  <1>2. Fed(sm[m], committed, cursor[m] - 1)
    BY DEF MastersFed
  <1>3. CASE SameButStatus(m) /\ cursor'[m] <= cursor[m]
    <2>1. cursor[m] - 1 \in 0..Len(committed) /\ cursor'[m] - 1 \in 0..(cursor[m] - 1)
      BY <1>1, <1>3
    <2>2. /\ Len(committed) <= Len(committed')
          /\ \A x \in 1..Len(committed) : committed'[x] = committed[x]
      BY CommittedMoves
    <2>3. PICK lg, new : lg = committed /\ new = committed'
      OBVIOUS
    <2>4. PICK n, low : n = cursor[m] - 1 /\ low = cursor'[m] - 1
      OBVIOUS
    <2>5. PICK s, t : s = sm[m] /\ t = sm'[m]
      OBVIOUS
    <2>6. /\ lg \in Seq(Command) /\ new \in Seq(Command) /\ Len(lg) <= Len(new)
          /\ \A x \in 1..Len(lg) : new[x] = lg[x]
          /\ n \in 0..Len(lg) /\ low \in 0..n
      BY <1>1, <2>1, <2>2, <2>3, <2>4
    <2>7. /\ t.files = s.files /\ t.chunks = s.chunks
          /\ DOMAIN t.datanodes = DOMAIN s.datanodes
      BY <1>3, <2>5 DEF SameButStatus
    <2>8. Fed(s, lg, n)
      BY <1>2, <2>3, <2>4, <2>5
    <2>9. Fed(t, new, low)
      BY <2>6, <2>7, <2>8, FedCarries
    <2> QED BY <2>3, <2>4, <2>5, <2>9
  <1>4. CASE Delivers(m)
    <2>0. PICK lg : lg = committed
      OBVIOUS
    <2>1. PICK c, s, t : c = cursor[m] /\ s = sm[m] /\ t = sm'[m]
      OBVIOUS
    <2>2. /\ lg \in Seq(Command)
          /\ c \in 1..Len(lg) /\ t = Apply(s, lg[c]) /\ committed' = lg
          /\ cursor'[m] = c + 1 /\ s \in Metadata /\ Once(lg)
      BY <1>1, <1>4, <2>0, <2>1 DEF Delivers, IInv, AllSound, LogsOnce
    <2>3. /\ c \in Nat /\ c \in 1..Len(lg) /\ (c + 1) - 1 = c
          /\ \A k \in 1..c : k \in 1..(c - 1) \/ k = c
          /\ Len(lg) \in Nat /\ Len(lg) <= Len(lg)
      BY <2>2
    <2>4. Fed(s, lg, c - 1)
      BY <1>2, <2>0, <2>1
    <2>5. PICK cmd \in Command : cmd = lg[c]
      BY <2>2
    <2>6. \A k \in 1..c : Made(t, lg[k])
      BY <2>2, <2>3, <2>4, <2>5, MadeStays DEF Fed
    <2>7. MadeBy(t, lg, Len(lg))
      BY <2>2, <2>3, <2>4, <2>5, MadeByStep DEF Fed
    <2>8. Listed(t, lg, c)
      BY <2>2, <2>4, ListedStep DEF Fed
    <2>9. Fed(t, lg, c)
      BY <2>6, <2>7, <2>8 DEF Fed
    <2> QED BY <2>0, <2>1, <2>2, <2>3, <2>9
  <1> QED BY <1>3, <1>4, MastersMove

\* At first there is nothing to be fed.
LEMMA FedInit == Init => LogsOnce /\ MastersFed
  <1> SUFFICES ASSUME Init PROVE LogsOnce /\ MastersFed
    OBVIOUS
  <1> USE DEF Init, LogInit
  <1>1. DOMAIN <<>> = {} /\ Len(<<>>) = 0 /\ 1..0 = {} /\ 1 - 1 = 0
    OBVIOUS
  <1>2. LogsOnce
    BY <1>1 DEF LogsOnce, Once
  <1>3. Fed(NoMetadata, <<>>, 0)
    BY <1>1 DEF Fed, MadeBy, Listed, NoMetadata
  <1> QED BY <1>1, <1>2, <1>3 DEF MastersFed

\* Every master is always fed from the committed log.
LEMMA FedInvariant == Spec => [](IInv /\ PlaceInv /\ LogsOnce /\ MastersFed)
  <1>1. Init => IInv /\ PlaceInv /\ LogsOnce /\ MastersFed
    BY InitInv, PlaceInit, FedInit
  <1>2. IInv /\ IInv' /\ PlaceInv /\ LogsOnce /\ MastersFed /\ [Next]_vars
          => LogsOnce' /\ MastersFed'
    BY LogsOnceStep, MastersFedStep DEF PlaceInv
  <1> QED BY <1>1, <1>2, PlaceInvariant, PTL DEF Spec

\* However often a master's queue is fed again (applyC), and whatever its heartbeats and
\* its checker did: when the queue is drained the master has the chunks, the nodes and
\* the files that the committed log stands for, and lists each file's chunks in the
\* order of the log, some of them again (applyAllocChunk appends what is there).
THEOREM SettledMatchesLog == Spec => []SettledAsCommitted
  <1>1. IInv /\ LogsOnce /\ MastersFed => SettledAsCommitted
    <2> SUFFICES ASSUME IInv, LogsOnce, MastersFed, NEW m \in Master, Settled(m)
                 PROVE  /\ sm[m].chunks = Replayed.chunks
                        /\ DOMAIN sm[m].datanodes = DOMAIN Replayed.datanodes
                        /\ [f \in DOMAIN sm[m].files |-> Firsts(sm[m].files[f])]
                             = Replayed.files
      BY DEF SettledAsCommitted
    <2>1. committed \in Seq(Command) /\ cursor[m] - 1 = Len(committed) /\ sm[m] \in Metadata
      BY DEF Settled, IInv, TypeOK, AllSound
    <2>2. Fed(sm[m], committed, Len(committed)) /\ Once(committed)
      BY <2>1 DEF MastersFed, LogsOnce
    <2> QED BY <2>1, <2>2, FedAll DEF Fed, Replayed
  <1> QED BY <1>1, FedInvariant, PTL

=============================================================================

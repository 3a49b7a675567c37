---------------------------- MODULE MasterProofs ----------------------------
(***************************************************************************)
(* Proofs about the single master: for any number of data nodes, files,    *)
(* chunks, replicas and declarations, every chunk keeps one primary, a     *)
(* healthy one as long as there is one, and as many replicas as configured *)
(* on different nodes.                                                     *)
(***************************************************************************)
EXTENDS Master, FiniteSetTheorems, TLAPS, Rotation

Replicas == [1 .. ReplicaCount -> Replica]

\* What OnePrimary, PrimaryHealthy and ReplicasSpread say of one chunk.
Led(rs) ==
    \E p \in 1 .. ReplicaCount :
        /\ \A i \in 1 .. ReplicaCount : rs[i].role = "PRIMARY" <=> i = p
        /\ rs[p].status = "OFFLINE" => \A j \in 1 .. ReplicaCount : rs[j].status = "OFFLINE"

Spread(rs) == \A i, j \in 1 .. ReplicaCount : rs[i].node = rs[j].node => i = j

\* Every known chunk is led and spread, what a goroutine works on is known, and
\* a file whose PUT has not come to its allocation has no chunk yet.
Kept ==
    /\ \A c \in Chunk : chunks[c] # <<>> => Led(chunks[c]) /\ Spread(chunks[c])
    /\ \A c \in working.todo : chunks[c] # <<>>
    /\ \A c \in Chunk : requests[c[1]] # "allocated" => chunks[c] = <<>>

IInv == TypeOK /\ Kept

-----------------------------------------------------------------------------
\* The least element of a set of numbers exists.
LEMMA FirstIsLeast ==
  ASSUME NEW s, s \subseteq Nat, s # {}
  PROVE  First(s) \in s /\ \A j \in s : First(s) <= j
<1>. DEFINE Below == {0 .. i : i \in s}
<1>1. Below \subseteq FiniteSubsetsOf(Nat) /\ Below # {}
  <2>1. ASSUME NEW i \in s PROVE 0 .. i \in FiniteSubsetsOf(Nat)
    <3>1. 0 \in Int /\ i \in Int
      OBVIOUS
    <3>2. IsFiniteSet(0 .. i)
      BY <3>1, FS_Interval
    <3>. QED BY <3>2 DEF FiniteSubsetsOf
  <2>. QED BY <2>1
<1>2. PICK x \in Below : \A y \in Below : ~(<<y, x>> \in StrictSubsetOrdering(Nat))
  <2>1. IsWellFoundedOn(StrictSubsetOrdering(Nat), FiniteSubsetsOf(Nat))
    BY FS_StrictSubsetOrderingWellFounded
  <2>. HIDE DEF Below
  <2>. QED BY <1>1, <2>1, WFMin
<1>3. PICK i \in s : x = 0 .. i
  BY <1>2
<1>4. ASSUME NEW j \in s, j < i
      PROVE  FALSE
  <2>1. 0 .. j \in Below
    OBVIOUS
  <2>2. 0 .. j \subseteq 0 .. i
    BY <1>4
  <2>3. i \in 0 .. i /\ ~(i \in 0 .. j)
    BY <1>4
  <2>4. <<0 .. j, x>> \in StrictSubsetOrdering(Nat)
    BY <1>3, <2>2, <2>3 DEF StrictSubsetOrdering
  <2>. QED BY <1>2, <2>1, <2>4
<1>5. \A j \in s : i <= j
  BY <1>4
<1>. QED BY <1>5 DEF First

\* electNewPrimary moves the lead to the first healthy secondary, and changes
\* nothing else; it changes nothing at all when there is none.
LEMMA ElectedLeads ==
  ASSUME NEW rs \in Replicas,
         NEW p \in 1 .. ReplicaCount,
         \A i \in 1 .. ReplicaCount : rs[i].role = "PRIMARY" <=> i = p,
         rs[p].status = "OFFLINE"
  PROVE  /\ Elected(rs) \in Replicas
         /\ Led(Elected(rs))
         /\ \A i \in 1 .. ReplicaCount : Elected(rs)[i].node = rs[i].node
<1>. USE CountsAssumption
<1>1. DOMAIN rs = 1 .. ReplicaCount
  BY DEF Replicas
<1>2. CASE Candidates(rs) = {}
  <2>1. Elected(rs) = rs
    BY <1>2 DEF Elected
  <2>2. \A j \in 1 .. ReplicaCount : j # p => rs[j].role = "SECONDARY"
    BY DEF Replicas, Replica, Role
  <2>3. \A j \in 1 .. ReplicaCount : rs[j].status = "OFFLINE"
    BY <1>1, <1>2, <2>2 DEF Candidates, Replicas, Replica
  <2>. QED BY <2>1, <2>3 DEF Led
<1>3. CASE Candidates(rs) # {}
  <2>. DEFINE q == First(Candidates(rs))
              es == [i \in 1 .. ReplicaCount |->
                        [rs[i] EXCEPT !.role = IF i = q THEN "PRIMARY" ELSE "SECONDARY"]]
  <2>1. Candidates(rs) \subseteq Nat
    BY <1>1 DEF Candidates
  <2>2. q \in Candidates(rs)
    BY <1>3, <2>1, FirstIsLeast
  <2>3. q \in 1 .. ReplicaCount /\ rs[q].status = "HEALTHY"
    BY <1>1, <2>2 DEF Candidates
  <2>4. Elected(rs) = es
    BY <1>1, <1>3 DEF Elected
  <2>. HIDE DEF q
  <2>5. ASSUME NEW i \in 1 .. ReplicaCount
        PROVE  /\ es[i] \in Replica
               /\ es[i].node = rs[i].node
               /\ es[i].status = rs[i].status
               /\ es[i].role = "PRIMARY" <=> i = q
    BY DEF Replicas, Replica, Role
  <2>6. es \in Replicas
    BY <2>5 DEF Replicas
  <2>7. es[q].status # "OFFLINE"
    BY <2>3, <2>5
  <2>. HIDE DEF es
  <2>8. Led(es)
    BY <2>3, <2>5, <2>7 DEF Led
  <2>. QED BY <2>4, <2>5, <2>6, <2>8
<1>. QED BY <1>2, <1>3

\* handleChunkRecovery keeps a chunk led, and its nodes.
LEMMA RecoveredKeeps ==
  ASSUME NEW rs \in Replicas, Led(rs), NEW n
  PROVE  /\ Recovered(rs, n) \in Replicas
         /\ Led(Recovered(rs, n))
         /\ \A i \in 1 .. ReplicaCount : Recovered(rs, n)[i].node = rs[i].node
<1>. DEFINE ms == [i \in 1 .. ReplicaCount |->
                IF rs[i].node = n THEN [rs[i] EXCEPT !.status = "OFFLINE"] ELSE rs[i]]
            led == \E i \in 1 .. ReplicaCount : rs[i].node = n /\ rs[i].role = "PRIMARY"
<1>1. DOMAIN rs = 1 .. ReplicaCount
  BY DEF Replicas
<1>2. Recovered(rs, n) = IF led THEN Elected(ms) ELSE ms
  BY <1>1 DEF Recovered
<1>3. ASSUME NEW i \in 1 .. ReplicaCount
      PROVE  /\ ms[i] \in Replica
             /\ ms[i].node = rs[i].node
             /\ ms[i].role = rs[i].role
             /\ rs[i].node = n => ms[i].status = "OFFLINE"
             /\ rs[i].node # n => ms[i].status = rs[i].status
             /\ rs[i].status = "OFFLINE" => ms[i].status = "OFFLINE"
  BY DEF Replicas, Replica
<1>4. ms \in Replicas
  BY <1>3 DEF Replicas
<1>. HIDE DEF ms
<1>5. PICK p \in 1 .. ReplicaCount :
          /\ \A i \in 1 .. ReplicaCount : rs[i].role = "PRIMARY" <=> i = p
          /\ rs[p].status = "OFFLINE" => \A j \in 1 .. ReplicaCount : rs[j].status = "OFFLINE"
  BY DEF Led
<1>6. \A i \in 1 .. ReplicaCount : ms[i].role = "PRIMARY" <=> i = p
  BY <1>3, <1>5
<1>7. CASE led
  <2>1. rs[p].node = n
    BY <1>5, <1>7
  <2>2. ms[p].status = "OFFLINE"
    BY <1>3, <2>1
  <2>3. /\ Elected(ms) \in Replicas
        /\ Led(Elected(ms))
        /\ \A i \in 1 .. ReplicaCount : Elected(ms)[i].node = ms[i].node
    BY <1>4, <1>6, <2>2, ElectedLeads
  <2>4. Recovered(rs, n) = Elected(ms)
    BY <1>2, <1>7
  <2>. QED BY <1>3, <2>3, <2>4
<1>8. CASE ~led
  <2>1. rs[p].node # n
    BY <1>5, <1>8
  <2>2. ms[p].status = rs[p].status
    BY <1>3, <2>1
  <2>3. Led(ms)
    BY <1>3, <1>5, <1>6, <2>2 DEF Led
  <2>4. Recovered(rs, n) = ms
    BY <1>2, <1>8
  <2>. QED BY <1>3, <1>4, <2>3, <2>4
<1>. QED BY <1>7, <1>8

-----------------------------------------------------------------------------
LEMMA KnownReplicas ==
  ASSUME NEW rs \in Replicas
  PROVE  rs # <<>> /\ DOMAIN rs = 1 .. ReplicaCount /\ 1 \in 1 .. ReplicaCount
BY CountsAssumption DEF Replicas

\* A new chunk is led by its first replica, and its replicas are spread.
LEMMA PlacementKeeps ==
  ASSUME NEW order \in Orders, Cardinality(Online) >= ReplicaCount, NEW i \in Nat
  PROVE  /\ Placement(order, i) \in Replicas
         /\ Led(Placement(order, i))
         /\ Spread(Placement(order, i))
<1>. DEFINE n == Cardinality(Online)
            at(j) == ((i + j - 1) % Len(order)) + 1
<1>1. n \in Nat /\ n >= ReplicaCount /\ n # 0
  <2>1. IsFiniteSet(Online)
    BY NodesAssumption, FS_Subset DEF Online
  <2>2. n \in Nat
    BY <2>1, FS_CardinalityType
  <2>. QED BY <2>2, CountsAssumption
<1>2. /\ order \in [1 .. n -> Online]
      /\ \A k, l \in 1 .. n : order[k] = order[l] => k = l
  BY DEF Orders
<1>. HIDE DEF n
<1>3. Len(order) = n
  BY <1>1, <1>2
<1>4. \A j \in 1 .. ReplicaCount : at(j) \in 1 .. n
  <2>. TAKE j \in 1 .. ReplicaCount
  <2>1. i + j - 1 \in Nat
    BY CountsAssumption
  <2>2. (i + j - 1) % n \in 0 .. n - 1
    BY <1>1, <2>1
  <2>. QED BY <1>1, <1>3, <2>2
<1>5. \A j, k \in 1 .. ReplicaCount : at(j) = at(k) => j = k
  <2>. SUFFICES ASSUME NEW j \in 1 .. ReplicaCount, NEW k \in 1 .. ReplicaCount,
                       at(j) = at(k)
                PROVE  j = k
    OBVIOUS
  <2>1. i + j - 1 \in Nat /\ i + k - 1 \in Nat
    BY CountsAssumption
  <2>2. (i + j - 1) % n \in Nat /\ (i + k - 1) % n \in Nat
    BY <1>1, <2>1
  <2>3. (i + j - 1) % n = (i + k - 1) % n
    BY <1>3, <2>2
  <2>. QED BY <1>1, <2>3, CountsAssumption, RoundApart
<1>6. Placement(order, i) =
          [j \in 1 .. ReplicaCount |->
              [node |-> order[at(j)], role |-> RoleAt(j), status |-> "HEALTHY"]]
  <2>1. Smaller(ReplicaCount, n) = ReplicaCount
    BY <1>1, CountsAssumption DEF Smaller
  <2>. QED BY <1>3, <2>1 DEF Placement
<1>. HIDE DEF at
<1>7. ASSUME NEW j \in 1 .. ReplicaCount
      PROVE  /\ Placement(order, i)[j] \in Replica
             /\ Placement(order, i)[j].node = order[at(j)]
             /\ Placement(order, i)[j].role = RoleAt(j)
             /\ Placement(order, i)[j].status = "HEALTHY"
  BY <1>2, <1>4, <1>6 DEF Replica, Role, RoleAt, Online
<1>8. Placement(order, i) \in Replicas
  BY <1>6, <1>7 DEF Replicas
<1>9. Spread(Placement(order, i))
  BY <1>2, <1>4, <1>5, <1>7 DEF Spread
<1>10. Led(Placement(order, i))
  <2>1. 1 \in 1 .. ReplicaCount
    BY CountsAssumption
  <2>2. \A j \in 1 .. ReplicaCount : Placement(order, i)[j].role = "PRIMARY" <=> j = 1
    BY <1>7 DEF RoleAt
  <2>3. Placement(order, i)[1].status # "OFFLINE"
    BY <1>7, <2>1
  <2>. QED BY <2>1, <2>2, <2>3 DEF Led
<1>. QED BY <1>7, <1>8, <1>9, <1>10

-----------------------------------------------------------------------------
LEMMA InitInv == Init => IInv
<1>. SUFFICES ASSUME Init PROVE IInv
  OBVIOUS
<1>. USE DEF Init
<1>1. Nobody \in [node : DataNode, phase : {"none", "find", "recover"}, todo : SUBSET Chunk]
  BY NodesAssumption DEF Nobody
<1>2. TypeOK
  BY <1>1 DEF TypeOK
<1>3. Kept
  BY DEF Kept, Nobody
<1>. QED BY <1>2, <1>3 DEF IInv

\* A step that leaves chunks and requests alone.
LEMMA SameChunks ==
  ASSUME Kept, UNCHANGED <<chunks, requests>>,
         working' = working \/ working'.todo = {}
  PROVE  Kept'
BY DEF Kept

LEMMA DataNodeKeeps ==
  ASSUME IInv, DataNodeStep
  PROVE  IInv'
<1>. USE DEF IInv
<1>1. ASSUME NEW n \in DataNode, Register(n)
      PROVE  IInv'
  <2>1. TypeOK'
    BY <1>1 DEF TypeOK, Register, recovery
  <2>2. Kept'
    BY <1>1, SameChunks DEF Register, recovery
  <2>. QED BY <2>1, <2>2
<1>2. ASSUME NEW n \in DataNode, Heartbeat(n)
      PROVE  IInv'
  <2>1. TypeOK'
    BY <1>2 DEF TypeOK, Heartbeat, recovery
  <2>2. Kept'
    BY <1>2, SameChunks DEF Heartbeat, recovery
  <2>. QED BY <2>1, <2>2
<1>3. ASSUME NEW late \in SUBSET DataNode, CheckDataNodes(late)
      PROVE  IInv'
  <2>1. Cardinality(late) \in Nat
    BY NodesAssumption, FS_Subset, FS_CardinalityType
  <2>2. TypeOK'
    BY <1>3, <2>1 DEF TypeOK, CheckDataNodes
  <2>3. Kept'
    BY <1>3, SameChunks DEF CheckDataNodes
  <2>. QED BY <2>2, <2>3
<1>. QED BY <1>1, <1>2, <1>3 DEF DataNodeStep

LEMMA AllocKeeps ==
  ASSUME IInv, NEW f \in File, AllocChunk(f)
  PROVE  IInv'
<1>. USE DEF IInv
<1>1. PICK order \in Orders, count \in 1 .. MaxChunks :
        /\ chunks' = [c \in Chunk |->
               IF c[1] = f /\ c[2] < count THEN Placement(order, c[2]) ELSE chunks[c]]
        /\ files' = [files EXCEPT ![f] = @ \o [k \in 1 .. count |-> <<f, k - 1>>]]
  BY DEF AllocChunk
<1>2. /\ running = "yes" /\ requests[f] = "put" /\ Cardinality(Online) >= ReplicaCount
      /\ requests' = [requests EXCEPT ![f] = "allocated"]
      /\ UNCHANGED <<datanodes, declared, waiting, working, running>>
  BY DEF AllocChunk, recovery
<1>3. \A k \in 0 .. count - 1 : k \in Nat /\ <<f, k>> \in Chunk
  BY CountsAssumption DEF Chunk
<1>4. ASSUME NEW i \in Nat
      PROVE  /\ Placement(order, i) \in Replicas
             /\ Led(Placement(order, i))
             /\ Spread(Placement(order, i))
             /\ Placement(order, i) # <<>>
  BY <1>2, PlacementKeeps, KnownReplicas
<1>5. \A c \in Chunk : requests[c[1]] # "allocated" => chunks[c] = <<>>
  BY DEF Kept
<1>6. ASSUME NEW c \in Chunk
      PROVE  \/ chunks'[c] = chunks[c]
             \/ /\ c[1] = f /\ c[2] \in Nat /\ chunks[c] = <<>>
                /\ chunks'[c] = Placement(order, c[2])
  <2>1. c[1] \in File /\ c[2] \in Nat
    BY DEF Chunk
  <2>2. c[1] = f => chunks[c] = <<>>
    BY <1>2, <1>5
  <2>. QED BY <1>1, <2>1, <2>2
<1>8. TypeOK'
  <2>1. chunks' \in [Chunk -> {<<>>} \cup [1 .. ReplicaCount -> Replica]]
    <3>1. DOMAIN chunks' = Chunk /\ chunks' = [c \in Chunk |-> chunks'[c]]
      BY <1>1
    <3> DEFINE Held == {<<>>} \cup [1 .. ReplicaCount -> Replica]
    <3>2. /\ \A c \in Chunk : chunks[c] \in Held
          /\ \A i \in Nat : Placement(order, i) \in Held
      BY <1>4 DEF TypeOK, Replicas
    <3> HIDE DEF Held
    <3>3. \A c \in Chunk : chunks'[c] \in Held
      BY <1>6, <3>2, Zenon
    <3>4. chunks' \in [Chunk -> Held]
      BY <3>1, <3>3, Zenon
    <3>. QED BY <3>4 DEF Held
  <2>2. files' \in [File -> Seq(Chunk)]
    <3>1. [k \in 1 .. count |-> <<f, k - 1>>] \in Seq(Chunk)
      <4>1. count \in Nat
        BY CountsAssumption
      <4>2. \A k \in 1 .. count : <<f, k - 1>> \in Chunk
        BY CountsAssumption DEF Chunk
      <4>. QED BY <4>1, <4>2
    <3>. HIDE DEF Chunk
    <3>2. files[f] \o [k \in 1 .. count |-> <<f, k - 1>>] \in Seq(Chunk)
      BY <3>1 DEF TypeOK
    <3>. QED BY <1>1, <3>2 DEF TypeOK
  <2>4. requests' \in [File -> {"none", "put", "allocated", "refused"}]
    BY <1>2 DEF TypeOK
  <2>. QED BY <1>2, <2>1, <2>2, <2>4 DEF TypeOK
<1>9. Kept'
  <2>1. \A c \in Chunk : chunks'[c] # <<>> => Led(chunks'[c]) /\ Spread(chunks'[c])
    BY <1>4, <1>6 DEF Kept
  <2>2. \A c \in working'.todo : chunks'[c] # <<>>
    BY <1>2, <1>4, <1>6 DEF Kept, TypeOK
  <2>3. \A c \in Chunk : requests'[c[1]] # "allocated" => chunks'[c] = <<>>
    <3>1. \A c \in Chunk : c[1] \in File
      BY DEF Chunk
    <3>2. \A c \in Chunk : requests'[c[1]] # "allocated" => c[1] # f /\ requests[c[1]] # "allocated"
      BY <1>2, <3>1 DEF TypeOK
    <3>. QED BY <1>5, <1>6, <3>2
  <2>. QED BY <2>1, <2>2, <2>3 DEF Kept
<1>. QED BY <1>8, <1>9

LEMMA ClientKeeps ==
  ASSUME IInv, ClientStep
  PROVE  IInv'
<1>. USE DEF IInv
<1>1. ASSUME NEW f \in File, PutFile(f)
      PROVE  IInv'
  <2>1. TypeOK'
    BY <1>1 DEF TypeOK, PutFile, recovery
  <2>2. \A c \in Chunk : c[1] \in File
    BY DEF Chunk
  <2>3. Kept'
    BY <1>1, <2>2 DEF Kept, PutFile, recovery, TypeOK
  <2>. QED BY <2>1, <2>3
<1>2. ASSUME NEW f \in File, AllocChunk(f)
      PROVE  IInv'
  BY <1>2, AllocKeeps
<1>4. ASSUME NEW f \in File, RefuseAlloc(f)
      PROVE  IInv'
  <2>1. TypeOK'
    BY <1>4 DEF TypeOK, RefuseAlloc, recovery
  <2>2. \A c \in Chunk : c[1] \in File
    BY DEF Chunk
  <2>3. Kept'
    BY <1>4, <2>2 DEF Kept, RefuseAlloc, recovery, TypeOK
  <2>. QED BY <2>1, <2>3
<1>3. ASSUME NEW f \in File, UnlockAgain(f)
      PROVE  IInv'
  <2>1. TypeOK'
    BY <1>3 DEF TypeOK, UnlockAgain, master, recovery
  <2>2. Kept'
    BY <1>3, SameChunks DEF UnlockAgain, master, recovery
  <2>. QED BY <2>1, <2>2
<1>. QED BY <1>1, <1>2, <1>3, <1>4 DEF ClientStep

\* What a goroutine goes on with.
LEMMA WorkOnKeeps ==
  ASSUME TypeOK, NEW todo \in SUBSET Chunk, WorkOn(todo)
  PROVE  /\ working' \in [node : DataNode, phase : {"none", "find", "recover"}, todo : SUBSET Chunk]
         /\ working'.todo = todo
<1>1. CASE todo = {}
  BY <1>1, NodesAssumption DEF WorkOn, Nobody
<1>2. CASE todo # {}
  BY <1>2 DEF WorkOn, TypeOK
<1>. QED BY <1>1, <1>2

LEMMA RecoverKeeps ==
  ASSUME IInv, NEW c \in Chunk, RecoverChunk(c)
  PROVE  IInv'
<1>. USE DEF IInv
<1>. DEFINE rs == Recovered(chunks[c], working.node)
<1>1. /\ c \in working.todo
      /\ chunks' = [chunks EXCEPT ![c] = rs]
      /\ WorkOn(working.todo \ {c})
      /\ UNCHANGED <<datanodes, requests, files, declared, waiting, running>>
  BY DEF RecoverChunk
<1>2. chunks[c] # <<>> /\ chunks[c] \in Replicas /\ Led(chunks[c]) /\ Spread(chunks[c])
  BY <1>1 DEF Kept, TypeOK, Replicas
<1>3. /\ rs \in Replicas /\ Led(rs) /\ rs # <<>>
      /\ \A i \in 1 .. ReplicaCount : rs[i].node = chunks[c][i].node
  BY <1>2, RecoveredKeeps, KnownReplicas
<1>4. Spread(rs)
  BY <1>2, <1>3 DEF Spread
<1>5. /\ working' \in [node : DataNode, phase : {"none", "find", "recover"}, todo : SUBSET Chunk]
      /\ working'.todo = working.todo \ {c}
  <2>1. working.todo \ {c} \in SUBSET Chunk
    BY DEF TypeOK
  <2>. QED BY <1>1, <2>1, WorkOnKeeps
<1>. HIDE DEF rs
<1>6. /\ chunks'[c] = rs
      /\ \A d \in Chunk : d # c => chunks'[d] = chunks[d]
      /\ chunks' \in [Chunk -> {<<>>} \cup [1 .. ReplicaCount -> Replica]]
  BY <1>1, <1>3 DEF TypeOK, Replicas
<1>7. TypeOK'
  BY <1>1, <1>5, <1>6 DEF TypeOK
<1>8. Kept'
  <2>1. \A d \in Chunk : chunks'[d] # <<>> => Led(chunks'[d]) /\ Spread(chunks'[d])
    BY <1>3, <1>4, <1>6 DEF Kept
  <2>2. \A d \in working'.todo : chunks'[d] # <<>>
    BY <1>3, <1>5, <1>6 DEF Kept, TypeOK
  <2>3. \A d \in Chunk : requests'[d[1]] # "allocated" => chunks'[d] = <<>>
    BY <1>1, <1>2, <1>6 DEF Kept
  <2>. QED BY <2>1, <2>2, <2>3 DEF Kept
<1>. QED BY <1>7, <1>8

LEMMA RecoveryKeeps ==
  ASSUME IInv, RecoveryStep
  PROVE  IInv'
<1>. USE DEF IInv
<1>1. ASSUME FindChunks
      PROVE  IInv'
  <2>. DEFINE todo == {c \in Chunk : \E i \in DOMAIN chunks[c] : chunks[c][i].node = working.node}
  <2>1. WorkOn(todo) /\ todo \in SUBSET Chunk
    BY <1>1 DEF FindChunks
  <2>2. \A c \in todo : chunks[c] # <<>>
    OBVIOUS
  <2>. HIDE DEF todo
  <2>3. /\ working' \in [node : DataNode, phase : {"none", "find", "recover"}, todo : SUBSET Chunk]
        /\ working'.todo = todo
    BY <2>1, WorkOnKeeps
  <2>4. TypeOK'
    BY <1>1, <2>3 DEF TypeOK, FindChunks, master
  <2>5. Kept'
    BY <1>1, <2>2, <2>3 DEF Kept, FindChunks, master
  <2>. QED BY <2>4, <2>5
<1>2. ASSUME NEW n \in DataNode, BeginRecovery(n)
      PROVE  IInv'
  <2>1. TypeOK'
    BY <1>2 DEF TypeOK, BeginRecovery, master
  <2>2. Kept'
    BY <1>2, SameChunks DEF BeginRecovery, master
  <2>. QED BY <2>1, <2>2
<1>3. ASSUME NEW c \in Chunk, RecoverChunk(c)
      PROVE  IInv'
  BY <1>3, RecoverKeeps
<1>. QED BY <1>1, <1>2, <1>3 DEF RecoveryStep

LEMMA StepKeeps == IInv /\ [Next]_vars => IInv'
<1>1. ASSUME IInv, UNCHANGED vars
      PROVE  IInv'
  <2>. USE DEF IInv, vars, master, recovery
  <2>1. TypeOK'
    BY <1>1 DEF TypeOK
  <2>2. Kept'
    BY <1>1, SameChunks
  <2>. QED BY <2>1, <2>2
<1>. QED BY <1>1, DataNodeKeeps, ClientKeeps, RecoveryKeeps DEF Next

\* In every state the metadata keeps the invariant.
THEOREM Invariance == Spec => []IInv
BY InitInv, StepKeeps, PTL DEF Spec

\* Types, and as many replicas of a known chunk as are configured.
THEOREM TypeCorrect == Spec => []TypeOK
<1>1. IInv => TypeOK
  BY DEF IInv
<1>. QED BY <1>1, Invariance, PTL

-----------------------------------------------------------------------------
\* A known chunk, seen through its replicas.
LEMMA KnownChunk ==
  ASSUME IInv, NEW c \in Chunk, chunks[c] # <<>>
  PROVE  /\ DOMAIN chunks[c] = 1 .. ReplicaCount
         /\ Led(chunks[c]) /\ Spread(chunks[c])
BY KnownReplicas DEF IInv, TypeOK, Kept, Replicas

LEMMA UnknownChunk ==
  ASSUME NEW c, chunks[c] = <<>>
  PROVE  DOMAIN chunks[c] = {}
OBVIOUS

\* Recoveries and elections, in any order, leave each chunk exactly one primary
\* (electNewPrimary, replica_manager.go).
THEOREM PrimaryIsOne == Spec => []OnePrimary
<1>1. ASSUME IInv, NEW c \in Chunk, chunks[c] # <<>>
      PROVE  \E i \in DOMAIN chunks[c] : Primaries(c) = {i}
  <2>1. PICK p \in 1 .. ReplicaCount :
            \A i \in 1 .. ReplicaCount : chunks[c][i].role = "PRIMARY" <=> i = p
    BY <1>1, KnownChunk DEF Led
  <2>2. Primaries(c) = {p}
    BY <1>1, <2>1, KnownChunk DEF Primaries
  <2>. QED BY <1>1, <2>2, KnownChunk
<1>2. IInv => OnePrimary
  BY <1>1 DEF OnePrimary
<1>. QED BY <1>2, Invariance, PTL

\* No order of nodes that fail and return leaves a chunk led by an offline
\* replica while it has a healthy one.
THEOREM HealthyLeads == Spec => []PrimaryHealthy
<1>1. ASSUME IInv, NEW c \in Chunk, NEW i \in Primaries(c), chunks[c][i].status = "OFFLINE",
             NEW j \in DOMAIN chunks[c]
      PROVE  chunks[c][j].status = "OFFLINE"
  <2>1. chunks[c] # <<>>
    BY <1>1, UnknownChunk
  <2>2. i \in 1 .. ReplicaCount /\ chunks[c][i].role = "PRIMARY" /\ j \in 1 .. ReplicaCount
    BY <1>1, <2>1, KnownChunk DEF Primaries
  <2>. QED BY <1>1, <2>1, <2>2, KnownChunk DEF Led
<1>2. IInv => PrimaryHealthy
  BY <1>1 DEF PrimaryHealthy
<1>. QED BY <1>2, Invariance, PTL

\* The arithmetic of the placement puts the replicas of every chunk on different
\* nodes, recovery never moves one, and an allocation that would give fewer of them is
\* refused before it begins (handleAllocChunk).
THEOREM StaySpread == Spec => []ReplicasSpread
<1>1. ASSUME IInv, NEW c \in Chunk, chunks[c] # <<>>
      PROVE  /\ Len(chunks[c]) = ReplicaCount
             /\ Cardinality({chunks[c][i].node : i \in 1 .. ReplicaCount}) = ReplicaCount
  <2>. DEFINE rs == chunks[c]
              at == [i \in 1 .. ReplicaCount |-> rs[i].node]
              on == {rs[i].node : i \in 1 .. ReplicaCount}
  <2>1. ReplicaCount \in Nat /\ rs \in Replicas /\ Spread(rs)
    BY <1>1, KnownChunk, CountsAssumption DEF IInv, TypeOK, Replicas
  <2>. HIDE DEF rs
  <2>2. Len(rs) = ReplicaCount
    BY <2>1 DEF Replicas
  <2>3. at \in Bijection(1 .. ReplicaCount, on)
    <3>1. at \in [1 .. ReplicaCount -> on]
      OBVIOUS
    <3>2. \A i, j \in 1 .. ReplicaCount : at[i] = at[j] => i = j
      BY <2>1 DEF Spread
    <3>3. \A n \in on : \E i \in 1 .. ReplicaCount : at[i] = n
      OBVIOUS
    <3>. HIDE DEF at, on
    <3>. QED BY <3>1, <3>2, <3>3 DEF Bijection, Injection, Surjection, IsInjective
  <2>. HIDE DEF at, on
  <2>4. Cardinality(on) = ReplicaCount
    BY <2>1, <2>3, FS_CountingElements DEF ExistsBijection
  <2>. QED BY <2>2, <2>4 DEF rs, on
<1>2. IInv => ReplicasSpread
  BY <1>1 DEF ReplicasSpread
<1>. QED BY <1>2, Invariance, PTL
=============================================================================

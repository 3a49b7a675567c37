----------------------- MODULE ChunkReplicationProofs -----------------------
(***************************************************************************)
(* Proofs about the data nodes of one chunk, for any number of nodes,      *)
(* writes, blocks, crashes and lost copies: reads are current, the         *)
(* versions of one life grow, files hold nothing that is not in the log,   *)
(* and a proxied write is not proxied again.                               *)
(***************************************************************************)
EXTENDS ChunkReplication, TLAPS

Early  == {"none", "arrived", "proxy", "list", "dial", "forwarded", "log"}
InHand == {"arrived", "proxy", "list", "dial", "forwarded", "log", "store", "record"}
Begun  == {"store", "record", "done", "failed", "lost"}

\* Where a request is handled, and what its handler has seen.
Handled ==
    \A w \in Write :
        /\ requests[w].phase \in {"arrived", "proxy", "list", "dial"} /\ requests[w].at # Primary =>
               chunk[requests[w].at] # NoChunk
        /\ requests[w].phase \in {"forwarded", "log", "store", "record", "done"} =>
               requests[w].at = Primary
        /\ requests[w].seen = "PRIMARY" => requests[w].at = Primary
        /\ requests[w].phase = "dial" => knows[requests[w].at] = "yes"
        /\ requests[w].phase \in InHand \ {"forwarded"} =>
               up[requests[w].at] = "yes" /\ requests[w].life = lives[requests[w].at]

\* A write comes to another node only from one that holds a copy, so the primary has
\* been told its role: when it has lost it, no list of nodes will come to it again.
Hops ==
    \A w \in Write :
        /\ requests[w].hops \in {0, 1}
        /\ requests[w].at # Primary => requests[w].hops = 0 /\ setRole[Primary] = "gone"
        /\ requests[w].phase = "none" => requests[w].hops = 0
        /\ requests[w].hops = 1 => setRole[Primary] = "gone" /\ requests[w].phase # "dial"
        /\ /\ requests[w].hops = 1
           /\ \/ requests[w].phase \in {"proxy", "list"}
              \/ requests[w].phase = "arrived" /\ requests[w].seen = "SECONDARY"
           => knows[Primary] = "no"

\* Only the primary is told, or takes itself for, the primary; copies are sent only
\* by a primary that has been told.
Roles ==
    /\ \A n \in Secondary : role[n] = "SECONDARY"
    /\ knows[Primary] = "yes" => role[Primary] = "PRIMARY" /\ setRole[Primary] = "gone"
    /\ setRole[Primary] = "half" => role[Primary] = "PRIMARY"
    /\ \A n \in Secondary : chunk[n] # NoChunk => setRole[Primary] = "gone"
    /\ \A y \in syncs : setRole[Primary] = "gone"

\* A write comes in the log after those that were over when it arrived.
Follows(w) ==
    \E j \in DOMAIN walLog[Primary] :
        /\ walLog[Primary][j] = w
        /\ \A i \in DOMAIN walLog[Primary] : i > j => walLog[Primary][i] \notin before[w]

Replaces ==
    \A w \in Write :
        /\ w \notin before[w]
        /\ \A v \in before[w] : requests[v].phase \in Over
        /\ requests[w].phase \in Early => requests[w].logged = "no"
        /\ requests[w].phase \in {"store", "record", "done"} => requests[w].logged # "no"
        /\ requests[w].logged = "yes" => Follows(w)

\* The file of the primary holds in no block what a logged write has replaced there
\* while the node accepts, and for ever once its log cannot be read.  While the log is
\* replayed, the file holds of what has been replayed the last of each block.
Current ==
    \A w \in Write, b \in Block :
        /\ requests[w].logged = "yes" /\ requests[w].phase \in {"record", "done"}
        /\ b <= requests[w].size
        => storage[Primary][b] \notin before[w]

Rewritten ==
    /\ replayed[Primary] <= Len(walLog[Primary])
    /\ \A j \in 1 .. replayed[Primary], b \in Block :
           b <= requests[walLog[Primary][j]].size =>
               \E i \in j .. replayed[Primary] : storage[Primary][b] = walLog[Primary][i]

Filed ==
    skipped[Primary] = "no" =>
        /\ torn[Primary] = "yes" \/ up[Primary] = "yes" => Current
        /\ torn[Primary] = "no" /\ up[Primary] = "starting" => Rewritten

\* Only the primary logs, and what is in its log, in a file or on its way to one
\* is a write that got past the log there.
InLog(w) == \E i \in DOMAIN walLog[Primary] : walLog[Primary][i] = w

Backed(w) ==
    /\ requests[w].at = Primary /\ requests[w].phase \in Begun
    /\ InLog(w) \/ requests[w].logged = "failed"

Copies ==
    /\ \A n \in Secondary : walLog[n] = <<>>
    /\ \A i \in DOMAIN walLog[Primary] :
           LET r == requests[walLog[Primary][i]]
           IN  r.at = Primary /\ r.phase \in Begun
    /\ \A n \in Node, b \in Block, w \in Write : storage[n][b] = w => Backed(w)
    /\ \A w \in spawned : requests[w].phase = "done"
    /\ \A y \in syncs : requests[y.write].phase = "done" /\ y.to # Primary

\* The entry of the running primary has the highest version of its life.
Versions ==
    /\ \A w \in Write : requests[w].phase = "done" =>
           /\ requests[w].version > 0
           /\ requests[w].life <= lives[Primary]
           /\ up[Primary] = "starting" => requests[w].life < lives[Primary]
           /\ requests[w].life = lives[Primary] /\ up[Primary] = "yes" =>
                  requests[w].version <= chunk[Primary].version
    /\ VersionsGrow

IInv == TypeOK /\ Handled /\ Hops /\ Roles /\ Replaces /\ Filed /\ Copies /\ Versions

-----------------------------------------------------------------------------
LEMMA InitInv == Init => IInv
<1>. SUFFICES ASSUME Init PROVE IInv
  OBVIOUS
<1>. USE DEF Init
<1>1. TypeOK
  BY PrimaryAssumption, BoundsAssumption DEF TypeOK, Request, Phase, NoChunk, NoFile
<1>2. \A w \in Write : /\ requests[w].phase = "none" /\ requests[w].at = Primary
                       /\ requests[w].seen = "SECONDARY" /\ requests[w].hops = 0
                       /\ requests[w].logged = "no"
  OBVIOUS
<1>3. Handled /\ Hops
  BY <1>2 DEF Handled, Hops, InHand
<1>4. Roles
  BY PrimaryAssumption DEF Roles, Secondary
<1>5. Replaces
  BY <1>2 DEF Replaces
<1>6. Filed
  BY <1>2, PrimaryAssumption DEF Filed, Current
<1>7. Copies
  <2>1. \A n \in Node, b \in Block : storage[n][b] = 0 /\ 0 \notin Write
    BY BoundsAssumption DEF NoFile, Write
  <2>. QED BY <2>1, PrimaryAssumption DEF Copies, Secondary
<1>8. Versions
  BY <1>2 DEF Versions, VersionsGrow
<1>. QED BY <1>1, <1>3, <1>4, <1>5, <1>6, <1>7, <1>8 DEF IInv

-----------------------------------------------------------------------------
\* What does not change with the variables it speaks of.

LEMMA SameHandled ==
  ASSUME Handled, UNCHANGED <<requests, chunk, up, lives, knows>>
  PROVE  Handled'
BY DEF Handled

LEMMA SameHops ==
  ASSUME Hops, UNCHANGED <<requests, setRole, knows>>
  PROVE  Hops'
BY DEF Hops

LEMMA SameReplaces ==
  ASSUME Replaces, UNCHANGED <<requests, before, walLog>>
  PROVE  Replaces'
BY DEF Replaces, Follows

LEMMA SameFiled ==
  ASSUME Filed, UNCHANGED <<requests, before, walLog, torn, up, replayed, skipped>>,
         UNCHANGED storage[Primary]
  PROVE  Filed'
BY DEF Filed, Current, Rewritten

LEMMA SameCopies ==
  ASSUME Copies, UNCHANGED <<requests, storage, walLog, spawned, syncs>>
  PROVE  Copies'
BY DEF Copies, Backed, InLog

LEMMA SameVersions ==
  ASSUME Versions, UNCHANGED <<requests, before, lives, up>>, UNCHANGED chunk[Primary]
  PROVE  Versions'
BY DEF Versions, VersionsGrow

\* The numbers in the log, in the files and on their way are writes.
LEMMA AreWrites ==
  ASSUME TypeOK
  PROVE  /\ \A n \in Node : \A i \in DOMAIN walLog[n] : walLog[n][i] \in Write
         /\ \A v \in spawned : v \in Write
         /\ \A y \in syncs : y.write \in Write
BY DEF TypeOK, Sync

\* The files after one of them has been overwritten.
Overwritten(n, w, k) ==
    /\ storage' \in [Node -> [Block -> 0 .. MaxWrites]]
    /\ \A m \in Node : m # n => storage'[m] = storage[m]
    /\ \A b \in Block : storage'[n][b] = IF b <= k THEN w ELSE storage[n][b]

LEMMA OverwriteFile ==
  ASSUME TypeOK, NEW n \in Node, NEW w \in Write, NEW k \in Nat, Overwrite(n, w, k)
  PROVE  Overwritten(n, w, k)
<1>1. w \in 0 .. MaxWrites
  BY BoundsAssumption DEF Write
<1>2. [b \in Block |-> IF b <= k THEN w ELSE storage[n][b]] \in [Block -> 0 .. MaxWrites]
  BY <1>1 DEF TypeOK
<1>. QED BY <1>2 DEF Overwrite, Overwritten, TypeOK

\* Writes that are backed stay so while requests go on and the log grows.
Onward ==
    \A v \in Write : requests[v].phase \in Begun =>
        /\ requests'[v].phase \in Begun
        /\ requests'[v].at = requests[v].at /\ requests'[v].logged = requests[v].logged

Grows == \A i \in DOMAIN walLog[Primary] :
             i \in DOMAIN walLog'[Primary] /\ walLog'[Primary][i] = walLog[Primary][i]

LEMMA StaysBacked ==
  ASSUME Onward, Grows, NEW w \in Write, Backed(w)
  PROVE  Backed(w)'
<1>1. InLog(w) => InLog(w)'
  BY DEF InLog, Grows
<1>. QED BY <1>1 DEF Onward, Backed

LEMMA SameLogGrows ==
  ASSUME UNCHANGED walLog
  PROVE  Grows
BY DEF Grows

\* Files in which every block is as it was or holds data that is backed.
LEMMA FilesBacked ==
  ASSUME Copies, Onward, Grows,
         \A n \in Node, b \in Block, w \in Write :
             storage'[n][b] = w => storage[n][b] = w \/ Backed(w)'
  PROVE  \A n \in Node, b \in Block, w \in Write : storage'[n][b] = w => Backed(w)'
<1>. SUFFICES ASSUME NEW n \in Node, NEW b \in Block, NEW w \in Write, storage[n][b] = w
              PROVE  Backed(w)'
  OBVIOUS
<1>1. Backed(w)
  BY DEF Copies
<1>. QED BY <1>1, StaysBacked

-----------------------------------------------------------------------------
\* SetRole.

LEMMA SetRoleKeeps ==
  ASSUME IInv, NEW n \in Node, SetLocalRole(n) \/ RegisterReplicas(n) \/ SetRoleLost(n)
  PROVE  IInv'
<1>. USE DEF IInv
<1>1. /\ UNCHANGED <<up, lives, chunk, storage, walLog, torn, replayed, skipped, requests, before,
                     spawned, syncs, crashes, drops>>
      /\ role' \in [Node -> {"PRIMARY", "SECONDARY"}]
      /\ knows' \in [Node -> {"yes", "no"}]
      /\ setRole' \in [Node -> {"sent", "half", "gone"}]
  BY DEF TypeOK, SetLocalRole, RegisterReplicas, SetRoleLost, process, disks, replays, faults
<1>2. TypeOK'
  BY <1>1 DEF TypeOK
<1>3. Replaces' /\ Filed' /\ Copies' /\ Versions'
  BY <1>1, SameReplaces, SameFiled, SameCopies, SameVersions
<1>4. /\ setRole[Primary] = "gone" => setRole'[Primary] = "gone" /\ knows'[Primary] = knows[Primary]
      /\ \A m \in Node : knows[m] = "yes" => knows'[m] = "yes"
  BY PrimaryAssumption DEF TypeOK, SetLocalRole, RegisterReplicas, SetRoleLost, process
<1>5. Handled'
  <2>1. \A w \in Write : requests[w].at \in Node
    BY DEF TypeOK, Request
  <2>. QED BY <1>1, <1>4, <2>1 DEF Handled
<1>6. Hops'
  BY <1>1, <1>4 DEF Hops
<1>7. Roles'
  <2>1. CASE SetLocalRole(n)
    BY <2>1, PrimaryAssumption DEF Roles, TypeOK, Secondary, SetLocalRole
  <2>2. CASE RegisterReplicas(n)
    BY <2>2, PrimaryAssumption DEF Roles, TypeOK, Secondary, RegisterReplicas
  <2>3. CASE SetRoleLost(n)
    BY <2>3, PrimaryAssumption DEF Roles, TypeOK, Secondary, SetRoleLost, process
  <2>. QED BY <2>1, <2>2, <2>3
<1>. QED BY <1>2, <1>3, <1>5, <1>6, <1>7

-----------------------------------------------------------------------------
\* Copies.

LEMMA RunSyncKeeps ==
  ASSUME IInv, NEW w \in Write, RunSync(w)
  PROVE  IInv'
<1>. USE DEF IInv
<1>1. /\ w \in spawned
      /\ spawned' = spawned \ {w}
      /\ UNCHANGED <<process, chunk, disks, replays, setRole, requests, before, faults>>
  BY DEF RunSync
<1>2. requests[w].phase = "done" /\ requests[w].at = Primary
  BY <1>1 DEF Copies, Handled, TypeOK
<1>3. \A y \in syncs' : \/ y \in syncs
                        \/ y \in Sync /\ y.write = w /\ y.to # Primary /\ knows[Primary] = "yes"
  <2>. SUFFICES ASSUME NEW y \in syncs', y \notin syncs
                PROVE  y \in Sync /\ y.write = w /\ y.to # Primary /\ knows[Primary] = "yes"
    OBVIOUS
  <2>1. PICK n \in SecondaryNodes(Primary) :
            y = [write |-> w, from |-> Primary, to |-> n, version |-> 0, phase |-> "marshal"]
    BY <1>2 DEF RunSync
  <2>2. n \in Node /\ n # Primary /\ knows[Primary] = "yes"
    BY DEF SecondaryNodes, Secondary
  <2>. QED BY <2>1, <2>2, PrimaryAssumption DEF Sync
<1>4. TypeOK'
  BY <1>1, <1>3 DEF TypeOK, process, disks, replays, faults
<1>5. Handled' /\ Hops' /\ Replaces' /\ Filed' /\ Versions'
  BY <1>1, SameHandled, SameHops, SameReplaces, SameFiled, SameVersions DEF process, disks, replays
<1>6. Roles'
  BY <1>1, <1>3 DEF Roles, process
<1>7. Copies'
  <2>1. \A n \in Node, b \in Block, v \in Write : storage'[n][b] = v => Backed(v)'
    BY <1>1 DEF Copies, Backed, InLog, disks
  <2>. QED BY <1>1, <1>2, <1>3, <2>1 DEF Copies, disks
<1>. QED BY <1>4, <1>5, <1>6, <1>7

\* A step of one copy, whose write is backed and whose node is not the primary.
CopyMoves(y) ==
    /\ syncs' \in SUBSET Sync
    /\ \A z \in syncs' : z \in syncs \/ (z.write = y.write /\ z.to = y.to)
    /\ UNCHANGED storage \/ \E k \in Nat : Overwrite(y.to, y.write, k)
    /\ chunk' \in [Node -> [version : Nat, sum : 0 .. MaxWrites]]
    /\ \A n \in Node : chunk'[n] = chunk[n] \/ (n = y.to /\ chunk'[n] # NoChunk)
    /\ drops' \in Nat
    /\ UNCHANGED <<process, walLog, torn, replays, setRole, requests, before, spawned, crashes>>

LEMMA CopyKeeps ==
  ASSUME IInv, NEW y \in syncs, CopyMoves(y)
  PROVE  IInv'
<1>. USE DEF IInv, CopyMoves
<1>1. y \in Sync /\ y.to # Primary /\ requests[y.write].phase = "done"
      /\ setRole[Primary] = "gone" /\ y.write \in Write /\ y.to \in Node
  BY DEF TypeOK, Copies, Roles, Sync
<1>2. /\ storage' \in [Node -> [Block -> 0 .. MaxWrites]]
      /\ storage'[Primary] = storage[Primary] /\ chunk'[Primary] = chunk[Primary]
      /\ \A n \in Node, b \in Block : storage'[n][b] = storage[n][b] \/ storage'[n][b] = y.write
  <2>1. CASE UNCHANGED storage
    BY <1>1, <2>1, PrimaryAssumption DEF TypeOK
  <2>2. ASSUME NEW k \in Nat, Overwrite(y.to, y.write, k)
        PROVE  /\ storage' \in [Node -> [Block -> 0 .. MaxWrites]]
               /\ storage'[Primary] = storage[Primary]
               /\ \A n \in Node, b \in Block : storage'[n][b] = storage[n][b]
                                            \/ storage'[n][b] = y.write
    BY <1>1, <2>2, OverwriteFile, PrimaryAssumption DEF Overwritten
  <2>3. chunk'[Primary] = chunk[Primary]
    BY <1>1, PrimaryAssumption
  <2>. QED BY <2>1, <2>2, <2>3
<1>3. TypeOK'
  BY <1>2 DEF TypeOK, process, replays
<1>4. Hops' /\ Replaces' /\ Filed' /\ Versions'
  BY <1>2, SameHops, SameReplaces, SameFiled, SameVersions DEF process, replays
<1>5. Handled'
  <2>1. \A w \in Write : requests[w].at \in Node
    BY DEF TypeOK, Request
  <2>. QED BY <2>1 DEF Handled, process
<1>6. Roles'
  BY <1>1 DEF Roles, process
<1>7. Copies'
  <2>1. Onward /\ Grows
    BY DEF Onward, Grows
  <2>2. Backed(y.write)
    <3>1. requests[y.write].at = Primary /\ requests[y.write].logged \in {"yes", "failed"}
      BY <1>1 DEF Handled, Replaces, TypeOK, Request
    <3>. QED BY <1>1, <3>1 DEF Backed, Begun, InLog, Replaces, Follows
  <2>3. Backed(y.write)'
    BY <2>2 DEF Backed, InLog
  <2>4. \A n \in Node, b \in Block, w \in Write : storage'[n][b] = w => Backed(w)'
    BY <1>2, <2>1, <2>3, FilesBacked
  <2>. QED BY <1>1, <2>4 DEF Copies
<1>. QED BY <1>3, <1>4, <1>5, <1>6, <1>7

LEMMA SyncKeeps ==
  ASSUME IInv, NEW y \in syncs,
         SendSync(y) \/ SyncStore(y) \/ SyncRecord(y) \/ SyncFails(y)
  PROVE  IInv'
<1>. USE DEF IInv
<1>0. /\ y \in Sync /\ y.write \in Write /\ y.to \in Node /\ y.version \in Nat
      /\ requests[y.write].size \in Nat /\ drops \in Nat /\ syncs \in SUBSET Sync
  BY DEF TypeOK, Sync, Request
<1>1. CASE SendSync(y)
  <2>. DEFINE z == [y EXCEPT !.phase = "sent", !.version = chunk[y.from].version]
  <2>1. z \in Sync /\ z.write = y.write /\ z.to = y.to
    BY <1>0 DEF Sync, TypeOK
  <2>2. syncs' = (syncs \ {y}) \cup {z}
    BY <1>1 DEF SendSync
  <2>. HIDE DEF z
  <2>3. CopyMoves(y)
    BY <1>0, <1>1, <2>1, <2>2 DEF CopyMoves, SendSync, TypeOK, disks, faults
  <2>. QED BY <2>3, CopyKeeps
<1>2. CASE SyncStore(y)
  <2>. DEFINE z == [y EXCEPT !.phase = "stored"]
  <2>1. z \in Sync /\ z.write = y.write /\ z.to = y.to
    BY <1>0 DEF Sync
  <2>2. syncs' = (syncs \ {y}) \cup {z} /\ Overwrite(y.to, y.write, requests[y.write].size)
    BY <1>2 DEF SyncStore
  <2>. HIDE DEF z
  <2>3. CopyMoves(y)
    BY <1>0, <1>2, <2>1, <2>2 DEF CopyMoves, SyncStore, TypeOK, faults
  <2>. QED BY <2>3, CopyKeeps
<1>3. CASE SyncRecord(y)
  <2>. DEFINE x == [version |-> y.version, sum |-> y.write]
  <2>1. syncs' = syncs \ {y} /\ chunk' = [chunk EXCEPT ![y.to] = x]
    BY <1>3 DEF SyncRecord
  <2>2. x \in [version : Nat, sum : 0 .. MaxWrites] /\ x # NoChunk
    BY <1>0, BoundsAssumption DEF Write, NoChunk
  <2>. HIDE DEF x
  <2>3. CopyMoves(y)
    BY <1>0, <1>3, <2>1, <2>2 DEF CopyMoves, SyncRecord, TypeOK, disks, faults
  <2>. QED BY <2>3, CopyKeeps
<1>4. CASE SyncFails(y)
  <2>1. UNCHANGED storage \/ \E k \in Nat : Overwrite(y.to, y.write, k)
    <3>1. \A k \in 1 .. requests[y.write].size - 1 : k \in Nat
      BY <1>0
    <3>. QED BY <1>4, <3>1 DEF SyncFails
  <2>2. CopyMoves(y)
    BY <1>0, <1>4, <2>1 DEF CopyMoves, SyncFails, TypeOK
  <2>. QED BY <2>2, CopyKeeps
<1>. QED BY <1>1, <1>2, <1>3, <1>4

-----------------------------------------------------------------------------
\* A node starts again.

LEMMA RestartKeeps ==
  ASSUME IInv, NEW n \in Node, Restart(n)
  PROVE  IInv'
<1>. USE DEF IInv
<1>1. /\ up[n] = "no"
      /\ up' = [up EXCEPT ![n] = "starting"]
      /\ lives' = [lives EXCEPT ![n] = @ + 1]
      /\ replayed' = [replayed EXCEPT ![n] = 0]
      /\ skipped' = [skipped EXCEPT ![n] = IF torn[n] = "yes" THEN @ ELSE "no"]
      /\ UNCHANGED <<role, knows, chunk, storage, walLog, torn, setRole, requests, before, spawned,
                     syncs, crashes, drops>>
  BY DEF Restart, disks, faults
<1>2. TypeOK'
  BY <1>1 DEF TypeOK
<1>3. Handled'
  <2>1. \A w \in Write : requests[w].at \in Node
    BY DEF TypeOK, Request
  <2>2. \A m \in Node : m # n => up'[m] = up[m] /\ lives'[m] = lives[m]
    BY <1>1 DEF TypeOK
  <2>3. \A w \in Write : requests[w].phase \in InHand \ {"forwarded"} => requests[w].at # n
    BY <1>1 DEF Handled
  <2>. QED BY <1>1, <2>1, <2>2, <2>3 DEF Handled
<1>4. Hops' /\ Replaces' /\ Copies'
  BY <1>1, SameHops, SameReplaces, SameCopies
<1>5. Roles'
  BY <1>1 DEF Roles
<1>6. Filed'
  <2>1. CASE n = Primary
    <3>1. up'[Primary] = "starting" /\ replayed'[Primary] = 0 /\ Len(walLog[Primary]) \in Nat
      BY <1>1, <2>1, PrimaryAssumption DEF TypeOK
    <3>2. Rewritten'
      BY <1>1, <3>1 DEF Rewritten
    <3>3. ASSUME torn[Primary] = "yes", skipped'[Primary] = "no"
          PROVE  Current'
      <4>1. skipped[Primary] = "no"
        BY <1>1, <2>1, <3>3, PrimaryAssumption DEF TypeOK
      <4>. QED BY <1>1, <3>3, <4>1 DEF Filed, Current
    <3>. QED BY <1>1, <3>1, <3>2, <3>3 DEF Filed
  <2>2. CASE n # Primary
    <3>1. /\ up'[Primary] = up[Primary] /\ replayed'[Primary] = replayed[Primary]
          /\ skipped'[Primary] = skipped[Primary]
      BY <1>1, <2>2, PrimaryAssumption DEF TypeOK
    <3>. QED BY <1>1, <3>1 DEF Filed, Current, Rewritten
  <2>. QED BY <2>1, <2>2
<1>7. Versions'
  <2>1. \A w \in Write : requests[w].life \in Nat
    BY DEF TypeOK, Request
  <2>2. CASE n = Primary
    <3>1. lives'[Primary] = lives[Primary] + 1 /\ lives[Primary] \in Nat /\ up'[Primary] = "starting"
      BY <1>1, <2>2 DEF TypeOK
    <3>. QED BY <1>1, <2>1, <3>1 DEF Versions, VersionsGrow
  <2>3. CASE n # Primary
    <3>1. up'[Primary] = up[Primary] /\ lives'[Primary] = lives[Primary]
      BY <1>1, <2>3, PrimaryAssumption DEF TypeOK
    <3>. QED BY <1>1, <3>1 DEF Versions, VersionsGrow
  <2>. QED BY <2>2, <2>3
<1>. QED BY <1>2, <1>3, <1>4, <1>5, <1>6, <1>7

\* What a replay goes through is the log of the primary.
LEMMA ReplayRecord ==
  ASSUME IInv, NEW n \in Node, Replaying(n)
  PROVE  /\ n = Primary /\ replayed[n] \in Nat
         /\ replayed[n] + 1 \in 1 .. Len(walLog[n])
         /\ walLog[n][replayed[n] + 1] \in Write
         /\ Backed(walLog[n][replayed[n] + 1])
<1>. USE DEF IInv
<1>1. replayed[n] \in Nat /\ Len(walLog[n]) \in Nat /\ replayed[n] < Len(walLog[n])
      /\ DOMAIN walLog[n] = 1 .. Len(walLog[n])
  BY DEF TypeOK, Replaying
<1>2. n = Primary
  BY <1>1 DEF Copies, Secondary
<1>3. replayed[n] + 1 \in DOMAIN walLog[n]
  BY <1>1
<1>4. walLog[n][replayed[n] + 1] \in Write
  BY <1>3, AreWrites
<1>. QED BY <1>1, <1>2, <1>3, <1>4 DEF Copies, Backed, InLog

\* A record is written again, to its end or not.
LEMMA ReplayKeeps ==
  ASSUME IInv, NEW n \in Node, Replay(n) \/ ReplayFails(n)
  PROVE  IInv'
<1>. USE DEF IInv
<1>. DEFINE r == replayed[n]
            w == walLog[n][r + 1]
<1>1. /\ Replaying(n)
      /\ replayed' = [replayed EXCEPT ![n] = r + 1]
      /\ UNCHANGED <<process, walLog, torn, setRole, requests, before, spawned, syncs, crashes>>
  BY DEF Replay, ReplayFails, faults
<1>2. /\ n = Primary /\ r \in Nat /\ r + 1 \in 1 .. Len(walLog[n])
      /\ w \in Write /\ Backed(w) /\ up[n] = "starting" /\ torn[n] = "no"
      /\ requests[w].size \in Nat
  BY <1>1, ReplayRecord DEF Replaying, TypeOK, Request
<1>3. PICK k \in Nat :
          /\ Overwrite(n, w, k)
          /\ \/ Replay(n) /\ k = requests[w].size /\ skipped' = skipped /\ drops' = drops
             \/ skipped' = [skipped EXCEPT ![n] = "yes"] /\ drops' = drops + 1
  <2>1. CASE Replay(n)
    BY <1>2, <2>1 DEF Replay, faults
  <2>2. CASE ReplayFails(n)
    <3>1. \A k \in 0 .. requests[w].size - 1 : k \in Nat
      BY <1>2
    <3>. QED BY <2>2, <3>1 DEF ReplayFails
  <2>. QED BY <2>1, <2>2
<1>4. chunk' = chunk \/ chunk' = [chunk EXCEPT ![n] = [version |-> 0, sum |-> w]]
  BY DEF Replay, ReplayFails
<1>5. \A m \in Node : m # n => chunk'[m] = chunk[m]
  BY <1>4 DEF TypeOK
<1>6. Overwritten(n, w, k)
  BY <1>2, <1>3, OverwriteFile
<1>7. TypeOK'
  <2>1. chunk' \in [Node -> [version : Nat, sum : 0 .. MaxWrites]]
    <3>1. w \in 0 .. MaxWrites
      BY <1>2, BoundsAssumption DEF Write
    <3>. DEFINE e == [version |-> 0, sum |-> w]
    <3>2. e \in [version : Nat, sum : 0 .. MaxWrites]
      BY <3>1
    <3>3. chunk' = chunk \/ chunk' = [chunk EXCEPT ![n] = e]
      BY <1>4
    <3>. HIDE DEF w, e
    <3>. QED BY <3>2, <3>3 DEF TypeOK
  <2>2. replayed' \in [Node -> Nat]
    BY <1>1, <1>2 DEF TypeOK
  <2>3. skipped' \in [Node -> {"yes", "no"}] /\ drops' \in Nat
    <3>1. drops \in Nat /\ skipped \in [Node -> {"yes", "no"}]
      BY DEF TypeOK
    <3>2. drops + 1 \in Nat
      BY <3>1
    <3>3. [skipped EXCEPT ![n] = "yes"] \in [Node -> {"yes", "no"}]
      BY <3>1
    <3>. QED BY <1>3, <3>1, <3>2, <3>3
  <2>4. storage' \in [Node -> [Block -> 0 .. MaxWrites]]
    BY <1>6 DEF Overwritten
  <2>. HIDE DEF w, r
  <2>. QED BY <1>1, <2>1, <2>2, <2>3, <2>4 DEF TypeOK, process
<1>8. Handled'
  <2>1. \A v \in Write : requests[v].at \in Node
    BY DEF TypeOK, Request
  <2>. QED BY <1>1, <1>2, <1>5, <2>1 DEF Handled, process
<1>9. Hops' /\ Replaces'
  BY <1>1, SameHops, SameReplaces DEF process
<1>10. Roles'
  BY <1>1, <1>2, <1>5 DEF Roles, process, Secondary
<1>11. Filed'
  <2>. SUFFICES ASSUME skipped'[Primary] = "no" PROVE Rewritten'
    BY <1>1, <1>2 DEF Filed, process
  <2>1. k = requests[w].size /\ skipped[Primary] = "no"
    BY <1>2, <1>3 DEF TypeOK
  <2>2. replayed'[Primary] = r + 1 /\ r = replayed[Primary] /\ Len(walLog[Primary]) \in Nat
    BY <1>1, <1>2 DEF TypeOK
  <2>3. Rewritten
    BY <1>2, <2>1 DEF Filed
  <2>4. ASSUME NEW j \in 1 .. r + 1, NEW b \in Block, b <= requests[walLog[Primary][j]].size
        PROVE  \E i \in j .. r + 1 : storage'[Primary][b] = walLog[Primary][i]
    <3>1. CASE b <= k
      <4>1. storage'[Primary][b] = walLog[Primary][r + 1]
        BY <1>2, <1>6, <3>1 DEF Overwritten
      <4>. QED BY <1>2, <4>1
    <3>2. CASE ~(b <= k)
      <4>1. j \in 1 .. r
        <5>1. j # r + 1
          BY <1>2, <2>1, <2>4, <3>2
        <5>. QED BY <1>2, <5>1
      <4>2. PICK i \in j .. r : storage[Primary][b] = walLog[Primary][i]
        BY <2>2, <2>3, <2>4, <4>1 DEF Rewritten
      <4>3. storage'[Primary][b] = storage[Primary][b]
        BY <1>2, <1>6, <3>2 DEF Overwritten
      <4>. QED BY <1>2, <4>2, <4>3
    <3>. QED BY <3>1, <3>2
  <2>5. replayed'[Primary] <= Len(walLog[Primary])
    BY <1>2, <2>2
  <2>. QED BY <1>1, <2>2, <2>4, <2>5 DEF Rewritten
<1>12. Copies'
  <2>1. Onward /\ Grows
    BY <1>1 DEF Onward, Grows
  <2>2. PICK x \in Write : x = w
    BY <1>2
  <2>3. Backed(x)'
    <3>1. Backed(x)
      BY <1>2, <2>2 DEF Backed, InLog
    <3>. QED BY <2>1, <3>1, StaysBacked
  <2>4. \A m \in Node, b \in Block : storage'[m][b] = storage[m][b] \/ storage'[m][b] = x
    BY <1>6, <2>2 DEF Overwritten
  <2>. HIDE DEF w
  <2>5. \A m \in Node, b \in Block, v \in Write : storage'[m][b] = v => Backed(v)'
    <3>1. \A v \in Write : v = x => Backed(v)'
      BY <2>3
    <3>. QED BY <2>1, <2>4, <3>1, FilesBacked
  <2>. QED BY <1>1, <2>5 DEF Copies
<1>13. Versions'
  BY <1>1, <1>2 DEF Versions, VersionsGrow, process
<1>. QED BY <1>7, <1>8, <1>9, <1>10, <1>11, <1>12, <1>13

LEMMA AcceptKeeps ==
  ASSUME IInv, NEW n \in Node, Accept(n)
  PROVE  IInv'
<1>. USE DEF IInv
<1>1. /\ up[n] = "starting" /\ ~Replaying(n)
      /\ up' = [up EXCEPT ![n] = "yes"]
      /\ UNCHANGED <<lives, role, knows, chunk, storage, walLog, torn, replayed, skipped, setRole,
                     requests, before, spawned, syncs, crashes, drops>>
  BY DEF Accept, disks, replays, faults
<1>2. TypeOK'
  BY <1>1 DEF TypeOK
<1>3. Handled'
  <2>1. \A w \in Write : requests[w].at \in Node
    BY DEF TypeOK, Request
  <2>2. \A m \in Node : up[m] = "yes" => up'[m] = "yes"
    BY <1>1 DEF TypeOK
  <2>. QED BY <1>1, <2>1, <2>2 DEF Handled
<1>4. Hops' /\ Replaces' /\ Copies'
  BY <1>1, SameHops, SameReplaces, SameCopies
<1>5. Roles'
  BY <1>1 DEF Roles
<1>6. Filed'
  <2>1. CASE n # Primary
    <3>1. up'[Primary] = up[Primary]
      BY <1>1, <2>1, PrimaryAssumption DEF TypeOK
    <3>. QED BY <1>1, <3>1 DEF Filed, Current, Rewritten
  <2>2. ASSUME n = Primary, skipped[Primary] = "no", torn[Primary] # "yes"
        PROVE  Current
    <3>. DEFINE l == walLog[Primary]
    <3>1. /\ torn[Primary] = "no" /\ replayed[Primary] \in Nat /\ Len(l) \in Nat
          /\ DOMAIN l = 1 .. Len(l)
      BY <2>2, PrimaryAssumption DEF TypeOK
    <3>2. Rewritten
      BY <1>1, <2>2, <3>1 DEF Filed
    <3>3. replayed[Primary] = Len(l)
      BY <1>1, <2>2, <3>1, <3>2 DEF Rewritten, Replaying
    <3>4. ASSUME NEW w \in Write, NEW b \in Block, requests[w].logged = "yes",
                 b <= requests[w].size
          PROVE  storage[Primary][b] \notin before[w]
      <4>1. PICK j \in 1 .. Len(l) :
                l[j] = w /\ \A i \in 1 .. Len(l) : i > j => l[i] \notin before[w]
        BY <3>1, <3>4 DEF Replaces, Follows
      <4>2. PICK i \in j .. Len(l) : storage[Primary][b] = l[i]
        BY <3>2, <3>3, <3>4, <4>1 DEF Rewritten
      <4>3. i = j \/ (i \in 1 .. Len(l) /\ i > j)
        BY <3>1
      <4>. QED BY <4>1, <4>2, <4>3 DEF Replaces
    <3>. QED BY <3>4 DEF Current
  <2>3. CASE n = Primary
    <3>1. skipped[Primary] = "no" => Current
      BY <2>2, <2>3 DEF Filed
    <3>2. up'[Primary] = "yes"
      BY <1>1, <2>3, PrimaryAssumption DEF TypeOK
    <3>. QED BY <1>1, <3>1, <3>2 DEF Filed, Current
  <2>. QED BY <2>1, <2>3
<1>7. Versions'
  <2>1. CASE n = Primary
    <3>1. \A w \in Write : requests[w].phase = "done" =>
              requests[w].life # lives[Primary]
      <4>1. \A w \in Write : requests[w].life \in Nat
        BY DEF TypeOK, Request
      <4>2. lives[Primary] \in Nat
        BY PrimaryAssumption DEF TypeOK
      <4>. QED BY <1>1, <2>1, <4>1, <4>2 DEF Versions
    <3>2. up'[Primary] = "yes"
      BY <1>1, <2>1, PrimaryAssumption DEF TypeOK
    <3>. QED BY <1>1, <3>1, <3>2 DEF Versions, VersionsGrow
  <2>2. CASE n # Primary
    <3>1. up'[Primary] = up[Primary]
      BY <1>1, <2>2, PrimaryAssumption DEF TypeOK
    <3>. QED BY <1>1, <3>1 DEF Versions, VersionsGrow
  <2>. QED BY <2>1, <2>2
<1>. QED BY <1>2, <1>3, <1>4, <1>5, <1>6, <1>7

-----------------------------------------------------------------------------
\* Steps of one request.

\* Nothing but the request w has changed, which is at work, and of it what has been
\* logged and how long it is stay; before the log it may be handed on, and from there
\* it stays at the primary, is stored or fails, whole or half-way.
Moves(w) ==
    /\ requests' \in [Write -> Request]
    /\ \A v \in Write : v # w => requests'[v] = requests[v]
    /\ requests[w].phase \in InHand
    /\ requests'[w].logged = requests[w].logged
    /\ requests'[w].version = requests[w].version
    /\ requests'[w].size = requests[w].size
    /\ requests'[w].phase \in (Early \ {"none"}) \cup {"record", "failed"}
    /\ requests[w].phase \notin Early =>
           requests'[w].phase \notin Early /\ requests'[w].at = requests[w].at
    /\ requests'[w].phase = "record" =>
           /\ requests[w].phase = "store"
           /\ \A b \in Block : b <= requests[w].size => storage'[Primary][b] = w
    /\ storage' \in [Node -> [Block -> 0 .. MaxWrites]]
    /\ \A n \in Node, b \in Block :
           \/ storage'[n][b] = storage[n][b]
           \/ n = Primary /\ requests[w].phase = "store" /\ storage'[n][b] = w

LEMMA MovesKeeps ==
  ASSUME IInv, NEW w \in Write, Moves(w),
         role' \in [Node -> {"PRIMARY", "SECONDARY"}],
         UNCHANGED <<up, lives, knows, chunk, walLog, torn, replays, setRole, before, spawned,
                     syncs, faults>>
  PROVE  TypeOK' /\ Replaces' /\ Filed' /\ Copies' /\ Versions'
<1>. USE DEF IInv
<1>1. TypeOK'
  BY DEF Moves, TypeOK, replays, faults
<1>2. requests[w].phase \notin Over \cup {"none"} /\ requests[w] \in Request
  BY DEF Moves, InHand, Over, TypeOK
<1>3. \A v \in Write : v # w => requests'[v] = requests[v]
  BY DEF Moves
<1>4. \A v \in Write : requests'[v].logged = requests[v].logged /\ requests'[v].size = requests[v].size
  BY DEF Moves
<1>5. \A v \in Write : w \notin before[v]
  BY <1>2 DEF Replaces
<1>6. Replaces'
  <2>1. \A v \in Write : requests[v].phase \in Over => requests'[v].phase \in Over
    BY <1>2, <1>3
  <2>2. before \in [Write -> SUBSET Write]
    BY DEF TypeOK
  <2>3. /\ requests'[w].phase \in Early => requests'[w].logged = "no"
        /\ requests'[w].phase \in {"store", "record", "done"} => requests'[w].logged # "no"
    BY <1>4 DEF Moves, Replaces, Early
  <2>4. \A v \in Write : Follows(v) => Follows(v)'
    BY DEF Follows
  <2>. QED BY <1>3, <1>4, <2>1, <2>2, <2>3, <2>4 DEF Replaces
<1>7. Filed'
  <2>1. ASSUME Current
        PROVE  Current'
    <3>. SUFFICES ASSUME NEW v \in Write, NEW b \in Block, requests'[v].logged = "yes",
                         requests'[v].phase \in {"record", "done"}, b <= requests'[v].size
                  PROVE  storage'[Primary][b] \notin before[v]
      BY DEF Current
    <3>1. storage'[Primary][b] = storage[Primary][b] \/ storage'[Primary][b] = w
      BY PrimaryAssumption DEF Moves
    <3>2. CASE v = w
      <4>1. storage'[Primary][b] = w
        BY <1>4, <3>2 DEF Moves, Early
      <4>. QED BY <1>5, <4>1
    <3>3. CASE v # w
      BY <1>3, <1>5, <2>1, <3>1, <3>3 DEF Current
    <3>. QED BY <3>2, <3>3
  <2>2. ASSUME up[Primary] = "starting", Rewritten
        PROVE  Rewritten'
    <3>1. requests[w].phase # "store"
      BY <2>2 DEF Handled, InHand
    <3>2. \A b \in Block : storage'[Primary][b] = storage[Primary][b]
      BY <3>1, PrimaryAssumption DEF Moves
    <3>3. \A j \in 1 .. replayed[Primary] : walLog[Primary][j] \in Write
      <4>1. replayed[Primary] \in Nat /\ Len(walLog[Primary]) \in Nat
            /\ DOMAIN walLog[Primary] = 1 .. Len(walLog[Primary])
        BY PrimaryAssumption DEF TypeOK
      <4>2. \A j \in 1 .. replayed[Primary] : j \in DOMAIN walLog[Primary]
        BY <2>2, <4>1 DEF Rewritten
      <4>. QED BY <4>2, AreWrites, PrimaryAssumption
    <3>. QED BY <1>4, <2>2, <3>2, <3>3 DEF Rewritten, replays
  <2>. QED BY <2>1, <2>2 DEF Filed, replays
<1>8. Copies'
  <2>1. Onward /\ Grows
    <3>1. requests[w].phase \in Begun => requests'[w].phase \in Begun /\ requests'[w].at = requests[w].at
      BY DEF Moves, Begun, Early
    <3>. QED BY <1>3, <1>4, <3>1 DEF Onward, Grows
  <2>2. requests[w].phase = "store" => Backed(w)'
    <3>. SUFFICES ASSUME requests[w].phase = "store" PROVE Backed(w)'
      OBVIOUS
    <3>1. requests[w].at = Primary /\ requests[w].logged \in {"yes", "failed"}
      BY <1>2 DEF Handled, Replaces, Request
    <3>2. Backed(w)
      BY <3>1 DEF Backed, Begun, InLog, Replaces, Follows
    <3>. QED BY <2>1, <3>2, StaysBacked
  <2>3. \A n \in Node, b \in Block, v \in Write : storage'[n][b] = v => storage[n][b] = v \/ Backed(v)'
    <3>1. \A v \in Write : v = w /\ requests[w].phase = "store" => Backed(v)'
      BY <2>2
    <3>. QED BY <3>1 DEF Moves
  <2>4. \A n \in Node, b \in Block, v \in Write : storage'[n][b] = v => Backed(v)'
    BY <2>1, <2>3, FilesBacked
  <2>5. \A v \in Write : requests[v].phase = "done" => requests'[v].phase = "done"
    BY <1>2, <1>3 DEF Over
  <2>. QED BY <2>1, <2>4, <2>5, AreWrites, PrimaryAssumption DEF Copies, Onward
<1>9. Versions'
  <2>1. \A v \in Write : requests'[v].phase = "done" => requests'[v] = requests[v]
    BY <1>3 DEF Moves, Early
  <2>. QED BY <2>1 DEF Versions, VersionsGrow
<1>. QED BY <1>1, <1>6, <1>7, <1>8, <1>9

\* The request w goes on to another phase.
LEMMA BecomesMoves ==
  ASSUME TypeOK, NEW w \in Write, NEW p \in Phase, Becomes(w, p)
  PROVE  /\ requests' \in [Write -> Request]
         /\ \A v \in Write : v # w => requests'[v] = requests[v]
         /\ requests'[w].phase = p
         /\ requests'[w].at = requests[w].at /\ requests'[w].hops = requests[w].hops
         /\ requests'[w].seen = requests[w].seen /\ requests'[w].life = requests[w].life
         /\ requests'[w].logged = requests[w].logged /\ requests'[w].size = requests[w].size
         /\ requests'[w].version = requests[w].version
<1>. DEFINE r == [requests[w] EXCEPT !.phase = p]
<1>1. requests[w] \in Request
  BY DEF TypeOK
<1>2. /\ r \in Request /\ r.phase = p /\ r.at = requests[w].at /\ r.hops = requests[w].hops
      /\ r.seen = requests[w].seen /\ r.life = requests[w].life /\ r.size = requests[w].size
      /\ r.logged = requests[w].logged /\ r.version = requests[w].version
  BY <1>1 DEF Request
<1>3. requests' = [requests EXCEPT ![w] = r]
  BY DEF Becomes
<1>. HIDE DEF r
<1>. QED BY <1>2, <1>3 DEF TypeOK

\* What a handler does before the log, in place.
LEMMA BecomesKeeps ==
  ASSUME IInv, NEW w \in Write, NEW p \in Phase, Becomes(w, p), requests[w].phase \in Early \ {"none"},
         \/ p = "failed"
         \/ requests[w].phase = "arrived" /\ p = "log" /\ requests[w].at = Primary
         \/ /\ requests[w].phase = "arrived" /\ p = "proxy"
            /\ requests[w].seen # "PRIMARY"
         \/ requests[w].phase = "proxy" /\ p = "list"
         \/ requests[w].phase = "list" /\ p = "dial" /\ knows[requests[w].at] = "yes",
         role' \in [Node -> {"PRIMARY", "SECONDARY"}],
         UNCHANGED <<up, lives, knows, chunk, disks, replays, setRole, before, spawned, syncs, faults>>
  PROVE  TypeOK' /\ Handled' /\ Hops' /\ Replaces' /\ Filed' /\ Copies' /\ Versions'
<1>. USE DEF IInv
<1>1. /\ requests' \in [Write -> Request]
      /\ \A v \in Write : v # w => requests'[v] = requests[v]
      /\ requests'[w].phase = p
      /\ requests'[w].at = requests[w].at /\ requests'[w].hops = requests[w].hops
      /\ requests'[w].seen = requests[w].seen /\ requests'[w].life = requests[w].life
      /\ requests'[w].logged = requests[w].logged /\ requests'[w].size = requests[w].size
      /\ requests'[w].version = requests[w].version
  BY BecomesMoves
<1>2. p \in {"failed", "log", "proxy", "list", "dial"}
  OBVIOUS
<1>3. Moves(w)
  BY <1>1, <1>2 DEF Moves, TypeOK, Early, InHand, disks
<1>4. TypeOK' /\ Replaces' /\ Filed' /\ Copies' /\ Versions'
  BY <1>3, MovesKeeps DEF disks
<1>5. Handled'
  <2>1. \A v \in Write : v # w =>
            /\ requests'[v] = requests[v]
    BY <1>1
  <2>. QED BY <1>1, <1>2, <2>1 DEF Handled, InHand, Early
<1>6. Hops'
  <2>1. requests[w].seen \in {"PRIMARY", "SECONDARY"}
    BY DEF TypeOK, Request
  <2>. QED BY <1>1, <1>2, <2>1 DEF Hops
<1>. QED BY <1>4, <1>5, <1>6

LEMMA ArriveKeeps ==
  ASSUME IInv, NEW w \in Write, NEW n \in Node, NEW k \in Block, Arrive(w, n, k)
  PROVE  IInv'
<1>. USE DEF IInv
<1>. DEFINE r == [requests[w] EXCEPT !.phase = "arrived", !.at = n, !.seen = role[n],
                                     !.life = lives[n], !.size = k]
<1>1. /\ requests[w].phase = "none" /\ up[n] = "yes"
      /\ n = Primary \/ chunk[n] # NoChunk
      /\ requests' = [requests EXCEPT ![w] = r]
      /\ before' = [before EXCEPT ![w] = {v \in Write : requests[v].phase \in Over}]
      /\ UNCHANGED <<process, replays, chunk, disks, setRole, spawned, syncs, faults>>
  BY DEF Arrive, Write
<1>2. /\ r \in Request /\ r.phase = "arrived" /\ r.at = n /\ r.seen = role[n] /\ r.life = lives[n]
      /\ r.hops = 0 /\ r.logged = "no"
  <2>1. requests[w] \in Request /\ requests[w].hops = 0 /\ requests[w].logged = "no"
    BY <1>1 DEF TypeOK, Hops, Replaces, Early
  <2>2. role[n] \in {"PRIMARY", "SECONDARY"} /\ lives[n] \in Nat /\ k \in Nat
    BY BoundsAssumption DEF TypeOK, Block
  <2>. QED BY <2>1, <2>2 DEF Request, Phase
<1>. HIDE DEF r
<1>3. /\ requests' \in [Write -> Request] /\ requests'[w] = r
      /\ \A v \in Write : v # w => requests'[v] = requests[v]
  BY <1>1, <1>2 DEF TypeOK
<1>4. /\ before' \in [Write -> SUBSET Write]
      /\ before'[w] = {v \in Write : requests[v].phase \in Over}
      /\ \A v \in Write : v # w => before'[v] = before[v]
  BY <1>1 DEF TypeOK
<1>5. TypeOK'
  BY <1>1, <1>3, <1>4 DEF TypeOK, process, disks, replays, faults
<1>6. Handled'
  <2>1. role[n] = "PRIMARY" => n = Primary
    BY DEF Roles, Secondary
  <2>. QED BY <1>1, <1>2, <1>3, <2>1 DEF Handled, process, InHand
<1>7. Hops'
  <2>1. n # Primary => setRole[Primary] = "gone"
    BY <1>1 DEF Roles, Secondary
  <2>. QED BY <1>1, <1>2, <1>3, <2>1 DEF Hops, process
<1>8. Roles'
  BY <1>1 DEF Roles, process
<1>9. Replaces'
  <2>1. \A v \in Write : requests[v].phase \in Over => requests'[v].phase \in Over
    BY <1>1, <1>3 DEF Over
  <2>2. w \notin before'[w]
    BY <1>1, <1>4 DEF Over
  <2>3. \A v \in Write : v # w /\ Follows(v) => Follows(v)'
    BY <1>1, <1>4 DEF Follows, disks
  <2>. QED BY <1>1, <1>2, <1>3, <1>4, <2>1, <2>2, <2>3 DEF Replaces
<1>10. \A v \in Write : requests[v].phase \in Begun => v # w /\ requests'[v] = requests[v]
  BY <1>1, <1>3 DEF Begun
<1>11. Filed'
  <2>1. Current => Current'
    BY <1>1, <1>2, <1>3, <1>4 DEF Current, disks
  <2>2. ASSUME Rewritten PROVE Rewritten'
    <3>1. replayed[Primary] \in Nat /\ Len(walLog[Primary]) \in Nat
          /\ DOMAIN walLog[Primary] = 1 .. Len(walLog[Primary])
      BY PrimaryAssumption DEF TypeOK
    <3>2. \A j \in 1 .. replayed[Primary] : j \in DOMAIN walLog[Primary]
      BY <2>2, <3>1 DEF Rewritten
    <3>3. \A j \in 1 .. replayed[Primary] :
              requests'[walLog[Primary][j]] = requests[walLog[Primary][j]]
      BY <1>10, <3>2, AreWrites, PrimaryAssumption DEF Copies
    <3>. QED BY <1>1, <2>2, <3>3 DEF Rewritten, replays, disks
  <2>. QED BY <1>1, <2>1, <2>2 DEF Filed, replays, disks, process
<1>12. Copies'
  <2>1. Onward /\ Grows
    BY <1>1, <1>10 DEF Onward, Grows, disks
  <2>2. \A m \in Node, b \in Block, v \in Write : storage'[m][b] = v => Backed(v)'
    <3>1. UNCHANGED storage
      BY <1>1 DEF disks
    <3>. QED BY <2>1, <3>1, FilesBacked
  <2>3. \A v \in Write : requests[v].phase = "done" => requests'[v].phase = "done"
    BY <1>10 DEF Begun
  <2>. QED BY <1>1, <1>10, <2>2, <2>3, AreWrites, PrimaryAssumption DEF Copies, disks
<1>13. Versions'
  <2>1. \A v \in Write : requests'[v].phase = "done" =>
            v # w /\ requests'[v] = requests[v] /\ before'[v] = before[v]
    BY <1>2, <1>3, <1>4
  <2>2. VersionsGrow'
    BY <2>1 DEF Versions, VersionsGrow
  <2>. QED BY <1>1, <2>1, <2>2 DEF Versions, process
<1>. QED BY <1>5, <1>6, <1>7, <1>8, <1>9, <1>11, <1>12, <1>13

LEMMA DecideKeeps ==
  ASSUME IInv, NEW w \in Write, Decide(w)
  PROVE  IInv'
<1>. USE DEF IInv
<1>. DEFINE n == requests[w].at
<1>1. /\ requests[w].phase = "arrived" /\ requests[w] \in Request /\ n \in Node
      /\ UNCHANGED <<up, lives, knows, chunk, disks, replays, setRole, before, spawned, syncs,
                     faults>>
  BY DEF Decide, InPhase, TypeOK, Request
<1>2. /\ chunk[n] = NoChunk => n = Primary
      /\ requests[w].seen = "PRIMARY" => n = Primary
  BY <1>1 DEF Handled
<1>3. /\ role' \in [Node -> {"PRIMARY", "SECONDARY"}]
      /\ role' = role \/ (chunk[n] = NoChunk /\ role' = [role EXCEPT ![n] = "PRIMARY"])
  BY DEF Decide, TypeOK
<1>4. PICK p \in {"log", "proxy"} :
          /\ Becomes(w, p)
          /\ p = "log" => n = Primary
          /\ p = "proxy" => requests[w].seen # "PRIMARY"
  BY <1>2 DEF Decide
<1>5. TypeOK' /\ Handled' /\ Hops' /\ Replaces' /\ Filed' /\ Copies' /\ Versions'
  BY <1>1, <1>3, <1>4, BecomesKeeps DEF Phase, Early
<1>6. Roles'
  BY <1>1, <1>2, <1>3, PrimaryAssumption DEF Roles, TypeOK, Secondary
<1>. QED BY <1>5, <1>6

LEMMA ProxyKeeps ==
  ASSUME IInv, NEW w \in Write, Proxy(w) \/ FindPrimary(w) \/ (Dial(w) /\ Becomes(w, "failed"))
  PROVE  IInv'
<1>. USE DEF IInv
<1>1. UNCHANGED <<process, replays, chunk, disks, setRole, before, spawned, syncs, faults>>
  BY DEF Proxy, FindPrimary, Dial
<1>2. PICK p \in Phase :
          /\ Becomes(w, p)
          /\ requests[w].phase \in Early \ {"none"}
          /\ \/ p = "failed"
             \/ requests[w].phase = "proxy" /\ p = "list"
             \/ requests[w].phase = "list" /\ p = "dial" /\ knows[requests[w].at] = "yes"
  BY DEF Proxy, FindPrimary, Dial, InPhase, Phase, Early
<1>3. role' \in [Node -> {"PRIMARY", "SECONDARY"}] /\ UNCHANGED <<up, lives, knows>>
  BY <1>1 DEF TypeOK, process
<1>4. TypeOK' /\ Handled' /\ Hops' /\ Replaces' /\ Filed' /\ Copies' /\ Versions'
  BY <1>1, <1>2, <1>3, BecomesKeeps
<1>5. Roles'
  BY <1>1 DEF Roles, process
<1>. QED BY <1>4, <1>5

LEMMA DialKeeps ==
  ASSUME IInv, NEW w \in Write, Dial(w)
  PROVE  IInv'
<1>. USE DEF IInv
<1>. DEFINE r == [requests[w] EXCEPT !.phase = "forwarded", !.at = Primary, !.hops = 1]
<1>1. /\ requests[w].phase = "dial" /\ requests[w] \in Request
      /\ UNCHANGED <<process, chunk, disks, replays, setRole, before, spawned, syncs, faults>>
  BY DEF Dial, InPhase, TypeOK
<1>2. CASE Becomes(w, "failed")
  BY <1>2, ProxyKeeps
<1>3. CASE ~Becomes(w, "failed")
  <2>1. requests[w].hops = 0
    BY <1>1 DEF Hops
  <2>2. setRole[Primary] = "gone"
    BY <1>1 DEF Handled, Hops, Roles
  <2>3. requests' = [requests EXCEPT ![w] = r]
    <3>1. requests' = [requests EXCEPT ![w] =
              [@ EXCEPT !.phase = "forwarded", !.at = Primary, !.hops = requests[w].hops + 1]]
      BY <1>3 DEF Dial, Forwarded
    <3>. QED BY <2>1, <3>1
  <2>4. /\ r \in Request /\ r.phase = "forwarded" /\ r.at = Primary /\ r.hops = 1
        /\ r.seen = requests[w].seen /\ r.logged = requests[w].logged
        /\ r.version = requests[w].version /\ r.size = requests[w].size
    BY <1>1, PrimaryAssumption DEF Request, Phase
  <2>. HIDE DEF r
  <2>5. /\ requests' \in [Write -> Request] /\ requests'[w] = r
        /\ \A v \in Write : v # w => requests'[v] = requests[v]
    BY <2>3, <2>4 DEF TypeOK
  <2>6. Moves(w)
    BY <1>1, <2>4, <2>5 DEF Moves, TypeOK, Early, InHand, disks
  <2>7. role' \in [Node -> {"PRIMARY", "SECONDARY"}] /\ UNCHANGED <<up, lives, knows>>
    BY <1>1 DEF TypeOK, process
  <2>8. TypeOK' /\ Replaces' /\ Filed' /\ Copies' /\ Versions'
    BY <1>1, <2>6, <2>7, MovesKeeps DEF disks
  <2>9. Handled'
    BY <1>1, <2>4, <2>5, <2>7 DEF Handled, InHand
  <2>10. Hops'
    BY <1>1, <2>2, <2>4, <2>5, <2>7 DEF Hops
  <2>11. Roles'
    BY <1>1 DEF Roles, process
  <2>. QED BY <2>8, <2>9, <2>10, <2>11
<1>. QED BY <1>2, <1>3

LEMMA TakeForwardedKeeps ==
  ASSUME IInv, NEW w \in Write, TakeForwarded(w)
  PROVE  IInv'
<1>. USE DEF IInv
<1>. DEFINE r == [requests[w] EXCEPT !.phase = "arrived", !.seen = role[Primary],
                                     !.life = lives[Primary]]
<1>1. /\ requests[w].phase = "forwarded" /\ requests[w] \in Request
      /\ requests[w].at = Primary /\ up[Primary] = "yes"
      /\ requests' = [requests EXCEPT ![w] = r]
      /\ UNCHANGED <<process, chunk, disks, replays, setRole, before, spawned, syncs, faults>>
  BY DEF TakeForwarded, InPhase, TypeOK, Handled
<1>2. role[Primary] \in {"PRIMARY", "SECONDARY"} /\ lives[Primary] \in Nat
  BY PrimaryAssumption DEF TypeOK
<1>3. /\ r \in Request /\ r.phase = "arrived" /\ r.at = Primary /\ r.hops = requests[w].hops
      /\ r.seen = role[Primary] /\ r.life = lives[Primary] /\ r.logged = requests[w].logged
      /\ r.version = requests[w].version /\ r.size = requests[w].size
  BY <1>1, <1>2 DEF Request, Phase
<1>. HIDE DEF r
<1>4. /\ requests' \in [Write -> Request] /\ requests'[w] = r
      /\ \A v \in Write : v # w => requests'[v] = requests[v]
  BY <1>1, <1>3 DEF TypeOK
<1>5. Moves(w)
  BY <1>1, <1>3, <1>4 DEF Moves, TypeOK, Early, InHand, disks
<1>6. role' \in [Node -> {"PRIMARY", "SECONDARY"}] /\ UNCHANGED <<up, lives, knows, role>>
  BY <1>1 DEF TypeOK, process
<1>7. TypeOK' /\ Replaces' /\ Filed' /\ Copies' /\ Versions'
  BY <1>1, <1>5, <1>6, MovesKeeps DEF disks
<1>8. Handled'
  BY <1>1, <1>3, <1>4, <1>6 DEF Handled, InHand
<1>9. Hops'
  <2>1. role[Primary] = "SECONDARY" => knows[Primary] = "no"
    BY PrimaryAssumption DEF Roles, TypeOK
  <2>. QED BY <1>1, <1>3, <1>4, <1>6, <2>1 DEF Hops
<1>10. Roles'
  BY <1>1 DEF Roles, process
<1>. QED BY <1>7, <1>8, <1>9, <1>10

\* The request at work is the primary's.
LEMMA AtPrimary ==
  ASSUME IInv, NEW w \in Write, requests[w].phase \in {"log", "store", "record"}
  PROVE  /\ requests[w].at = Primary /\ requests[w] \in Request
         /\ up[Primary] = "yes" /\ requests[w].life = lives[Primary]
         /\ requests[w].phase = "log" => requests[w].logged = "no"
         /\ requests[w].phase # "log" => requests[w].logged \in {"yes", "failed"}
BY DEF IInv, Handled, Replaces, TypeOK, Request, InHand, Early

LEMMA StoreKeeps ==
  ASSUME IInv, NEW w \in Write, StoreChunk(w) \/ StoreFails(w)
  PROVE  IInv'
<1>. USE DEF IInv
<1>1. /\ requests[w].phase = "store" /\ requests[w].at = Primary /\ requests[w] \in Request
      /\ requests[w].size \in Nat
  BY AtPrimary DEF StoreChunk, StoreFails, InPhase, Request
<1>2. UNCHANGED <<process, chunk, walLog, torn, replays, setRole, before, spawned, syncs, faults>>
  BY DEF StoreChunk, StoreFails
<1>3. PICK p \in {"record", "failed"}, k \in Nat :
          /\ Becomes(w, p) /\ Overwrite(Primary, w, k)
          /\ p = "record" => k = requests[w].size
  <2>1. CASE StoreChunk(w)
    BY <1>1, <2>1 DEF StoreChunk
  <2>2. CASE StoreFails(w)
    <3>1. \A k \in 0 .. requests[w].size - 1 : k \in Nat
      BY <1>1
    <3>. QED BY <1>1, <2>2, <3>1 DEF StoreFails
  <2>. QED BY <2>1, <2>2
<1>4. Overwritten(Primary, w, k)
  BY <1>3, OverwriteFile, PrimaryAssumption
<1>5. /\ requests' \in [Write -> Request]
      /\ \A v \in Write : v # w => requests'[v] = requests[v]
      /\ requests'[w].phase = p
      /\ requests'[w].at = requests[w].at /\ requests'[w].hops = requests[w].hops
      /\ requests'[w].seen = requests[w].seen /\ requests'[w].life = requests[w].life
      /\ requests'[w].logged = requests[w].logged /\ requests'[w].size = requests[w].size
      /\ requests'[w].version = requests[w].version
  BY <1>3, BecomesMoves DEF Phase
<1>6. Moves(w)
  <2>1. \A n \in Node, b \in Block :
           \/ storage'[n][b] = storage[n][b]
           \/ n = Primary /\ storage'[n][b] = w
    BY <1>4 DEF Overwritten
  <2>2. p = "record" => \A b \in Block : b <= requests[w].size => storage'[Primary][b] = w
    BY <1>3, <1>4 DEF Overwritten
  <2>3. storage' \in [Node -> [Block -> 0 .. MaxWrites]]
    BY <1>4 DEF Overwritten
  <2>. QED BY <1>1, <1>5, <2>1, <2>2, <2>3 DEF Moves, Early, InHand
<1>7. role' \in [Node -> {"PRIMARY", "SECONDARY"}] /\ UNCHANGED <<up, lives, knows>>
  BY <1>2 DEF TypeOK, process
<1>8. TypeOK' /\ Replaces' /\ Filed' /\ Copies' /\ Versions'
  BY <1>2, <1>6, <1>7, MovesKeeps
<1>9. Handled'
  BY <1>1, <1>2, <1>5, <1>7 DEF Handled, InHand
<1>10. Hops'
  BY <1>1, <1>2, <1>5, <1>7 DEF Hops
<1>11. Roles'
  BY <1>2 DEF Roles, process
<1>. QED BY <1>8, <1>9, <1>10, <1>11

\* The primary's log with one more record.
LEMMA LogGrows ==
  ASSUME TypeOK, NEW w \in Write, walLog' = [walLog EXCEPT ![Primary] = Append(@, w)]
  PROVE  /\ walLog' \in [Node -> Seq(Write)]
         /\ \A n \in Secondary : walLog'[n] = walLog[n]
         /\ Len(walLog[Primary]) \in Nat
         /\ DOMAIN walLog[Primary] = 1 .. Len(walLog[Primary])
         /\ DOMAIN walLog'[Primary] = 1 .. Len(walLog[Primary]) + 1
         /\ Len(walLog'[Primary]) = Len(walLog[Primary]) + 1
         /\ \A i \in DOMAIN walLog[Primary] : walLog'[Primary][i] = walLog[Primary][i]
         /\ walLog'[Primary][Len(walLog[Primary]) + 1] = w
BY PrimaryAssumption DEF TypeOK, Secondary

\* An append of a write that is not over keeps the order of the log.
LEMMA LogKeepsOrder ==
  ASSUME IInv, NEW w \in Write, requests[w].phase = "log", UNCHANGED before,
         walLog' = [walLog EXCEPT ![Primary] = Append(@, w)]
  PROVE  /\ Grows /\ Follows(w)'
         /\ \A v \in Write : Follows(v) => Follows(v)'
<1>. USE DEF IInv
<1>. DEFINE k == Len(walLog[Primary])
<1>1. /\ k \in Nat
      /\ DOMAIN walLog[Primary] = 1 .. k /\ DOMAIN walLog'[Primary] = 1 .. k + 1
      /\ \A i \in DOMAIN walLog[Primary] : walLog'[Primary][i] = walLog[Primary][i]
      /\ walLog'[Primary][k + 1] = w
  BY LogGrows
<1>. HIDE DEF k
<1>2. Grows
  BY <1>1 DEF Grows
<1>3. Follows(w)'
  <2>1. \A i \in 1 .. k + 1 : ~(i > k + 1)
    BY <1>1
  <2>2. k + 1 \in 1 .. k + 1
    BY <1>1
  <2>. QED BY <1>1, <2>1, <2>2 DEF Follows
<1>4. ASSUME NEW v \in Write, Follows(v)
      PROVE  Follows(v)'
  <2>1. PICK j \in 1 .. k :
            walLog[Primary][j] = v
              /\ \A i \in 1 .. k : i > j => walLog[Primary][i] \notin before[v]
    BY <1>1, <1>4 DEF Follows
  <2>2. w \notin before[v]
    BY DEF Replaces, Over
  <2>3. j \in 1 .. k + 1 /\ walLog'[Primary][j] = v
    BY <1>1, <2>1
  <2>4. ASSUME NEW i \in 1 .. k + 1, i > j
        PROVE  walLog'[Primary][i] \notin before[v]
    <3>1. CASE i \in 1 .. k
      BY <1>1, <2>1, <2>4, <3>1
    <3>2. CASE i = k + 1
      BY <1>1, <2>2, <3>2
    <3>. QED BY <1>1, <3>1, <3>2
  <2>. QED BY <1>1, <2>3, <2>4 DEF Follows
<1>. QED BY <1>2, <1>3, <1>4

\* What is in the log after an append got past the log.
LEMMA LoggedCopies ==
  ASSUME IInv, NEW w \in Write, requests'[w].at = Primary, requests'[w].phase \in Begun, Onward,
         walLog' = walLog \/ walLog' = [walLog EXCEPT ![Primary] = Append(@, w)]
  PROVE  /\ \A n \in Secondary : walLog'[n] = <<>>
         /\ \A i \in DOMAIN walLog'[Primary] :
                LET r == requests'[walLog'[Primary][i]]
                IN  r.at = Primary /\ r.phase \in Begun
<1>. USE DEF IInv
<1>1. \A i \in DOMAIN walLog[Primary] :
          /\ walLog[Primary][i] \in Write
          /\ requests'[walLog[Primary][i]].at = Primary
          /\ requests'[walLog[Primary][i]].phase \in Begun
  BY AreWrites, PrimaryAssumption DEF Copies, Onward
<1>2. CASE walLog' = walLog
  BY <1>1, <1>2 DEF Copies
<1>3. CASE walLog' = [walLog EXCEPT ![Primary] = Append(@, w)]
  <2>. DEFINE k == Len(walLog[Primary])
  <2>1. /\ k \in Nat
        /\ \A n \in Secondary : walLog'[n] = walLog[n]
        /\ DOMAIN walLog[Primary] = 1 .. k /\ DOMAIN walLog'[Primary] = 1 .. k + 1
        /\ \A i \in DOMAIN walLog[Primary] : walLog'[Primary][i] = walLog[Primary][i]
        /\ walLog'[Primary][k + 1] = w
    BY <1>3, LogGrows
  <2>. HIDE DEF k
  <2>2. \A i \in DOMAIN walLog'[Primary] : i \in DOMAIN walLog[Primary] \/ i = k + 1
    BY <2>1
  <2>. QED BY <1>1, <2>1, <2>2 DEF Copies
<1>. QED BY <1>2, <1>3

LEMMA LogAppendKeeps ==
  ASSUME IInv, NEW w \in Write, LogAppend(w) \/ LogAppendFails(w)
  PROVE  IInv'
<1>. USE DEF IInv
<1>1. /\ requests[w].phase = "log" /\ requests[w].at = Primary /\ requests[w] \in Request
      /\ up[Primary] = "yes" /\ requests[w].life = lives[Primary]
  BY AtPrimary DEF LogAppend, LogAppendFails, InPhase
<1>2. PICK l \in {"yes", "failed"} :
          /\ requests' = [requests EXCEPT ![w].phase = "store", ![w].logged = l]
          /\ \/ walLog' = walLog /\ l = "failed"
             \/ walLog' = [walLog EXCEPT ![Primary] = Append(@, w)]
  BY <1>1 DEF LogAppend, LogAppendFails
<1>3. /\ torn' \in [Node -> {"yes", "no"}]
      /\ UNCHANGED <<process, chunk, storage, replays, setRole, before, spawned, syncs, faults>>
  BY DEF LogAppend, LogAppendFails, TypeOK
<1>. DEFINE r == [requests[w] EXCEPT !.phase = "store", !.logged = l]
<1>4. /\ r \in Request /\ r.phase = "store" /\ r.logged = l /\ r.at = Primary
      /\ r.hops = requests[w].hops /\ r.seen = requests[w].seen /\ r.life = requests[w].life
      /\ r.size = requests[w].size
  BY <1>1 DEF Request, Phase
<1>5. requests' = [requests EXCEPT ![w] = r]
  BY <1>2
<1>. HIDE DEF r
<1>6. /\ requests' \in [Write -> Request] /\ requests'[w] = r
      /\ \A v \in Write : v # w => requests'[v] = requests[v]
  BY <1>4, <1>5 DEF TypeOK
<1>7. /\ walLog' \in [Node -> Seq(Write)] /\ Grows
      /\ \A v \in Write : Follows(v) => Follows(v)'
      /\ l = "yes" => Follows(w)'
  <2>1. UNCHANGED before
    BY <1>3
  <2>2. CASE walLog' = walLog /\ l = "failed"
    BY <2>1, <2>2 DEF TypeOK, Grows, Follows
  <2>3. CASE walLog' = [walLog EXCEPT ![Primary] = Append(@, w)]
    BY <1>1, <2>1, <2>3, LogGrows, LogKeepsOrder
  <2>. QED BY <1>2, <2>2, <2>3
<1>8. TypeOK'
  BY <1>3, <1>6, <1>7 DEF TypeOK, process, replays, faults
<1>9. Handled'
  BY <1>1, <1>3, <1>4, <1>6 DEF Handled, process, InHand
<1>10. Hops'
  BY <1>1, <1>3, <1>4, <1>6 DEF Hops, process
<1>11. Roles'
  BY <1>3 DEF Roles, process
<1>12. Replaces'
  <2>1. \A v \in Write : requests[v].phase \in Over => requests'[v].phase \in Over
    BY <1>1, <1>6 DEF Over
  <2>2. before \in [Write -> SUBSET Write]
    BY DEF TypeOK
  <2>. QED BY <1>3, <1>4, <1>6, <1>7, <2>1, <2>2 DEF Replaces, Early
<1>13. Filed'
  <2>1. Current => Current'
    BY <1>3, <1>4, <1>6 DEF Current
  <2>. QED BY <1>1, <1>3, <2>1 DEF Filed, process, replays
<1>14. Copies'
  <2>1. \A v \in Write : requests[v].phase \in Begun => requests'[v] = requests[v]
    BY <1>1, <1>6 DEF Begun
  <2>2. Onward
    BY <2>1 DEF Onward
  <2>3. requests'[w].at = Primary /\ requests'[w].phase \in Begun
    BY <1>4, <1>6 DEF Begun
  <2>4. /\ \A n \in Secondary : walLog'[n] = <<>>
        /\ \A i \in DOMAIN walLog'[Primary] :
               LET q == requests'[walLog'[Primary][i]]
               IN  q.at = Primary /\ q.phase \in Begun
    BY <1>2, <2>2, <2>3, LoggedCopies
  <2>5. \A n \in Node, b \in Block, v \in Write : storage'[n][b] = v => Backed(v)'
    BY <1>3, <1>7, <2>2, FilesBacked
  <2>6. \A v \in Write : requests[v].phase = "done" => requests'[v].phase = "done"
    BY <2>1 DEF Begun
  <2>. QED BY <1>3, <2>4, <2>5, <2>6, AreWrites DEF Copies
<1>15. Versions'
  <2>1. \A v \in Write : requests'[v].phase = "done" => requests'[v] = requests[v]
    BY <1>4, <1>6
  <2>2. VersionsGrow'
    BY <1>3, <2>1 DEF Versions, VersionsGrow
  <2>. QED BY <1>3, <2>1, <2>2 DEF Versions, process
<1>. QED BY <1>8, <1>9, <1>10, <1>11, <1>12, <1>13, <1>14, <1>15

LEMMA RecordKeeps ==
  ASSUME IInv, NEW w \in Write, Record(w)
  PROVE  IInv'
<1>. USE DEF IInv
<1>. DEFINE x == (IF chunk[Primary] = NoChunk THEN 1 ELSE chunk[Primary].version) + 1
            r == [requests[w] EXCEPT !.phase = "done", !.version = x]
<1>1. /\ requests[w].phase = "record" /\ requests[w].at = Primary /\ requests[w] \in Request
      /\ up[Primary] = "yes" /\ requests[w].life = lives[Primary]
      /\ requests[w].logged \in {"yes", "failed"}
  BY AtPrimary DEF Record, InPhase
<1>2. /\ requests' = [requests EXCEPT ![w] = r]
      /\ chunk' = [chunk EXCEPT ![Primary] = [version |-> x, sum |-> w]]
      /\ spawned' = spawned \cup {w}
      /\ UNCHANGED <<process, disks, replays, setRole, before, syncs, faults>>
  BY <1>1 DEF Record, NextVersion
<1>3. /\ x \in Nat /\ x > 0 /\ x > chunk[Primary].version /\ chunk[Primary].version \in Nat
  <2>1. chunk[Primary] \in [version : Nat, sum : 0 .. MaxWrites]
    BY PrimaryAssumption DEF TypeOK
  <2>2. chunk[Primary].version \in Nat
    BY <2>1
  <2>3. chunk[Primary] = NoChunk => chunk[Primary].version = 0
    BY DEF NoChunk
  <2>. QED BY <2>2, <2>3
<1>. HIDE DEF x
<1>4. /\ r \in Request /\ r.phase = "done" /\ r.version = x /\ r.at = Primary
      /\ r.logged = requests[w].logged /\ r.size = requests[w].size
      /\ r.hops = requests[w].hops /\ r.seen = requests[w].seen /\ r.life = requests[w].life
  BY <1>1, <1>3 DEF Request, Phase
<1>. HIDE DEF r
<1>5. /\ requests' \in [Write -> Request] /\ requests'[w] = r
      /\ \A v \in Write : v # w => requests'[v] = requests[v]
  BY <1>2, <1>4 DEF TypeOK
<1>6. /\ chunk' \in [Node -> [version : Nat, sum : 0 .. MaxWrites]]
      /\ chunk'[Primary] = [version |-> x, sum |-> w] /\ w # 0
      /\ \A n \in Node : n # Primary => chunk'[n] = chunk[n]
  BY <1>2, <1>3, PrimaryAssumption, BoundsAssumption DEF TypeOK, Write
<1>7. TypeOK'
  BY <1>2, <1>5, <1>6 DEF TypeOK, process, disks, replays, faults
<1>8. Handled'
  <2>1. \A v \in Write : requests[v].at \in Node
    BY DEF TypeOK, Request
  <2>. QED BY <1>1, <1>2, <1>4, <1>5, <1>6, <2>1 DEF Handled, process, InHand
<1>9. Hops'
  BY <1>1, <1>2, <1>4, <1>5 DEF Hops, process
<1>10. Roles'
  BY <1>2, <1>6 DEF Roles, process, Secondary
<1>11. Replaces'
  <2>1. \A v \in Write : requests[v].phase \in Over => requests'[v].phase \in Over
    BY <1>4, <1>5 DEF Over
  <2>2. \A v \in Write : Follows(v) => Follows(v)'
    BY <1>2 DEF Follows, disks
  <2>3. before \in [Write -> SUBSET Write]
    BY DEF TypeOK
  <2>. QED BY <1>1, <1>2, <1>4, <1>5, <2>1, <2>2, <2>3 DEF Replaces, Early
<1>12. Filed'
  <2>1. \A v \in Write : requests'[v].size = requests[v].size /\ requests'[v].logged = requests[v].logged
    BY <1>4, <1>5
  <2>2. \A v \in Write : requests'[v].phase \in {"record", "done"} => requests[v].phase \in {"record", "done"}
    BY <1>1, <1>5
  <2>3. Current => Current'
    BY <1>2, <2>1, <2>2 DEF Current, disks
  <2>. QED BY <1>1, <1>2, <2>3 DEF Filed, process, replays, disks
<1>13. Copies'
  <2>1. Onward /\ Grows
    <3>1. requests[w].phase \in Begun => requests'[w].phase \in Begun
      BY <1>4, <1>5 DEF Begun
    <3>2. \A v \in Write : requests'[v].at = requests[v].at /\ requests'[v].logged = requests[v].logged
      BY <1>1, <1>4, <1>5
    <3>. QED BY <1>2, <1>5, <3>1, <3>2 DEF Onward, Grows, disks
  <2>2. \A n \in Node, b \in Block, v \in Write : storage'[n][b] = v => Backed(v)'
    <3>1. UNCHANGED storage
      BY <1>2 DEF disks
    <3>. QED BY <2>1, <3>1, FilesBacked
  <2>3. \A v \in Write : requests[v].phase = "done" => requests'[v].phase = "done"
    BY <1>4, <1>5
  <2>4. requests'[w].phase = "done"
    BY <1>4, <1>5
  <2>5. \A i \in DOMAIN walLog[Primary] :
            LET q == requests'[walLog[Primary][i]]
            IN  q.at = Primary /\ q.phase \in Begun
    BY <2>1, AreWrites, PrimaryAssumption DEF Copies, Onward
  <2>6. UNCHANGED <<walLog, syncs>> /\ spawned' = spawned \cup {w}
    BY <1>2 DEF disks
  <2>. QED BY <2>2, <2>3, <2>4, <2>5, <2>6, AreWrites DEF Copies
<1>14. Versions'
  <2>1. \A v \in Write : requests[v].phase = "done" => v # w
    BY <1>1
  <2>2. \A v \in Write : v # w /\ requests[v].phase = "done" /\ requests[v].life = lives[Primary]
            => requests[v].version < x
    <3>1. \A v \in Write : requests[v].version \in Nat
      BY DEF TypeOK, Request
    <3>. QED BY <1>1, <1>3, <2>1, <3>1 DEF Versions
  <2>3. \A v \in Write : w \notin before[v]
    BY <1>1 DEF Replaces, Over
  <2>4. chunk'[Primary].version = x
    BY <1>6
  <2>5. lives[Primary] \in Nat
    BY PrimaryAssumption DEF TypeOK
  <2>6. VersionsGrow'
    <3>. SUFFICES ASSUME NEW u \in Write, NEW v \in Write, u # v,
                         requests'[u].phase = "done", requests'[v].phase = "done",
                         requests'[u].at = requests'[v].at, requests'[u].life = requests'[v].life
                  PROVE  /\ requests'[u].version # requests'[v].version
                         /\ u \in before[v] => requests'[u].version < requests'[v].version
      BY <1>2 DEF VersionsGrow
    <3>0. requests[u].version \in Nat /\ requests[v].version \in Nat
      BY DEF TypeOK, Request
    <3>1. CASE u = w
      BY <1>1, <1>3, <1>4, <1>5, <2>1, <2>2, <2>3, <3>0, <3>1
    <3>2. CASE v = w
      BY <1>1, <1>3, <1>4, <1>5, <2>1, <2>2, <3>0, <3>2
    <3>3. CASE u # w /\ v # w
      BY <1>5, <3>3 DEF Versions, VersionsGrow
    <3>. QED BY <3>1, <3>2, <3>3
  <2>7. ASSUME NEW v \in Write, requests'[v].phase = "done"
        PROVE  /\ requests'[v].version > 0
               /\ requests'[v].life <= lives[Primary]
               /\ requests'[v].life = lives[Primary] =>
                      requests'[v].version <= chunk'[Primary].version
    <3>0. requests[v].version \in Nat
      BY DEF TypeOK, Request
    <3>1. CASE v = w
      BY <1>1, <1>3, <1>4, <1>5, <2>4, <2>5, <3>1
    <3>2. CASE v # w
      BY <1>3, <1>5, <2>1, <2>2, <2>4, <2>7, <3>0, <3>2 DEF Versions
    <3>. QED BY <3>1, <3>2
  <2>. QED BY <1>1, <1>2, <2>6, <2>7 DEF Versions, process
<1>. QED BY <1>7, <1>8, <1>9, <1>10, <1>11, <1>12, <1>13, <1>14

-----------------------------------------------------------------------------
\* The end of a process.

\* What of an append or of a write to the file at work may have been reached.
LEMMA DiesDisks ==
  ASSUME IInv, NEW n \in Node, Dies(n)
  PROVE  /\ torn' \in [Node -> {"yes", "no"}]
         /\ torn' = torn \/ \E w \in Write : requests[w].at = n /\ requests[w].phase = "log"
         /\ \A m \in Node : m # n => torn'[m] = torn[m]
         /\ \/ walLog' = walLog
            \/ \E w \in Write : /\ requests[w].phase = "log" /\ n = Primary /\ requests[w].at = n
                                /\ walLog' = [walLog EXCEPT ![Primary] = Append(@, w)]
         /\ storage' \in [Node -> [Block -> 0 .. MaxWrites]]
         /\ \/ storage' = storage
            \/ \E w \in Storing(n) : \A m \in Node, b \in Block :
                   storage'[m][b] = storage[m][b] \/ (m = n /\ storage'[m][b] = w)
<1>. USE DEF IInv
<1>1. \A w \in Write : requests[w].phase = "log" => requests[w].at = Primary
  BY DEF Handled
<1>2. /\ torn' \in [Node -> {"yes", "no"}]
      /\ torn' = torn \/ \E w \in Write : requests[w].at = n /\ requests[w].phase = "log"
      /\ \A m \in Node : m # n => torn'[m] = torn[m]
  <2>1. torn' = torn \/ torn' = [torn EXCEPT ![n] = "yes"]
    BY DEF Dies
  <2>2. torn' = torn \/ \E w \in Write : requests[w].at = n /\ requests[w].phase = "log"
    BY DEF Dies
  <2>3. torn \in [Node -> {"yes", "no"}]
    BY DEF TypeOK
  <2>. QED BY <2>1, <2>2, <2>3
<1>3. \/ walLog' = walLog
      \/ \E w \in Write : /\ requests[w].phase = "log" /\ n = Primary /\ requests[w].at = n
                          /\ walLog' = [walLog EXCEPT ![Primary] = Append(@, w)]
  BY <1>1 DEF Dies
<1>4. CASE storage' = storage
  BY <1>2, <1>3, <1>4 DEF TypeOK
<1>5. ASSUME NEW w \in Storing(n), NEW k \in 1 .. requests[w].size, Overwrite(n, w, k)
      PROVE  /\ storage' \in [Node -> [Block -> 0 .. MaxWrites]]
             /\ \A m \in Node, b \in Block :
                    storage'[m][b] = storage[m][b] \/ (m = n /\ storage'[m][b] = w)
  <2>1. w \in Write
    BY DEF Storing
  <2>2. k \in Nat
    <3>1. requests[w].size \in Nat
      BY <2>1 DEF TypeOK, Request
    <3>. QED BY <3>1
  <2>3. Overwritten(n, w, k)
    BY <1>5, <2>1, <2>2, OverwriteFile
  <2>. QED BY <2>3 DEF Overwritten
<1>6. storage' = storage \/ \E w \in Storing(n) : \E k \in 1 .. requests[w].size : Overwrite(n, w, k)
  BY DEF Dies
<1>. QED BY <1>2, <1>3, <1>4, <1>5, <1>6

\* The writes on their way into the files are backed, and into that of a primary that
\* does not replay its log only those at work there.
LEMMA StoringBacked ==
  ASSUME IInv, NEW n \in Node, NEW w \in Storing(n)
  PROVE  /\ w \in Write /\ Backed(w)
         /\ n = Primary /\ ~Replaying(n) => up[n] = "yes" /\ requests[w].phase = "store"
<1>. USE DEF IInv
<1>1. w \in Write
  BY DEF Storing
<1>2. CASE InPhase(w, "store") /\ requests[w].at = n
  <2>1. requests[w].at = Primary /\ requests[w].logged \in {"yes", "failed"}
    BY <1>1, <1>2, AtPrimary DEF InPhase
  <2>2. Backed(w)
    BY <1>1, <1>2, <2>1 DEF Backed, Begun, InLog, InPhase, Replaces, Follows
  <2>. QED BY <1>1, <1>2, <2>2 DEF InPhase
<1>3. CASE \E y \in syncs : y.write = w /\ y.to = n
  <2>1. requests[w].phase = "done" /\ n # Primary
    BY <1>3 DEF Copies
  <2>2. requests[w].at = Primary /\ requests[w].logged \in {"yes", "failed"}
    BY <1>1, <2>1 DEF Handled, Replaces, TypeOK, Request
  <2>3. Backed(w)
    BY <1>1, <2>1, <2>2 DEF Backed, Begun, InLog, Replaces, Follows
  <2>. QED BY <1>1, <2>1, <2>3
<1>4. CASE Replaying(n) /\ walLog[n][replayed[n] + 1] = w
  BY <1>1, <1>4, ReplayRecord
<1>. QED BY <1>2, <1>3, <1>4 DEF Storing

LEMMA DiesKeeps ==
  ASSUME IInv, NEW n \in Node, Dies(n), crashes' \in Nat, drops' \in Nat
  PROVE  IInv'
<1>. USE DEF IInv
<1>. DEFINE Lost(v) == requests[v].at = n /\ requests[v].phase \in InHand
<1>1. /\ up' = [up EXCEPT ![n] = "no"]
      /\ role' = [role EXCEPT ![n] = "SECONDARY"]
      /\ knows' = [knows EXCEPT ![n] = "no"]
      /\ chunk' = [chunk EXCEPT ![n] = NoChunk]
      /\ setRole' = [setRole EXCEPT ![n] = IF @ = "half" THEN "gone" ELSE @]
      /\ spawned' \subseteq spawned /\ syncs' \subseteq syncs
      /\ UNCHANGED <<lives, replayed, skipped, before>>
  BY DEF Dies, replays
<1>2. /\ requests' \in [Write -> Request]
      /\ \A v \in Write :
            /\ requests'[v].at = requests[v].at /\ requests'[v].seen = requests[v].seen
            /\ requests'[v].hops = requests[v].hops /\ requests'[v].life = requests[v].life
            /\ requests'[v].logged = requests[v].logged /\ requests'[v].size = requests[v].size
            /\ requests'[v].version = requests[v].version
            /\ Lost(v) => requests'[v].phase = "lost"
            /\ ~Lost(v) => requests'[v].phase = requests[v].phase
  <2>1. requests' = [v \in Write |->
               IF requests[v].at = n /\ requests[v].phase \notin Over \cup {"none"}
               THEN [requests[v] EXCEPT !.phase = "lost"] ELSE requests[v]]
    BY DEF Dies
  <2>2. \A v \in Write : requests[v] \in Request
    BY DEF TypeOK
  <2>3. \A v \in Write : [requests[v] EXCEPT !.phase = "lost"] \in Request
    BY <2>2 DEF Request, Phase
  <2>4. \A v \in Write : requests[v].phase \in InHand <=> requests[v].phase \notin Over \cup {"none"}
    BY <2>2 DEF Request, Phase, InHand, Over
  <2>5. \A v \in Write : requests'[v] = IF Lost(v) THEN [requests[v] EXCEPT !.phase = "lost"] ELSE requests[v]
    BY <2>1, <2>4
  <2>6. requests' \in [Write -> Request]
    BY <2>1, <2>2, <2>3
  <2>. QED BY <2>2, <2>5, <2>6 DEF Request
<1>3. \A v \in Write : requests'[v].phase \in InHand =>
          requests[v].phase = requests'[v].phase /\ requests[v].at # n
  BY <1>2 DEF InHand
<1>4. \A m \in Node : m # n => /\ up'[m] = up[m] /\ chunk'[m] = chunk[m] /\ knows'[m] = knows[m]
                              /\ role'[m] = role[m] /\ setRole'[m] = setRole[m]
  BY <1>1 DEF TypeOK
<1>5. /\ up'[n] = "no" /\ role'[n] = "SECONDARY" /\ knows'[n] = "no" /\ chunk'[n] = NoChunk
      /\ setRole'[n] # "half"
      /\ setRole[n] = "gone" => setRole'[n] = "gone"
  BY <1>1 DEF TypeOK
<1>6. Onward /\ Grows /\ walLog' \in [Node -> Seq(Write)]
      /\ \A v \in Write : Follows(v) => Follows(v)'
  <2>1. Onward
    BY <1>2 DEF Onward, Begun, InHand
  <2>2. CASE walLog' = walLog
    BY <1>1, <2>1, <2>2 DEF Grows, Follows, TypeOK
  <2>3. CASE walLog' # walLog
    <3>1. PICK w \in Write : /\ requests[w].phase = "log"
                             /\ walLog' = [walLog EXCEPT ![Primary] = Append(@, w)]
      BY <2>3, DiesDisks
    <3>. QED BY <1>1, <2>1, <3>1, LogGrows, LogKeepsOrder
  <2>. QED BY <2>2, <2>3
<1>7. TypeOK'
  <2>1. /\ up' \in [Node -> {"yes", "starting", "no"}] /\ knows' \in [Node -> {"yes", "no"}]
        /\ role' \in [Node -> {"PRIMARY", "SECONDARY"}]
        /\ setRole' \in [Node -> {"sent", "half", "gone"}]
    BY <1>1 DEF TypeOK
  <2>2. chunk' \in [Node -> [version : Nat, sum : 0 .. MaxWrites]]
    <3>1. NoChunk \in [version : Nat, sum : 0 .. MaxWrites]
      BY BoundsAssumption DEF NoChunk
    <3>. QED BY <1>1, <3>1 DEF TypeOK
  <2>3. spawned' \in SUBSET Write /\ syncs' \in SUBSET Sync
    BY <1>1 DEF TypeOK
  <2>. QED BY <1>1, <1>2, <1>6, <2>1, <2>2, <2>3, DiesDisks DEF TypeOK
<1>8. Handled'
  <2>1. \A v \in Write : requests[v].at \in Node
    BY DEF TypeOK, Request
  <2>2. \A v \in Write : requests'[v].phase \in {"done", "none"} => requests'[v].phase = requests[v].phase
    BY <1>2
  <2>. QED BY <1>1, <1>2, <1>3, <1>4, <2>1, <2>2 DEF Handled, InHand
<1>9. Hops'
  <2>1. /\ setRole[Primary] = "gone" => setRole'[Primary] = "gone"
        /\ knows[Primary] = "no" => knows'[Primary] = "no"
    BY <1>4, <1>5, PrimaryAssumption
  <2>2. \A v \in Write : requests'[v].phase = requests[v].phase \/ requests'[v].phase = "lost"
    BY <1>2
  <2>. QED BY <1>2, <2>1, <2>2 DEF Hops
<1>10. Roles'
  <2>1. setRole[Primary] = "gone" => setRole'[Primary] = "gone"
    BY <1>4, <1>5, PrimaryAssumption
  <2>2. \A m \in Node : chunk'[m] # NoChunk => chunk[m] # NoChunk
    BY <1>4, <1>5
  <2>3. \A m \in Secondary : role'[m] = "SECONDARY"
    BY <1>4, <1>5 DEF Roles, Secondary
  <2>4. /\ knows'[Primary] = "yes" => role'[Primary] = "PRIMARY" /\ setRole'[Primary] = "gone"
        /\ setRole'[Primary] = "half" => role'[Primary] = "PRIMARY"
    BY <1>4, <1>5, PrimaryAssumption DEF Roles
  <2>. QED BY <1>1, <2>1, <2>2, <2>3, <2>4 DEF Roles, Secondary
<1>11. Replaces'
  <2>1. \A v \in Write : requests[v].phase \in Over => requests'[v].phase \in Over
    BY <1>2 DEF Over, InHand
  <2>2. \A v \in Write :
            requests'[v].phase \in Early \cup {"store", "record", "done"} =>
                requests'[v].phase = requests[v].phase
    BY <1>2 DEF Early
  <2>3. before \in [Write -> SUBSET Write]
    BY DEF TypeOK
  <2>. QED BY <1>1, <1>2, <1>6, <2>1, <2>2, <2>3 DEF Replaces
<1>12. Filed'
  <2>1. CASE n # Primary
    <3>1. /\ up'[Primary] = up[Primary] /\ torn'[Primary] = torn[Primary] /\ walLog' = walLog
          /\ \A b \in Block : storage'[Primary][b] = storage[Primary][b]
      <4>1. up'[Primary] = up[Primary]
        BY <1>4, <2>1, PrimaryAssumption
      <4>2. torn'[Primary] = torn[Primary]
        BY <2>1, DiesDisks, PrimaryAssumption
      <4>3. walLog' = walLog
        BY <2>1, DiesDisks
      <4>4. \A b \in Block : storage'[Primary][b] = storage[Primary][b]
        <5>1. \/ storage' = storage
              \/ \E w \in Storing(n) : \A m \in Node, b \in Block :
                     storage'[m][b] = storage[m][b] \/ (m = n /\ storage'[m][b] = w)
          BY DiesDisks
        <5>. QED BY <2>1, <5>1, PrimaryAssumption
      <4>. QED BY <4>1, <4>2, <4>3, <4>4
    <3>2. Current => Current'
      <4>1. \A v \in Write : requests'[v].phase \in {"record", "done"} =>
                requests'[v].phase = requests[v].phase
        BY <1>2
      <4>. QED BY <1>1, <1>2, <3>1, <4>1 DEF Current
    <3>3. ASSUME Rewritten PROVE Rewritten'
      <4>1. /\ replayed[Primary] \in Nat /\ Len(walLog[Primary]) \in Nat
            /\ DOMAIN walLog[Primary] = 1 .. Len(walLog[Primary])
        BY PrimaryAssumption DEF TypeOK
      <4>2. \A j \in 1 .. replayed[Primary] : j \in DOMAIN walLog[Primary]
        BY <3>3, <4>1 DEF Rewritten
      <4>3. \A j \in 1 .. replayed[Primary] : walLog[Primary][j] \in Write
        BY <4>2, AreWrites, PrimaryAssumption
      <4>. QED BY <1>1, <1>2, <3>1, <3>3, <4>3 DEF Rewritten
    <3>. QED BY <1>1, <3>1, <3>2, <3>3 DEF Filed
  <2>2. CASE n = Primary
    <3>. SUFFICES ASSUME skipped[Primary] = "no", torn'[Primary] = "yes" PROVE Current'
      BY <1>1, <1>5, <2>2 DEF Filed
    <3>1. torn[Primary] = "yes" \/ up[Primary] = "yes"
      BY <2>2, DiesDisks, AtPrimary
    <3>2. Current /\ ~Replaying(Primary)
      BY <3>1 DEF Filed, Replaying
    <3>. SUFFICES ASSUME NEW v \in Write, NEW b \in Block, requests'[v].logged = "yes",
                         requests'[v].phase \in {"record", "done"}, b <= requests'[v].size
                  PROVE  storage'[Primary][b] \notin before[v]
      BY <1>1 DEF Current
    <3>3. storage[Primary][b] \notin before[v]
      BY <1>2, <3>2 DEF Current
    <3>4. storage'[Primary][b] = storage[Primary][b]
              \/ \E x \in Storing(Primary) : storage'[Primary][b] = x
      BY <2>2, DiesDisks, PrimaryAssumption
    <3>5. \A x \in Storing(Primary) : x \notin before[v]
      BY <2>2, <3>2, StoringBacked DEF Replaces, Over
    <3>. QED BY <3>3, <3>4, <3>5
  <2>. QED BY <2>1, <2>2
<1>13. Copies'
  <2>1. \A m \in Node, b \in Block, v \in Write :
            storage'[m][b] = v => storage[m][b] = v \/ Backed(v)'
    <3>1. CASE storage' = storage
      BY <3>1
    <3>2. CASE storage' # storage
      <4>1. PICK w \in Storing(n) : \A m \in Node, b \in Block :
                storage'[m][b] = storage[m][b] \/ storage'[m][b] = w
        BY <3>2, DiesDisks
      <4>2. \A v \in Write : v = w => Backed(v)'
        <5>. SUFFICES ASSUME NEW v \in Write, v = w PROVE Backed(v)'
          OBVIOUS
        <5>1. Backed(v)
          BY StoringBacked
        <5>. QED BY <1>6, <5>1, StaysBacked
      <4>. QED BY <4>1, <4>2
    <3>. QED BY <3>1, <3>2
  <2>2. \A m \in Node, b \in Block, v \in Write : storage'[m][b] = v => Backed(v)'
    BY <1>6, <2>1, FilesBacked
  <2>3. /\ \A m \in Secondary : walLog'[m] = <<>>
        /\ \A i \in DOMAIN walLog'[Primary] :
               LET r == requests'[walLog'[Primary][i]]
               IN  r.at = Primary /\ r.phase \in Begun
    <3>1. CASE walLog' = walLog
      <4>1. \A i \in DOMAIN walLog[Primary] :
                LET r == requests'[walLog[Primary][i]]
                IN  r.at = Primary /\ r.phase \in Begun
        BY <1>6, AreWrites, PrimaryAssumption DEF Copies, Onward
      <4>. QED BY <3>1, <4>1 DEF Copies
    <3>2. CASE walLog' # walLog
      <4>1. PICK w \in Write : /\ requests[w].phase = "log" /\ requests[w].at = n /\ n = Primary
                               /\ walLog' = [walLog EXCEPT ![Primary] = Append(@, w)]
        BY <3>2, DiesDisks
      <4>2. requests'[w].at = Primary /\ requests'[w].phase \in Begun
        BY <1>2, <4>1 DEF InHand, Begun
      <4>. QED BY <1>6, <4>1, <4>2, LoggedCopies
    <3>. QED BY <3>1, <3>2
  <2>4. \A v \in Write : requests[v].phase = "done" => requests'[v].phase = "done"
    BY <1>2 DEF InHand
  <2>. QED BY <1>1, <2>2, <2>3, <2>4, AreWrites DEF Copies
<1>14. Versions'
  <2>1. \A v \in Write : requests'[v].phase = "done" =>
            /\ requests[v].phase = "done" /\ requests'[v].at = requests[v].at
            /\ requests'[v].life = requests[v].life /\ requests'[v].version = requests[v].version
    BY <1>2
  <2>2. VersionsGrow'
    BY <1>1, <2>1 DEF Versions, VersionsGrow
  <2>3. /\ n = Primary => up'[Primary] = "no"
        /\ n # Primary => up'[Primary] = up[Primary] /\ chunk'[Primary] = chunk[Primary]
    BY <1>4, <1>5, PrimaryAssumption
  <2>. QED BY <1>1, <2>1, <2>2, <2>3 DEF Versions
<1>. QED BY <1>7, <1>8, <1>9, <1>10, <1>11, <1>12, <1>13, <1>14

-----------------------------------------------------------------------------
LEMMA StepKeeps == IInv /\ [Next]_vars => IInv'
<1>. SUFFICES ASSUME IInv, [Next]_vars PROVE IInv'
  OBVIOUS
<1>1. ASSUME NEW w \in Write, WriteStep(w) PROVE IInv'
  BY <1>1, DecideKeeps, ProxyKeeps, DialKeeps, TakeForwardedKeeps, LogAppendKeeps, StoreKeeps,
     RecordKeeps DEF WriteStep
<1>2. ASSUME NEW w \in Write, RunSync(w) PROVE IInv'
  BY <1>2, RunSyncKeeps
<1>3. ASSUME NEW w \in Write, NEW n \in Node, NEW k \in Block, Arrive(w, n, k) PROVE IInv'
  BY <1>3, ArriveKeeps
<1>4. ASSUME NEW w \in Write, NEW n \in Node, SyncStep(w, n) PROVE IInv'
  BY <1>4, SyncKeeps DEF SyncStep
<1>5. ASSUME NEW y \in syncs, SyncFails(y) PROVE IInv'
  BY <1>5, SyncKeeps
<1>6. ASSUME NEW n \in Node, SetLocalRole(n) \/ RegisterReplicas(n) \/ SetRoleLost(n) PROVE IInv'
  BY <1>6, SetRoleKeeps
<1>7. ASSUME NEW n \in Node, Crash(n) \/ MapRace(n) PROVE IInv'
  <2>1. Dies(n) /\ crashes' \in Nat /\ drops' \in Nat
    BY <1>7 DEF Crash, MapRace, faults, IInv, TypeOK
  <2>. QED BY <2>1, DiesKeeps
<1>8. ASSUME NEW n \in Node, Restart(n) \/ Replay(n) \/ ReplayFails(n) \/ Accept(n) PROVE IInv'
  BY <1>8, RestartKeeps, ReplayKeeps, AcceptKeeps
<1>9. CASE UNCHANGED vars
  <2>1. UNCHANGED <<up, lives, role, knows, chunk, storage, walLog, torn, replayed, skipped, setRole,
                    requests, before, spawned, syncs, crashes, drops>>
    BY <1>9 DEF vars, process, disks, replays, faults
  <2>2. TypeOK'
    BY <2>1 DEF IInv, TypeOK
  <2>3. Handled' /\ Hops' /\ Replaces' /\ Filed' /\ Copies' /\ Versions'
    BY <2>1, SameHandled, SameHops, SameReplaces, SameFiled, SameCopies, SameVersions DEF IInv
  <2>4. Roles'
    BY <2>1 DEF IInv, Roles
  <2>. QED BY <2>2, <2>3, <2>4 DEF IInv
<1>. QED BY <1>1, <1>2, <1>3, <1>4, <1>5, <1>6, <1>7, <1>8, <1>9 DEF Next

\* The inductive invariant: where requests are, what the log and the files hold.
THEOREM Invariance == Spec => []IInv
<1>1. Init => IInv
  BY InitInv
<1>2. IInv /\ [Next]_vars => IInv'
  BY StepKeeps
<1>. QED BY <1>1, <1>2, PTL DEF Spec

\* Every variable keeps its type.
THEOREM TypeCorrect == Spec => []TypeOK
<1>1. IInv => TypeOK
  BY DEF IInv
<1>. QED BY <1>1, Invariance, PTL

\* Reads are current block by block, although writes of other lengths overwrite the
\* file in place and a replay starts over on what a crash has left of it: a read
\* returns the file of the primary, which while the node accepts holds in no block
\* what a logged and finished write has replaced there, unless a record was skipped.
THEOREM CurrentReads == Spec => []ReadsCurrent
<1>1. IInv => ReadsCurrent
  <2>. SUFFICES ASSUME IInv, NEW n \in Node, NEW b \in Block, skipped[Primary] = "no",
                       Read(n)[b] # 0, Superseded(Read(n)[b], b)
                PROVE  FALSE
    BY DEF ReadsCurrent
  <2>1. NoFile[b] = 0
    BY DEF NoFile
  <2>2. Read(n)[b] = storage[Primary][b] /\ up[Primary] = "yes"
    BY <2>1 DEF IInv, Roles, Secondary, Read, ReadLocal, MayRead
  <2>3. PICK w \in Write : /\ storage[Primary][b] \in before[w] /\ b <= requests[w].size
                           /\ requests[w].phase = "done" /\ requests[w].logged = "yes"
    BY <2>2 DEF Superseded
  <2>. QED BY <2>2, <2>3 DEF IInv, Filed, Current
<1>. QED BY <1>1, Invariance, PTL

\* The versions the primary answers with in one life are distinct, and grow
\* from a write to those that follow it.
THEOREM GrowingVersions == Spec => []VersionsGrow
<1>1. IInv => VersionsGrow
  BY DEF IInv, Versions
<1>. QED BY <1>1, Invariance, PTL

\* Write-ahead: what a block of a file holds is in the log of the primary, unless that
\* append failed.
THEOREM LoggedStorage == Spec => []StoredIsLogged
<1>1. IInv => StoredIsLogged
  <2>. SUFFICES ASSUME IInv, NEW n \in Node, NEW b \in Block, storage[n][b] # 0
                PROVE  \/ storage[n][b] \in ToSet(walLog[requests[storage[n][b]].at])
                       \/ requests[storage[n][b]].logged = "failed"
    BY DEF StoredIsLogged
  <2>1. storage[n][b] \in Write
    BY BoundsAssumption DEF IInv, TypeOK, Write
  <2>2. /\ requests[storage[n][b]].at = Primary
        /\ \/ \E i \in DOMAIN walLog[Primary] : walLog[Primary][i] = storage[n][b]
           \/ requests[storage[n][b]].logged = "failed"
    BY <2>1 DEF IInv, Copies, Backed, InLog
  <2>. QED BY <2>2 DEF ToSet
<1>. QED BY <1>1, Invariance, PTL

\* A proxied write is not proxied again.
THEOREM OneProxy == Spec => []ProxiedOnce
<1>1. IInv => ProxiedOnce
  BY DEF IInv, Hops, ProxiedOnce
<1>. QED BY <1>1, Invariance, PTL
=============================================================================

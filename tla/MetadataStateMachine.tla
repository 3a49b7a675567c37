----------------------- MODULE MetadataStateMachine -----------------------
(***************************************************************************)
(* The metadata of a cluster master, internal/raft/state_machine.go: three *)
(* maps and the commands that change them.  A state is a record            *)
(*                                                                         *)
(*   files      file ID -> the ChunkIDs of the file, in order              *)
(*   chunks     chunk ID -> its file, its replicas (the first is primary)  *)
(*              and its content, the size and checksum                     *)
(*   datanodes  node ID -> Online or Offline                               *)
(*                                                                         *)
(* A Go map is a function on the keys it holds.  Names, paths, addresses,  *)
(* times and the version counter, which only Snapshot reads, are left out. *)
(* Every operation holds the mutex of the state machine throughout, so     *)
(* each is one operator from a state to the next.                          *)
(*                                                                         *)
(* AllocChunkOnce, CreateFileFreesChunks and CreateFileKeepsList are       *)
(* mutants that PROJECT.json puts in the place of what follows them.       *)
(***************************************************************************)
EXTENDS Integers, Sequences, Functions

Online  == "online"
Offline == "offline"
Unset   == "unset"      \* the content of a chunk nobody has described yet

Put(f, k, v)  == [x \in DOMAIN f \cup {k} |-> IF x = k THEN v ELSE f[x]]
Delete(f, ks) == Restrict(f, DOMAIN f \ ks)
InSeq(s)      == {s[i] : i \in 1..Len(s)}

\* "chunk_<file>_<index>"
ChunkID(file, index) == <<file, index>>

NoMetadata == [files |-> <<>>, chunks |-> <<>>, datanodes |-> <<>>]

RegisterNode(md, cmd) == [md EXCEPT !.datanodes = Put(@, cmd.node, Online)]

UnregisterNode(md, cmd) ==
    IF cmd.node \in DOMAIN md.datanodes
    THEN [md EXCEPT !.datanodes[cmd.node] = Offline]
    ELSE md

\* A file that exists already is replaced, and its list of chunks with it; the chunks
\* themselves stay.
Replaced(md, cmd) ==
    IF cmd.file \in DOMAIN md.files THEN InSeq(md.files[cmd.file]) ELSE {}
CreateFileFreesChunks(md, cmd) ==
    [md EXCEPT !.files  = Put(@, cmd.file, <<>>), !.chunks = Delete(@, Replaced(md, cmd))]
CreateFileKeepsList(md, cmd) ==
    [md EXCEPT !.files  = IF cmd.file \in DOMAIN @ THEN @ ELSE Put(@, cmd.file, <<>>),
               !.chunks = Delete(@, Replaced(md, cmd))]
CreateFile(md, cmd) == [md EXCEPT !.files = Put(@, cmd.file, <<>>)]

DeleteFile(md, cmd) ==
    IF cmd.file \in DOMAIN md.files
    THEN [md EXCEPT !.files  = Delete(@, {cmd.file}),
                    !.chunks = Delete(@, InSeq(md.files[cmd.file]))]
    ELSE md

\* The chunk is replaced if it exists, and listed again if the file exists.
AllocChunkOnce(md, cmd) ==
    LET id == ChunkID(cmd.file, cmd.index)
    IN  IF id \in DOMAIN md.chunks \/ cmd.file \notin DOMAIN md.files
        THEN md
        ELSE [md EXCEPT !.chunks = Put(@, id, [file |-> cmd.file, content |-> Unset,
                                               replicas |-> cmd.replicas]),
                        !.files[cmd.file] = Append(@, id)]

AllocChunk(md, cmd) ==
    LET id    == ChunkID(cmd.file, cmd.index)
        chunk == [file |-> cmd.file, content |-> Unset, replicas |-> cmd.replicas]
    IN  [md EXCEPT !.chunks = Put(@, id, chunk),
                   !.files  = IF cmd.file \in DOMAIN md.files
                              THEN [md.files EXCEPT ![cmd.file] = Append(md.files[cmd.file], id)]
                              ELSE md.files]

UpdateChunk(md, cmd) ==
    IF cmd.chunk \in DOMAIN md.chunks
    THEN [md EXCEPT !.chunks[cmd.chunk].content = cmd.content]
    ELSE md

\* An unknown type is an error that changes nothing but the version.
Apply(md, cmd) ==
    CASE cmd.type = "REGISTER_NODE"   -> RegisterNode(md, cmd)
      [] cmd.type = "UNREGISTER_NODE" -> UnregisterNode(md, cmd)
      [] cmd.type = "CREATE_FILE"     -> CreateFile(md, cmd)
      [] cmd.type = "DELETE_FILE"     -> DeleteFile(md, cmd)
      [] cmd.type = "ALLOC_CHUNK"     -> AllocChunk(md, cmd)
      [] cmd.type = "UPDATE_CHUNK"    -> UpdateChunk(md, cmd)
      [] OTHER                        -> md

-----------------------------------------------------------------------------
(***************************************************************************)
(* Updates that do not go through the log, and the query they serve.       *)
(***************************************************************************)
UpdateNodeHeartbeat(md, n) ==
    IF n \in DOMAIN md.datanodes THEN [md EXCEPT !.datanodes[n] = Online] ELSE md

SetNodeOffline(md, n) ==
    IF n \in DOMAIN md.datanodes THEN [md EXCEPT !.datanodes[n] = Offline] ELSE md

OnlineNodes(md) == {n \in DOMAIN md.datanodes : md.datanodes[n] = Online}
=============================================================================

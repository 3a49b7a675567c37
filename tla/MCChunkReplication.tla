------------------------- MODULE MCChunkReplication -------------------------
(***************************************************************************)
(* The data nodes of one chunk for TLC.                                    *)
(***************************************************************************)
EXTENDS ChunkReplication

\* Ends of processes, MapRace included; appends and writes to the file that failed.
Deaths == {n \in Node : up[n] = "no"} \X {0} \cup UNION {{n} \X (2 .. lives[n]) : n \in Node}
DiskFaults ==
    {w \in Write : requests[w].logged = "failed"} \X {"log"}
        \cup {w \in Write : requests[w].logged # "no" /\ requests[w].phase = "failed"} \X {"file"}

\* Two faults in all, and the first write is the longest.
TwoFaults ==
    /\ Cardinality(Deaths') + Cardinality(DiskFaults') + drops' <= 2
    /\ requests'[1].phase # "none" => requests'[1].size = MaxBlocks
=============================================================================

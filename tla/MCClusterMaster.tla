-------------------------- MODULE MCClusterMaster --------------------------
(***************************************************************************)
(* Instances of ClusterMaster for TLC.                                     *)
(***************************************************************************)
EXTENDS ClusterMaster

CONSTANTS m1, m2      \* two masters

\* All data nodes are configured with the same master, as in configs/datanode.json.
AllToOne == [n \in DataNode |-> m1]

\* The status of a data node is read in one place, where an allocation begins.  It
\* changes only on the master where one is about to, and the data nodes have sent
\* their registration before the first client comes.
StatusWhenRead ==
    /\ \A m \in Master : (\E n \in DOMAIN sm[m].datanodes :
                             sm'[m].datanodes[n] # sm[m].datanodes[n]) =>
            \/ cursor' # cursor
            \/ \E f \in File : upload[f] = Created(m)
    /\ upload' # upload => started = DataNode

\* Only one of the masters is fed commands again.
OneFedAgain == \A m, n \in Master : requeues'[m] > 0 /\ requeues'[n] > 0 => m = n

=============================================================================

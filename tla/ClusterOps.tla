----------------------------- MODULE ClusterOps -----------------------------
(***************************************************************************)
(* roles/cluster_ops: the task files the lifecycle playbooks include.      *)
(* They only read the cluster; a playbook acts on the facts they set.      *)
(***************************************************************************)
EXTENDS PatroniCluster

\* Rows of GET /cluster (external): the state column of a member.
RowState(n) ==
  CASE pg[n] \in {"primary", "recovering"} -> "running"
    [] pg[n] \in {"lagging", "streaming"}  -> ReplicaState
    [] pg[n] = "starting"                  -> "starting"
    [] pg[n] = "down"                      -> "stopped"

\* find_leader.yml fails when no endpoint answers, and when no row has the role
\* "leader" (`first` of an empty list is undefined).
CanFindLeader == /\ daemon # {}
                 /\ leader \in members

\* Mutant: the leader is not taken off the list.
AllHosts == members

\* cluster_ops_replica_hosts; /cluster lists them by name.
ReplicaHosts == members \ {leader}

\* Mutant: an index that is off by one.
OffByOne(S) == {n + 1 : n \in {k \in S : \A m \in S : k <= m}}

\* `| first` of a list sorted by name: the one element, or none.
First(S) == {n \in S : \A m \in S : n <= m}

\* The lag column is not an integer while a replica is starting or not
\* streaming, and over the threshold while it is lagging.
BadLag(n) == pg[n] \notin {"primary", "streaming"}

\* assert_healthy.yml, asked of the member found to lead earlier.
Healthy(asked) ==
  /\ asked \in daemon
  /\ leader \in members
  /\ \A n \in members : RowState(n) = "running"
  /\ \A n \in ReplicaHosts : ~BadLag(n)

\* wait_member_converged.yml: the `until` condition on GET /patroni of one
\* member.  A replica has only to stream; its lag is not read.
Converged(n) ==
  /\ n \in daemon
  /\ \/ pg[n] = "primary" /\ PrimaryRole \in {"master", "leader"}
     \/ pg[n] \in {"lagging", "streaming"}

=============================================================================

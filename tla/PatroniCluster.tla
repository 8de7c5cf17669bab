--------------------------- MODULE PatroniCluster ---------------------------
(***************************************************************************)
(* The Patroni cluster the lifecycle playbooks act on.  Patroni, systemd   *)
(* and PostgreSQL are not part of the repository: everything here is       *)
(* external, and is modelled from what the playbooks ask of it (start and  *)
(* stop the service, `patronictl pause` and `resume`, POST /switchover and *)
(* /failover) and what they read back (GET /cluster and GET /patroni).     *)
(*                                                                         *)
(* A member is a number: its place in the sorted inventory, which is also  *)
(* the place Patroni gives it in /cluster.                                 *)
(*                                                                         *)
(*   leader     holder of the leader key in the DCS, or NoNode             *)
(*   paused     the DCS says Patroni must not manage PostgreSQL            *)
(*   daemon     members whose Patroni service runs (its REST API answers)  *)
(*   members    members with a key in the DCS: the rows of /cluster        *)
(*   pg         what each member's PostgreSQL is doing                     *)
(*   installed  version of the PostgreSQL packages on each member          *)
(*   running    version each member's server process was started from      *)
(*   changes    how often the leader was lost without anybody asking       *)
(***************************************************************************)
EXTENDS Naturals, FiniteSets

CONSTANTS
  N,             \* number of members
  ReplicaState,  \* the state /cluster reports for a replica that streams
  PrimaryRole,   \* the role /patroni reports on the primary
  MaxChanges     \* bound on unplanned losses of the leader

ASSUME NAssumption == N \in Nat \ {0}
ASSUME VocabularyAssumption == /\ ReplicaState \in {"running", "streaming"}
                               /\ PrimaryRole \in {"master", "leader", "primary"}
ASSUME MaxChangesAssumption == MaxChanges \in Nat

VARIABLES leader, paused, daemon, members, pg, installed, running, changes

clusterVars == <<leader, paused, daemon, members, pg, installed, running, changes>>

Node == 1..N
NoNode == 0

Version == {"old", "new"}

\* "recovering": up as a standby but not streaming; "lagging": streaming, more
\* than 1 MiB behind; "streaming": streaming and caught up.
PgState == {"down", "starting", "recovering", "lagging", "streaming", "primary"}

ClusterTypeOK ==
  /\ leader \in Node \cup {NoNode}
  /\ paused \in BOOLEAN
  /\ daemon \in SUBSET Node
  /\ members \in SUBSET Node
  /\ pg \in [Node -> PgState]
  /\ installed \in [Node -> Version]
  /\ running \in [Node -> Version]
  /\ changes \in 0..MaxChanges

(***************************************************************************)
(* A cluster that has been deployed: one leader, every other member is a   *)
(* standby of it, in any state of replication.                             *)
(***************************************************************************)
DeployedWith(joined) ==
  /\ leader \in joined
  /\ pg \in [Node -> PgState]
  /\ \A n \in Node : pg[n] \in IF n \notin joined THEN {"down"}
                               ELSE IF n = leader THEN {"primary"}
                               ELSE {"recovering", "lagging", "streaming"}
  /\ paused = FALSE
  /\ daemon = joined
  /\ members = joined
  /\ installed = [n \in Node |-> "old"]
  /\ running = [n \in Node |-> "old"]
  /\ changes = 0

\* When the primary goes away or moves, the standbys that streamed from it have
\* to attach again.
Detached(n) == IF pg[n] \in {"lagging", "streaming"} THEN "recovering" ELSE pg[n]

-----------------------------------------------------------------------------
(***************************************************************************)
(* What the playbooks do to the cluster.                                   *)
(***************************************************************************)

\* `patronictl pause --wait`, `patronictl resume --wait`.
SetPause(b) ==
  /\ paused' = b
  /\ UNCHANGED <<leader, daemon, members, pg, installed, running, changes>>

\* `systemctl stop patroni`.  While the cluster is paused Patroni exits and
\* leaves PostgreSQL running and its keys in place; otherwise it stops
\* PostgreSQL first and gives the leader key up.
StopPatroni(n) ==
  /\ daemon' = daemon \ {n}
  /\ IF paused
       THEN UNCHANGED <<pg, leader>>
       ELSE /\ pg' = [m \in Node |-> IF m = n THEN "down"
                                     ELSE IF leader = n THEN Detached(m) ELSE pg[m]]
            /\ leader' = IF leader = n THEN NoNode ELSE leader
  /\ UNCHANGED <<paused, members, installed, running, changes>>

\* `systemctl start patroni`: it adopts a PostgreSQL it finds running.
StartPatroni(n) ==
  /\ daemon' = daemon \cup {n}
  /\ members' = members \cup {n}
  /\ pg' = [pg EXCEPT ![n] = IF @ = "down" THEN "starting" ELSE @]
  /\ UNCHANGED <<leader, paused, installed, running, changes>>

\* `dnf` replaces the files on disk, not a process that runs from them.
InstallNew(n) ==
  /\ installed' = [installed EXCEPT ![n] = "new"]
  /\ UNCHANGED <<leader, paused, daemon, members, pg, running, changes>>

\* Patroni moves the leader key to a standby.  The old primary is restarted as a
\* standby, the new one is promoted in place.
Promote(to) ==
  /\ to \in daemon \cap members
  /\ pg[to] \in {"recovering", "lagging", "streaming"}
  /\ leader' = to
  /\ pg' = [n \in Node |-> IF n = to THEN "primary"
                           ELSE IF n = leader THEN "starting" ELSE Detached(n)]
  /\ UNCHANGED <<paused, daemon, members, installed, running, changes>>

\* POST /switchover to the leader: the member promoted is caught up.
HandOver(to) == /\ leader \in daemon
                /\ pg[to] = "streaming"
                /\ Promote(to)

\* POST /failover to the candidate: it needs no leader, and no healthy one.
FailOver(to) == /\ \A m \in daemon \ {leader} : pg[m] # "primary"
                /\ Promote(to)

\* `patronictl remove`: deletes everything the DCS holds about the cluster.  Its
\* third prompt must name the leader if there is one.
RemoveCluster(answer) ==
  /\ leader \in {NoNode, answer}
  /\ leader' = NoNode
  /\ members' = {}
  /\ UNCHANGED <<paused, daemon, pg, installed, running, changes>>

-----------------------------------------------------------------------------
(***************************************************************************)
(* What the cluster does by itself.                                        *)
(***************************************************************************)

\* The primary crashes or loses the DCS.
LoseLeader ==
  /\ leader # NoNode
  /\ changes < MaxChanges
  /\ changes' = changes + 1
  /\ leader' = NoNode
  /\ pg' = [n \in Node |-> IF n # leader THEN Detached(n)
                           ELSE IF n \in daemon THEN "starting" ELSE "down"]
  /\ UNCHANGED <<paused, daemon, members, installed, running>>

\* Automatic failover: never while paused, never beside a primary that answers.
Elect(n) ==
  /\ leader = NoNode
  /\ ~paused
  /\ n \in daemon
  /\ pg[n] = "recovering"
  /\ \A m \in daemon : pg[m] # "primary"
  /\ leader' = n
  /\ pg' = [pg EXCEPT ![n] = "primary"]
  /\ UNCHANGED <<paused, daemon, members, installed, running, changes>>

\* Patroni comes back beside a primary that kept running without it.
Reacquire(n) ==
  /\ leader = NoNode
  /\ n \in daemon
  /\ pg[n] = "primary"
  /\ leader' = n
  /\ UNCHANGED <<paused, daemon, members, pg, installed, running, changes>>

\* A running Patroni writes its member key at every turn of its loop.
Register(n) ==
  /\ n \in daemon \ members
  /\ members' = members \cup {n}
  /\ UNCHANGED <<leader, paused, daemon, pg, installed, running, changes>>

\* The keys of a member whose Patroni is gone outlive it by one ttl.
ExpireKeys(n) ==
  /\ n \notin daemon
  /\ n \in members \cup {leader}
  /\ members' = members \ {n}
  /\ leader' = IF leader = n THEN NoNode ELSE leader
  /\ UNCHANGED <<paused, daemon, pg, installed, running, changes>>

\* Patroni starts PostgreSQL from the installed packages; not while paused.
PostgresStarts(n) ==
  /\ ~paused
  /\ n \in daemon
  /\ pg[n] = "starting"
  /\ pg' = [pg EXCEPT ![n] = "recovering"]
  /\ running' = [running EXCEPT ![n] = installed[n]]
  /\ UNCHANGED <<leader, paused, daemon, members, installed, changes>>

\* A standby attaches to the primary, catches up, or falls behind again.
Replicate(n) ==
  /\ leader # NoNode
  /\ pg[leader] = "primary"
  /\ \E s \in {"recovering", "lagging", "streaming"} \ {pg[n]} :
       /\ pg[n] \in {"recovering", "lagging", "streaming"}
       /\ pg' = [pg EXCEPT ![n] = s]
  /\ UNCHANGED <<leader, paused, daemon, members, installed, running, changes>>

Environment ==
  \/ LoseLeader
  \/ \E n \in Node : Elect(n) \/ Reacquire(n) \/ Register(n) \/ ExpireKeys(n)
                     \/ PostgresStarts(n) \/ Replicate(n)

-----------------------------------------------------------------------------
(***************************************************************************)
(* What every playbook owes the cluster it acts on.                        *)
(***************************************************************************)

\* No split brain: two PostgreSQL servers never take writes at the same time.  A
\* pause leaves a primary running without its Patroni, so that a playbook may lift
\* it only when that Patroni is back ("patronictl resume" after "start patroni" in
\* minor_upgrade.yml): automatic failover would promote a standby beside it.
OnePrimary == \A m, n \in Node : pg[m] = "primary" /\ pg[n] = "primary" => m = n

=============================================================================

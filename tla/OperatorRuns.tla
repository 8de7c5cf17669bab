---------------------------- MODULE OperatorRuns ----------------------------
(***************************************************************************)
(* The other lifecycle playbooks, run by operators who do not know of each *)
(* other: switchover.yml, failover.yml, scale_remove_replica.yml and       *)
(* scale_add_replica.yml.  Nothing in the repository serialises two runs;  *)
(* each acts on the topology it located before its confirmation prompt.    *)
(*                                                                         *)
(*   op        which playbook a run is of                                  *)
(*   pc        its next task; "done" or "failed" at its end                *)
(*   target    candidate or target_host (NoNode: left to the playbook)     *)
(*   seen      cluster_ops_leader_host, as last located                    *)
(*   replicas  cluster_ops_replica_hosts, as last located                  *)
(*   from      history: the leader the run located before it acted         *)
(*   moved     history: whether a task of some run has changed the lead    *)
(*   mover     history: the run that was the last to change it; none if    *)
(*             the lead has been lost since                                *)
(***************************************************************************)
EXTENDS ClusterOps

CONSTANTS
  Run,            \* playbook runs that overlap
  SilentStatus    \* whether ansible.builtin.uri sets a status when nothing answers

ASSUME RunAssumption == IsFiniteSet(Run)
ASSUME SilentStatusAssumption == SilentStatus \in BOOLEAN

VARIABLES op, pc, target, seen, replicas, from, moved, mover

runVars == <<op, pc, target, seen, replicas, from>>
history == <<moved, mover>>
vars == <<clusterVars, runVars, history>>

Operation == {"switchover", "failover", "remove", "add"}
Label == {"probe", "locate", "health", "choose", "check", "request", "stop",
          "unregister", "bootstrap", "join", "poll", "relocate", "verify",
          "done", "failed"}

TypeOK ==
  /\ ClusterTypeOK
  /\ op \in [Run -> Operation]
  /\ pc \in [Run -> Label]
  /\ target \in [Run -> Node \cup {NoNode}]
  /\ seen \in [Run -> Node \cup {NoNode}]
  /\ from \in [Run -> Node \cup {NoNode}]
  /\ replicas \in [Run -> SUBSET Node]
  /\ moved \in BOOLEAN
  /\ mover \subseteq Run

\* Every member is in the inventory; some of them may not have been added yet.
\* Only a switchover may leave its target open.
Init ==
  /\ \E joined \in SUBSET Node : DeployedWith(joined)
  /\ op \in [Run -> Operation]
  /\ target \in [Run -> Node \cup {NoNode}]
  /\ \A r \in Run : target[r] = NoNode => op[r] = "switchover"
  /\ pc = [r \in Run |-> IF op[r] = "add" THEN "probe" ELSE "locate"]
  /\ seen = [r \in Run |-> NoNode]
  /\ replicas = [r \in Run |-> {}]
  /\ from = [r \in Run |-> NoNode]
  /\ moved = FALSE
  /\ mover = {}

Goto(r, l) == pc' = [pc EXCEPT ![r] = l]

-----------------------------------------------------------------------------
(***************************************************************************)
(* Tasks that read the cluster.                                            *)
(***************************************************************************)

\* scale_add_replica.yml asserts that the probe of the new host has set no status, to
\* refuse a host on which Patroni already answers.
Probe(r) ==
  /\ pc[r] = "probe"
  /\ target[r] \notin daemon /\ ~SilentStatus
  /\ Goto(r, "locate")
  /\ UNCHANGED <<clusterVars, op, target, seen, replicas, from, history>>

\* find_leader.yml, before the run acts.  A failover does not look at the
\* cluster's health, a removal only at the topology.
Locate(r) ==
  /\ pc[r] = "locate"
  /\ CanFindLeader
  /\ seen' = [seen EXCEPT ![r] = leader]
  /\ from' = [from EXCEPT ![r] = leader]
  /\ replicas' = [replicas EXCEPT ![r] = ReplicaHosts]
  /\ Goto(r, CASE op[r] \in {"switchover", "add"} -> "health"
               [] op[r] = "failover"              -> "request"
               [] op[r] = "remove"                -> "check")
  /\ UNCHANGED <<clusterVars, op, target, history>>

\* find_leader.yml again, after it.
Relocate(r) ==
  /\ pc[r] = "relocate"
  /\ CanFindLeader
  /\ seen' = [seen EXCEPT ![r] = leader]
  /\ replicas' = [replicas EXCEPT ![r] = ReplicaHosts]
  /\ Goto(r, "verify")
  /\ UNCHANGED <<clusterVars, op, target, from, history>>

\* assert_healthy.yml, as a gate and as the verdict.
AssertHealthy(r) ==
  /\ pc[r] \in {"health", "verify"}
  /\ Healthy(seen[r])
  /\ Goto(r, IF pc[r] = "verify" THEN "done"
             ELSE IF op[r] = "switchover" THEN "choose" ELSE "bootstrap")
  /\ UNCHANGED <<clusterVars, op, target, seen, replicas, from, history>>

\* switchover.yml: the named candidate or the first replica; it must be one.
ChooseCandidate(r) ==
  /\ pc[r] = "choose"
  /\ \E c \in IF target[r] = NoNode THEN First(replicas[r]) ELSE {target[r]} \cap replicas[r] :
       target' = [target EXCEPT ![r] = c]
  /\ Goto(r, "request")
  /\ UNCHANGED <<clusterVars, op, seen, replicas, from, history>>

\* Mutant: only the number of members is asserted.
CheckRemovalCount(r) ==
  /\ pc[r] = "check"
  /\ Cardinality(replicas[r]) >= 1
  /\ Goto(r, "stop")
  /\ UNCHANGED <<clusterVars, op, target, seen, replicas, from, history>>

\* scale_remove_replica.yml: not the leader, a known replica, not the last one.
CheckRemoval(r) ==
  /\ pc[r] = "check"
  /\ target[r] # seen[r]
  /\ target[r] \in replicas[r]
  /\ Cardinality(replicas[r]) >= 1
  /\ Goto(r, "stop")
  /\ UNCHANGED <<clusterVars, op, target, seen, replicas, from, history>>

\* roles/patroni/tasks/_service.yml: the new member answers, knows one leader and
\* is up.
AwaitJoin(r) ==
  /\ pc[r] = "join"
  /\ target[r] \in daemon
  /\ leader \in members
  /\ pg[target[r]] \notin {"down", "starting"}
  /\ Goto(r, "poll")
  /\ UNCHANGED <<clusterVars, op, target, seen, replicas, from, history>>

\* wait_member_converged.yml
PollConverged(r) ==
  /\ pc[r] = "poll"
  /\ Converged(target[r])
  /\ Goto(r, "relocate")
  /\ UNCHANGED <<clusterVars, op, target, seen, replicas, from, history>>

-----------------------------------------------------------------------------
(***************************************************************************)
(* Tasks that change the cluster, after a prompt that may stand for any    *)
(* time.  None of them looks at the topology again.                        *)
(***************************************************************************)

\* Mutant: POST /switchover does not name the leader it was asked to replace.
RequestUnnamed(r) ==
  /\ pc[r] = "request"
  /\ \/ op[r] = "switchover" /\ \E to \in Node \ {leader} : HandOver(to)
     \/ op[r] = "failover" /\ target[r] # leader /\ FailOver(target[r])

\* POST /switchover names the located leader, and is refused by another one;
\* POST /failover goes to the candidate.
RequestLeader(r) ==
  /\ pc[r] = "request"
  /\ \/ /\ op[r] = "switchover"
        /\ leader = seen[r]
        /\ \E to \in Node \ {leader} : HandOver(to)
     \/ /\ op[r] = "failover"
        /\ target[r] # leader
        /\ FailOver(target[r])

StopTarget(r) == pc[r] = "stop" /\ StopPatroni(target[r])

\* Mutant: the third answer is the leader, which Patroni asks for.
UnregisterAsAsked(r) == pc[r] = "unregister" /\ RemoveCluster(seen[r])

\* "Remove the member from the Patroni DCS": the third answer is target_host.
Unregister(r) == pc[r] = "unregister" /\ RemoveCluster(target[r])

\* _node.yml .. _monitoring_agents.yml on the new host: Patroni is started.
Bootstrap(r) == pc[r] = "bootstrap" /\ StartPatroni(target[r])

Effect(r) ==
  /\ RequestLeader(r) \/ StopTarget(r) \/ Unregister(r) \/ Bootstrap(r)
  /\ moved' = (moved \/ leader' # leader)
  /\ mover' = IF leader' = leader THEN mover ELSE {r}

ChangeCluster(r) ==
  /\ Effect(r)
  /\ Goto(r, CASE pc[r] = "request"    -> "poll"
               [] pc[r] = "stop"       -> "unregister"
               [] pc[r] = "unregister" -> "relocate"
               [] pc[r] = "bootstrap"  -> "join")
  /\ UNCHANGED <<op, target, seen, replicas, from>>

\* A gate refuses, the operator aborts, retries run out, a connection breaks
\* (before or after the task had its effect).
TaskFails(r) ==
  /\ pc[r] \notin {"done", "failed"}
  /\ Effect(r) \/ UNCHANGED <<clusterVars, history>>
  /\ Goto(r, "failed")
  /\ UNCHANGED <<op, target, seen, replicas, from>>

-----------------------------------------------------------------------------
Playbook(r) == \/ Probe(r) \/ Locate(r) \/ Relocate(r) \/ AssertHealthy(r)
               \/ ChooseCandidate(r) \/ CheckRemoval(r) \/ AwaitJoin(r)
               \/ PollConverged(r) \/ ChangeCluster(r) \/ TaskFails(r)

ClusterMoves ==
  /\ Environment
  /\ mover' = IF changes' = changes THEN mover ELSE {}
  /\ UNCHANGED <<runVars, moved>>

Next == \/ \E r \in Run : Playbook(r)
        \/ ClusterMoves

Spec == Init /\ [][Next]_vars

-----------------------------------------------------------------------------
(***************************************************************************)
(* Properties.                                                             *)
(***************************************************************************)

\* The lead has moved: it was lost, or a task of some run changed it.
LeadMoved == changes > 0 \/ moved

\* scale_remove_replica.yml "REFUSES to remove the current leader": it stops the
\* leader only after the lead has moved.
RemovalSparesLeader ==
  [][\A r \in Run : StopTarget(r) /\ leader = target[r] => LeadMoved]_vars

\* "Assert removing this replica leaves a viable cluster", with removals that each
\* count the others' targets: as long as all of them have located the same
\* leader, some member's Patroni keeps running, whatever becomes of the lead.
SomeMemberSurvives ==
  daemon = {} => \E q, r \in Run : /\ {from[q], from[r]} \subseteq Node
                                   /\ from[q] # from[r]

\* The DCS loses the cluster's keys only after the lead has moved.
KeysLostOnlyIfLeadMoved ==
  [][members # {} /\ members' = {} => LeadMoved]_vars

\* "Switchover complete. New leader": a switchover that reports success has replaced
\* the leader it located before its prompt, whatever happened while the prompt stood
\* and whatever else ran; only a change of the lead after its own may undo that.
SwitchoverMovedLeader ==
  \A r \in Run :
    op[r] = "switchover" /\ pc[r] = "done" /\ mover = {r}
      => seen[r] # from[r]

\* "Locate the current topology (leader may be missing)": a failover whose
\* candidate answers gets past it.
FailoverNeedsNoLeader ==
  \A r \in Run :
    op[r] = "failover" /\ pc[r] = "locate" /\ target[r] \in daemon => CanFindLeader

\* "Remove the member from the Patroni DCS" is not refused while the leader is
\* the one the run has located.
RemovalNotRefused ==
  \A r \in Run :
    pc[r] = "unregister" /\ leader = seen[r] => leader \in {NoNode, target[r]}

=============================================================================

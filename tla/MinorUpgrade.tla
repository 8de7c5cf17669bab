---------------------------- MODULE MinorUpgrade ----------------------------
(***************************************************************************)
(* playbooks/minor_upgrade.yml: the rolling minor upgrade, five plays run  *)
(* one after the other against a live Patroni cluster that changes under   *)
(* them.  One action per task (or per task file included from cluster_ops) *)
(* that reads or changes the cluster; the cluster may move between any two.*)
(*                                                                         *)
(*   play 1  gates                      locate, health, confirm            *)
(*   play 2  replicas, serial: 1        locate, pause .. resume, poll      *)
(*   play 3  switch over                locate, handover, poll             *)
(*   play 4  the original primary       locate, pause .. resume, poll      *)
(*   play 5  verify                     locate, health                     *)
(*                                                                         *)
(* Ansible decides what a failure means (external): a host that fails a    *)
(* task of its own leaves the run and the play goes on without it, a       *)
(* failure of a run_once task or of a whole batch ends the run.            *)
(*                                                                         *)
(*   play, pc     where the run is; pc is "done" or "failed" at its end    *)
(*   active       hosts still in the run                                   *)
(*   unreachable  hosts that left it before a fact could be set on them    *)
(*   todo, batch  hosts whose batch has not begun; the host being upgraded *)
(*   seenLeader, candidate   cluster_ops_leader_host and the first of      *)
(*                cluster_ops_replica_hosts, as last located               *)
(*   orig         minor_upgrade_original_primary on the first host         *)
(*   seenChanges  history: `changes` when the leader was last located      *)
(*   restarts     history: how often a PostgreSQL was started              *)
(***************************************************************************)
EXTENDS ClusterOps

VARIABLES play, pc, active, unreachable, todo, batch, seenLeader, candidate,
          orig, seenChanges, restarts

runVars == <<play, pc, active, unreachable, todo, batch, seenLeader, candidate,
             orig, seenChanges>>
vars == <<clusterVars, runVars, restarts>>

MaintenanceTask == {"pause", "stop", "update", "start", "resume"}
Ended == pc \in {"done", "failed"}

TypeOK ==
  /\ ClusterTypeOK
  /\ play \in 1..5
  /\ pc \in MaintenanceTask \cup {"locate", "health", "confirm", "handover", "poll",
                                  "done", "failed"}
  /\ active \in SUBSET Node
  /\ unreachable \in SUBSET Node
  /\ todo \in SUBSET Node
  /\ {batch, seenLeader, candidate, orig} \subseteq Node \cup {NoNode}
  /\ seenChanges \in 0..MaxChanges
  /\ restarts \in Nat

Init ==
  /\ DeployedWith(Node)
  /\ play = 1
  /\ pc = "locate"
  /\ active = Node
  /\ unreachable = {}
  /\ todo = {}
  /\ batch = NoNode
  /\ seenLeader = NoNode
  /\ candidate = NoNode
  /\ orig = NoNode
  /\ seenChanges = 0
  /\ restarts = 0

-----------------------------------------------------------------------------
(***************************************************************************)
(* Moving on.                                                              *)
(***************************************************************************)

Goto(p, l) == play' = p /\ pc' = l

\* serial: 1, order: sorted.  After the last batch comes play 3.
NextBatch(rest) ==
  \/ /\ rest = {}
     /\ Goto(3, "locate") /\ todo' = {} /\ batch' = NoNode
  \/ \E n \in First(rest) :
       Goto(2, "locate") /\ todo' = rest \ {n} /\ batch' = n

\* The run is over: nothing of it changes any more.
Fail == /\ Goto(play, "failed")
        /\ UNCHANGED <<active, unreachable, todo, batch, seenLeader, candidate, orig,
                       seenChanges, restarts>>

-----------------------------------------------------------------------------
(***************************************************************************)
(* Tasks that read the cluster.                                            *)
(***************************************************************************)

\* Play 1 records the leader as the original primary, on every host that was
\* reachable; play 4 reads the first host's copy.
RecordPrimary ==
  /\ play = 1
  /\ Goto(1, "health")
  /\ orig' = IF 1 \in unreachable THEN NoNode ELSE leader
  /\ UNCHANGED <<todo, batch>>

\* Mutant: the batch of the leader goes on.
LeaderBatchGoesOn ==
  play = 2 /\ Goto(2, "pause") /\ UNCHANGED <<todo, batch, orig>>

\* Play 2 ends the batch of the leader.
LeaderEndsBatch ==
  /\ play = 2
  /\ IF batch = leader THEN NextBatch(todo)
                       ELSE Goto(2, "pause") /\ UNCHANGED <<todo, batch>>
  /\ UNCHANGED orig

\* Mutant: play 4 works on the leader of the moment.
OnlyLeaderStays ==
  play = 4 /\ Goto(4, "pause") /\ batch' = leader /\ UNCHANGED <<todo, orig>>

\* Play 4 ends every host but the original primary.
OnlyPrimaryStays ==
  /\ play = 4
  /\ IF orig \in active THEN Goto(4, "pause") /\ batch' = orig
                        ELSE Goto(5, "locate") /\ UNCHANGED batch
  /\ UNCHANGED <<todo, orig>>

\* What each play does with the leader it has located.
AfterLocate ==
  \/ RecordPrimary
  \/ LeaderEndsBatch
  \/ play = 3 /\ Goto(3, "handover") /\ UNCHANGED <<todo, batch, orig>>
  \/ OnlyPrimaryStays
  \/ play = 5 /\ Goto(5, "health") /\ UNCHANGED <<todo, batch, orig>>

\* find_leader.yml
FindLeader ==
  /\ pc = "locate"
  /\ CanFindLeader
  /\ seenLeader' = leader
  /\ candidate' \in IF ReplicaHosts = {} THEN {NoNode} ELSE First(ReplicaHosts)
  /\ seenChanges' = changes
  /\ AfterLocate
  /\ UNCHANGED <<clusterVars, active, unreachable, restarts>>

\* assert_healthy.yml, in play 1 before anything is touched and in play 5 as
\* the verdict of the run.
AssertHealthy ==
  /\ pc = "health"
  /\ Healthy(seenLeader)
  /\ Goto(play, IF play = 1 THEN "confirm" ELSE "done")
  /\ UNCHANGED <<clusterVars, active, unreachable, todo, batch, seenLeader, candidate,
                 orig, seenChanges, restarts>>

\* assert_recent_backup.yml finds a fresh backup and the operator confirms;
\* either may take any time.  Every host still in the run gets a batch.
Confirm ==
  /\ pc = "confirm"
  /\ NextBatch(active)
  /\ UNCHANGED <<clusterVars, active, unreachable, seenLeader, candidate, orig,
                 seenChanges, restarts>>

\* wait_member_converged.yml
PollConverged ==
  /\ pc = "poll"
  /\ Converged(IF play = 3 THEN candidate ELSE batch)
  /\ \/ play = 2 /\ NextBatch(todo)
     \/ play \in {3, 4} /\ Goto(play + 1, "locate") /\ UNCHANGED <<todo, batch>>
  /\ UNCHANGED <<clusterVars, active, unreachable, seenLeader, candidate, orig,
                 seenChanges, restarts>>

-----------------------------------------------------------------------------
(***************************************************************************)
(* Tasks that change the cluster.                                          *)
(***************************************************************************)

\* POST /switchover.  Patroni refuses it when the leader it names does not lead
\* any more, and may promote another member than the candidate it names.
SwitchLeader ==
  /\ pc = "handover"
  /\ candidate # NoNode
  /\ leader = seenLeader
  /\ \E to \in Node \ {leader} : HandOver(to)

\* Mutant: the cluster is not paused.
MaintainManaged ==
  \/ pc = "pause"  /\ UNCHANGED clusterVars
  \/ pc = "stop"   /\ StopPatroni(batch)
  \/ pc = "update" /\ InstallNew(batch)
  \/ pc = "start"  /\ StartPatroni(batch)
  \/ pc = "resume" /\ UNCHANGED clusterVars

\* The five maintenance tasks of plays 2 and 4.
Maintain ==
  \/ pc = "pause"  /\ SetPause(TRUE)
  \/ pc = "stop"   /\ StopPatroni(batch)
  \/ pc = "update" /\ InstallNew(batch)
  \/ pc = "start"  /\ StartPatroni(batch)
  \/ pc = "resume" /\ SetPause(FALSE)

\* Mutants: the cluster is not resumed; it is resumed too early; packages are
\* replaced before the service is stopped.
FollowNoResume(task) ==
  [pause |-> "stop", stop |-> "update", update |-> "start", start |-> "poll",
   resume |-> "poll", handover |-> "poll"][task]
FollowEarlyResume(task) ==
  [pause |-> "stop", stop |-> "update", update |-> "resume", resume |-> "start",
   start |-> "poll", handover |-> "poll"][task]
FollowUpdateFirst(task) ==
  [pause |-> "update", update |-> "stop", stop |-> "start", start |-> "resume",
   resume |-> "poll", handover |-> "poll"][task]

\* The order of the tasks in plays 2 to 4.
Follow(task) == CASE task = "pause"  -> "stop"
                  [] task = "stop"   -> "update"
                  [] task = "update" -> "start"
                  [] task = "start"  -> "resume"
                  [] task \in {"resume", "handover"} -> "poll"

ChangeCluster ==
  /\ Maintain \/ SwitchLeader
  /\ Goto(play, Follow(pc))
  /\ UNCHANGED <<active, unreachable, todo, batch, seenLeader, candidate, orig,
                 seenChanges, restarts>>

-----------------------------------------------------------------------------
(***************************************************************************)
(* Failures.                                                               *)
(***************************************************************************)

\* A host leaves a play that runs on several: gather_facts does not reach it
\* or, in play 1, the package assertions fail on it.  The rest carries on.
HostDrops(n) ==
  /\ pc = "locate"
  /\ play # 2
  /\ n \in active
  /\ active # {n}
  /\ active' = active \ {n}
  /\ \/ unreachable' = unreachable \cup {n}
     \/ play = 1 /\ UNCHANGED unreachable
  /\ UNCHANGED <<clusterVars, play, pc, todo, batch, seenLeader, candidate, orig,
                 seenChanges, restarts>>

\* Mutant: a poll has no limit of retries.
TaskFailsButPoll ==
  /\ pc \notin {"poll", "done", "failed"}
  /\ Maintain \/ SwitchLeader \/ UNCHANGED clusterVars
  /\ Fail

\* Stop, update and start are the old primary's own tasks in play 4: if one
\* fails, the others still verify.  A failed poll is its retries running out; a
\* failed task may or may not have had its effect.
TaskFails ==
  /\ ~Ended
  /\ Maintain \/ SwitchLeader \/ UNCHANGED clusterVars
  /\ IF play = 4 /\ pc \in {"stop", "update", "start"} /\ active # {batch}
       THEN /\ Goto(5, "locate")
            /\ active' = active \ {batch}
            /\ UNCHANGED <<unreachable, todo, batch, seenLeader, candidate, orig,
                           seenChanges, restarts>>
       ELSE Fail

-----------------------------------------------------------------------------
Playbook == FindLeader \/ AssertHealthy \/ Confirm \/ PollConverged \/ ChangeCluster
            \/ TaskFails

ServerStarts == \E n \in Node : pg[n] = "starting" /\ pg'[n] = "recovering"

ClusterMoves ==
  /\ Environment
  /\ restarts' = IF ServerStarts THEN restarts + 1 ELSE restarts
  /\ UNCHANGED runVars

Next == Playbook \/ (\E n \in Node : HostDrops(n)) \/ ClusterMoves

Spec == Init /\ [][Next]_vars

\* Ansible runs to its end: every task returns or is given up (retries times
\* delay, connection timeouts), and the confirmation is answered.
FairSpec == Spec /\ WF_vars(Playbook)

-----------------------------------------------------------------------------
(***************************************************************************)
(* Properties.                                                             *)
(***************************************************************************)

\* Automatic failover is suspended only between a batch's pause and its resume,
\* or after the run has failed in the middle of that: no poll, switchover or
\* later batch of plays 2 to 4 ever finds the cluster paused.  Play 5 does only
\* when the host that was being upgraded has failed and left the run, so that a
\* completion reported of a paused cluster comes with a failed host.
PausedOnlyForMaintenance ==
  paused => \/ pc \in {"stop", "update", "start", "resume"}
            \/ pc = "failed"
            \/ play = 5 /\ batch \in Node \ active

\* At most one member has its Patroni stopped, it is the one being worked on,
\* and the cluster stays paused for as long as it is away, also when the run
\* fails and leaves it like that.
OneMemberAway ==
  /\ Node \ daemon \subseteq {batch}
  /\ daemon # Node => paused

\* If the leader never moved by itself and no host left the run, a run that
\* reports success has upgraded every member and left the cluster managed.
CompleteWhenUndisturbed ==
  pc = "done" /\ changes = 0 /\ active = Node
    => /\ \A n \in Node : installed[n] = "new"
       /\ ~paused

\* "Switch the leader to an already-upgraded replica": under the same
\* conditions the member that is promoted has been upgraded before.
PromotesUpgraded ==
  pc = "handover" /\ changes = 0 /\ active = Node /\ candidate # NoNode
    => installed[candidate] = "new"

\* A batch of play 2 stops the Patroni of the current leader only if the lead
\* moved after that batch located it.
BatchSparesLocatedLeader ==
  [][\A n \in Node : play = 2 /\ n \in daemon \ daemon' /\ leader = n
                       => changes > seenChanges]_vars

\* The run ends, whatever the cluster does meanwhile.
Terminates == <>Ended

\* A replica batch that paused the cluster resumes it before play 2 is over,
\* unless the run fails.
PauseIsTransient ==
  paused /\ play = 2 ~> (~paused /\ play = 2) \/ pc = "failed"

\* A PostgreSQL is started again only because its lead was lost or because the one
\* switchover of the run demotes it, be its packages old or new by then: a Patroni that
\* is stopped in a pause leaves its server running.
OneServerRestarts == restarts <= changes + 1

\* "the upgrade is just `dnf update` + restart, done one node at a time": a run that
\* nothing disturbs ends with every server running what was installed.
CompleteMeansRestarted ==
  pc = "done" /\ changes = 0 /\ active = Node => \A n \in Node : running[n] = "new"

\* assert_healthy.yml accepts a cluster in which the leader leads and every
\* replica streams from it without lag (docs/troubleshooting.md: "one Leader with
\* State=running, rest Replica with State=streaming, Lag=0").
HealthyClusterPasses ==
  ( /\ leader \in daemon
    /\ members = Node
    /\ \A n \in Node : pg[n] = IF n = leader THEN "primary" ELSE "streaming" )
  => Healthy(leader)

\* The service the run gives the cluster while it works: RollingMaintenance.
Maintenance == INSTANCE RollingMaintenance
  WITH suspended <- paused,
       out       <- Node \ daemon,
       upgraded  <- {n \in Node : installed[n] = "new"}

ImplementsMaintenance == Maintenance!Spec

-----------------------------------------------------------------------------
(***************************************************************************)
(* The inductive invariant behind the safety properties.                   *)
(***************************************************************************)

\* Where the program counter can be in each play, and what the maintenance tasks
\* rely on: a resume, that the service of its batch is back; a stop, that every
\* other one is up.
ControlInv ==
  /\ pc \in MaintenanceTask => play \in {2, 4} /\ batch \in Node
  /\ pc \in {"stop", "update", "start", "resume"} => paused
  /\ pc \in {"stop", "resume"} => daemon = Node
  /\ pc \in {"update", "start"} => batch \notin daemon
  /\ pc = "locate" /\ play = 2 => batch \in Node
  /\ pc = "health" => play \in {1, 5}
  /\ pc = "confirm" => play = 1
  /\ pc = "handover" => play = 3
  /\ pc = "poll" => play \in {2, 3, 4}
  /\ pc = "done" => play = 5

\* A batch of play 2 that goes on past the locate is not the leader's, and the
\* lead has not moved since unless it was lost in between.
BatchInv ==
  play = 2 /\ pc \in {"pause", "stop"}
    => /\ seenLeader \in Node \ {batch}
       /\ changes >= seenChanges
       /\ changes = seenChanges => leader = seenLeader

Undisturbed == changes = 0 /\ active = Node /\ pc # "failed"
Upgraded(n) == installed[n] = "new"

\* How far an undisturbed run has got: the original primary leads until play 3
\* hands over, by then every other member is upgraded, and it comes last.
ProgressInv ==
  Undisturbed =>
    /\ unreachable = {}
    /\ play = 1 /\ pc # "locate" => leader \in Node /\ leader = orig
    /\ play = 2 => /\ leader \in Node /\ leader = orig
                   /\ pc # "locate" => batch # orig
                   /\ \A n \in Node \ (todo \cup {orig, batch}) : Upgraded(n)
                   /\ pc \in {"start", "resume", "poll"} => Upgraded(batch)
    /\ play = 3 => /\ orig \in Node
                   /\ \A n \in Node \ {orig} : Upgraded(n)
                   /\ pc # "poll" => leader = orig
                   /\ pc = "handover" => candidate # orig
    /\ play = 4 => /\ orig \in Node
                   /\ \A n \in Node \ {orig} : Upgraded(n)
                   /\ pc # "locate" => batch = orig
                   /\ pc \in {"start", "resume", "poll"} => Upgraded(orig)
    /\ play = 5 => /\ \A n \in Node : Upgraded(n)
                   /\ ~paused

\* While the lead is not lost, its holder is up.  It is the original primary until
\* play 3 hands over, and not any more afterwards; before, no server is down or
\* starts, and after that only the one that was demoted.
Restarted == {n \in Node : pg[n] \in {"down", "starting"} \/ running[n] = "new"}
BeforeHandOver == play \in {1, 2} \/ (play = 3 /\ pc \in {"locate", "handover"})
RestartInv ==
  changes = 0 =>
    /\ leader \in daemon
    /\ \E demoted \in Node : Restarted \subseteq {demoted}
    /\ BeforeHandOver => Restarted = {} /\ orig \in {NoNode, leader}
    /\ play = 4 \/ (play = 3 /\ pc = "poll") => leader # orig
    /\ play = 4 /\ pc \in MaintenanceTask => batch = orig

\* The servers that are down or about to start have lost the lead, or handed it over
\* in play 3, and have not been started since.
Waiting == {n \in Node : pg[n] \in {"down", "starting"}}
StartInv ==
  restarts + Cardinality(Waiting) <= changes + (IF BeforeHandOver THEN 0 ELSE 1)

\* Everything the proofs carry from one state to the next.
Inv == /\ TypeOK
       /\ ControlInv
       /\ PausedOnlyForMaintenance
       /\ OneMemberAway
       /\ BatchInv
       /\ ProgressInv
       /\ RestartInv
       /\ StartInv

=============================================================================

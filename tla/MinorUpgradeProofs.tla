-------------------------- MODULE MinorUpgradeProofs --------------------------
(***************************************************************************)
(* Theorems about MinorUpgrade, for any number of members, any bound on    *)
(* unplanned failovers and either vocabulary of the Patroni REST API.      *)
(***************************************************************************)
EXTENDS MinorUpgrade, ClusterProofs, FiniteSetTheorems

-----------------------------------------------------------------------------
(***************************************************************************)
(* Types.                                                                  *)
(***************************************************************************)

\* Init establishes the types.
LEMMA InitType == Init => TypeOK
<1> SUFFICES ASSUME Init PROVE TypeOK
  OBVIOUS
<1>1. Node \subseteq Nat /\ 0 \in 0..MaxChanges
  BY NAssumption, MaxChangesAssumption DEF Node
<1>2. ClusterTypeOK
  BY <1>1 DEF Init, DeployedWith, ClusterTypeOK, Version
<1>3. play \in 1..5
  BY DEF Init
<1> QED
  BY <1>1, <1>2, <1>3 DEF Init, TypeOK, MaintenanceTask

\* A new batch, or the end of play 2, keeps the types of what it sets.
LEMMA NextBatchType ==
  ASSUME NEW rest \in SUBSET Node, NextBatch(rest)
  PROVE  /\ play' \in {2, 3}
         /\ pc' = "locate"
         /\ todo' \in SUBSET Node
         /\ batch' \in Node \cup {NoNode}
         /\ play' = 2 => batch' \in Node
BY DEF NextBatch, Goto, First

\* A maintenance task has its batch's member for its target.
LEMMA ChangeType ==
  ASSUME TypeOK, ControlInv, Maintain \/ SwitchLeader
  PROVE  ClusterTypeOK'
<1>1. ClusterTypeOK
  BY DEF TypeOK
<1>2. CASE Maintain
  <2>1. pc \in MaintenanceTask
    BY <1>2 DEF Maintain, MaintenanceTask
  <2>2. batch \in Node
    BY <2>1 DEF ControlInv
  <2> QED
    BY <1>1, <1>2, <2>2, OperationType DEF Maintain
<1>3. CASE SwitchLeader
  BY <1>1, <1>3, OperationType DEF SwitchLeader
<1> QED
  BY <1>2, <1>3

\* Every step of the run or of the cluster keeps the types.
LEMMA TypeStep == TypeOK /\ ControlInv /\ [Next]_vars => TypeOK'
<1> SUFFICES ASSUME TypeOK, ControlInv, [Next]_vars PROVE TypeOK'
  OBVIOUS
<1> USE DEF TypeOK, MaintenanceTask
<1>1. CASE FindLeader
  <2>1. ClusterTypeOK' /\ leader \in Node \cup {NoNode} /\ changes \in 0..MaxChanges
    BY <1>1 DEF FindLeader, clusterVars, ClusterTypeOK
  <2>2. candidate' \in Node \cup {NoNode}
    BY <1>1 DEF FindLeader, ReplicaHosts, First, ClusterTypeOK
  <2>3. /\ play' \in 1..5
        /\ pc' \in {"health", "locate", "pause", "handover"}
        /\ todo' \in SUBSET Node
        /\ batch' \in Node \cup {NoNode}
        /\ orig' \in Node \cup {NoNode}
    BY <1>1, <2>1, NextBatchType DEF FindLeader, AfterLocate, RecordPrimary, LeaderEndsBatch, OnlyPrimaryStays, Goto
  <2> QED
    BY <1>1, <2>1, <2>2, <2>3 DEF FindLeader
<1>2. CASE AssertHealthy
  BY <1>2 DEF AssertHealthy, Goto, clusterVars, ClusterTypeOK
<1>3. CASE Confirm
  BY <1>3, NextBatchType DEF Confirm, clusterVars, ClusterTypeOK
<1>4. CASE PollConverged
  BY <1>4, NextBatchType DEF PollConverged, Goto, clusterVars, ClusterTypeOK
<1>5. CASE ChangeCluster
  <2>1. ClusterTypeOK'
    BY <1>5, ChangeType DEF ChangeCluster
  <2>2. pc \in MaintenanceTask \cup {"handover"}
    BY <1>5 DEF ChangeCluster, Maintain, SwitchLeader
  <2> QED
    BY <1>5, <2>1, <2>2 DEF ChangeCluster, Goto, Follow
<1>6. CASE TaskFails
  <2>1. ClusterTypeOK'
    BY <1>6, ChangeType DEF TaskFails, clusterVars, ClusterTypeOK
  <2> QED
    BY <1>6, <2>1 DEF TaskFails, Fail, Goto
<1>7. ASSUME NEW n \in Node, HostDrops(n) PROVE TypeOK'
  BY <1>7 DEF HostDrops, clusterVars, ClusterTypeOK
<1>8. CASE ClusterMoves
  BY <1>8, EnvironmentType DEF ClusterMoves, runVars
<1>9. CASE UNCHANGED vars
  BY <1>9 DEF vars, clusterVars, runVars, ClusterTypeOK
<1> QED
  BY <1>1, <1>2, <1>3, <1>4, <1>5, <1>6, <1>7, <1>8, <1>9 DEF Next, ClusterMoves, Playbook

-----------------------------------------------------------------------------
(***************************************************************************)
(* Control: where the run is, the pause and the members' services.         *)
(***************************************************************************)

Safe == ControlInv /\ PausedOnlyForMaintenance /\ OneMemberAway

\* Nothing has happened yet.
LEMMA InitSafe == Init => Safe
  BY DEF Init, DeployedWith, Safe, ControlInv, PausedOnlyForMaintenance, OneMemberAway,
         MaintenanceTask

\* What the cluster does by itself neither stops a service nor lifts the pause.
LEMMA EnvironmentLeaves ==
  ASSUME TypeOK, Environment
  PROVE  /\ UNCHANGED <<paused, daemon, installed>>
         /\ changes' \in Nat /\ changes \in Nat
         /\ changes' >= changes
         /\ changes' = changes /\ leader \in daemon => leader' = leader
<1>1. changes \in Nat
  BY MaxChangesAssumption DEF TypeOK, ClusterTypeOK
<1> QED
  BY <1>1 DEF Environment, LoseLeader, Elect, Reacquire, Register, ExpireKeys,
              PostgresStarts, Replicate, TypeOK, ClusterTypeOK, Node, NoNode

\* One line for each task that changes the cluster: what becomes of the pause
\* and of the services.  In each case at most the batch is away, and only during
\* a pause.
LEMMA ChangeServices ==
  ASSUME TypeOK, Safe, Maintain \/ SwitchLeader
  PROVE  /\ pc \in MaintenanceTask \cup {"handover"}
         /\ pc = "pause"    => paused' /\ daemon' = Node
         /\ pc = "stop"     => paused' /\ daemon' = Node \ {batch}
         /\ pc = "update"   => paused' /\ daemon' = daemon
         /\ pc = "start"    => paused' /\ daemon' = Node
         /\ pc = "resume"   => ~paused' /\ daemon' = Node
         /\ pc = "handover" => ~paused' /\ daemon' = Node
<1> USE DEF Safe, ControlInv, PausedOnlyForMaintenance, OneMemberAway, MaintenanceTask
<1>1. daemon \in SUBSET Node
  BY DEF TypeOK, ClusterTypeOK
<1>2. CASE pc = "pause" /\ SetPause(TRUE)
  BY <1>2 DEF SetPause
<1>3. CASE pc = "stop" /\ StopPatroni(batch)
  BY <1>3 DEF StopPatroni
<1>4. CASE pc = "update" /\ InstallNew(batch)
  BY <1>4 DEF InstallNew
<1>5. CASE pc = "start" /\ StartPatroni(batch)
  BY <1>1, <1>5 DEF StartPatroni
<1>6. CASE pc = "resume" /\ SetPause(FALSE)
  BY <1>6 DEF SetPause
<1>7. CASE SwitchLeader
  <2>1. pc = "handover" /\ UNCHANGED <<paused, daemon>>
    BY <1>7 DEF SwitchLeader, HandOver, Promote
  <2> QED
    BY <2>1
<1> QED
  BY <1>2, <1>3, <1>4, <1>5, <1>6, <1>7 DEF Maintain

\* Every step keeps the run's control in order.
LEMMA SafeStep == TypeOK /\ Safe /\ [Next]_vars => Safe'
<1> SUFFICES ASSUME TypeOK, Safe, [Next]_vars PROVE Safe'
  OBVIOUS
<1> USE DEF Safe, ControlInv, PausedOnlyForMaintenance, OneMemberAway, MaintenanceTask
<1>1. CASE FindLeader
  <2>1. UNCHANGED <<paused, daemon>>
    BY <1>1 DEF FindLeader, clusterVars
  <2>2. paused => play = 5 /\ play' = 5
    BY <1>1 DEF FindLeader, AfterLocate, RecordPrimary, LeaderEndsBatch, OnlyPrimaryStays, Goto
  <2>3. paused \/ daemon = Node
    OBVIOUS
  <2>4. CASE play = 2
    BY <1>1, <2>1, <2>2, <2>4, NextBatchType DEF FindLeader, AfterLocate, RecordPrimary, LeaderEndsBatch, OnlyPrimaryStays, Goto, TypeOK, ClusterTypeOK
  <2>5. CASE play # 2
    BY <1>1, <2>1, <2>2, <2>3, <2>5 DEF FindLeader, AfterLocate, RecordPrimary, LeaderEndsBatch, OnlyPrimaryStays, Goto, TypeOK, ClusterTypeOK
  <2> QED
    BY <2>4, <2>5
<1>2. CASE AssertHealthy
  BY <1>2 DEF AssertHealthy, Goto, clusterVars
<1>3. CASE Confirm
  BY <1>3, NextBatchType DEF Confirm, clusterVars, TypeOK, ClusterTypeOK
<1>4. CASE PollConverged
  BY <1>4, NextBatchType DEF PollConverged, Goto, clusterVars, TypeOK, ClusterTypeOK
<1>5. CASE ChangeCluster
  BY <1>5, ChangeServices DEF ChangeCluster, Goto, Follow
<1>6. CASE TaskFails
  <2>1. Node \ daemon' \subseteq {batch} /\ (daemon' # Node => paused')
    BY <1>6, ChangeServices DEF TaskFails, clusterVars
  <2> QED
    BY <1>6, <2>1 DEF TaskFails, Fail, Goto
<1>7. ASSUME NEW n \in Node, HostDrops(n) PROVE Safe'
  BY <1>7 DEF HostDrops, clusterVars
<1>8. CASE Environment /\ UNCHANGED runVars
  BY <1>8, EnvironmentLeaves DEF runVars
<1>9. CASE UNCHANGED vars
  BY <1>9 DEF vars, clusterVars, runVars
<1> QED
  BY <1>1, <1>2, <1>3, <1>4, <1>5, <1>6, <1>7, <1>8, <1>9 DEF Next, ClusterMoves, Playbook

-----------------------------------------------------------------------------
(***************************************************************************)
(* A batch of play 2 against the leader it located.                        *)
(***************************************************************************)

\* No batch has begun.
LEMMA InitBatch == Init => BatchInv
  BY DEF Init, BatchInv

\* Between the locate of a batch and its stop the lead can only be lost, never
\* just move: every service is up, so no key expires, and losing it is counted.
LEMMA BatchStep == TypeOK /\ Safe /\ BatchInv /\ [Next]_vars => BatchInv'
<1> SUFFICES ASSUME TypeOK, Safe, BatchInv, [Next]_vars,
                    play' = 2, pc' \in {"pause", "stop"}
             PROVE  /\ seenLeader' \in Node \ {batch'}
                    /\ changes' >= seenChanges'
                    /\ changes' = seenChanges' => leader' = seenLeader'
  BY DEF BatchInv
<1>0. changes \in Nat /\ seenChanges \in Nat
  BY MaxChangesAssumption DEF TypeOK, ClusterTypeOK
<1>1. CASE FindLeader
  <2>1. /\ seenLeader' = leader /\ seenChanges' = changes
        /\ UNCHANGED <<leader, changes>>
        /\ leader \in members
    BY <1>1 DEF FindLeader, CanFindLeader, clusterVars
  <2>2. UNCHANGED batch /\ batch # leader
    BY <1>1, NextBatchType DEF FindLeader, AfterLocate, RecordPrimary, LeaderEndsBatch, OnlyPrimaryStays, Goto, TypeOK, ClusterTypeOK
  <2> QED
    BY <1>0, <2>1, <2>2 DEF TypeOK, ClusterTypeOK
<1>2. CASE AssertHealthy
  BY <1>2 DEF AssertHealthy, Goto
<1>3. CASE Confirm
  BY <1>3, NextBatchType DEF Confirm, TypeOK, ClusterTypeOK
<1>4. CASE PollConverged
  BY <1>4, NextBatchType DEF PollConverged, Goto, TypeOK, ClusterTypeOK
<1>5. CASE ChangeCluster
  <2>1. pc = "pause" /\ SetPause(TRUE)
    BY <1>5, ChangeServices DEF ChangeCluster, Maintain, SwitchLeader, Goto, Follow
  <2> QED
    BY <1>5, <2>1 DEF ChangeCluster, Goto, SetPause, BatchInv
<1>6. CASE TaskFails
  BY <1>6 DEF TaskFails, Fail, Goto
<1>7. ASSUME NEW n \in Node, HostDrops(n) PROVE FALSE
  BY <1>7 DEF HostDrops
<1>8. CASE Environment /\ UNCHANGED runVars
  <2>1. BatchInv /\ play = 2 /\ pc \in {"pause", "stop"}
    BY <1>8 DEF runVars
  <2>2. daemon = Node
    BY <2>1 DEF Safe, ControlInv, OneMemberAway, PausedOnlyForMaintenance
  <2> QED
    BY <1>0, <1>8, <2>1, <2>2, EnvironmentLeaves DEF BatchInv, runVars
<1>9. CASE UNCHANGED vars
  BY <1>9 DEF vars, clusterVars, runVars, BatchInv
<1> QED
  BY <1>1, <1>2, <1>3, <1>4, <1>5, <1>6, <1>7, <1>8, <1>9 DEF Next, ClusterMoves, Playbook

\* A service that stops is the one of the batch, at the task that stops it.
LEMMA OnlyBatchStops ==
  ASSUME TypeOK, Safe, [Next]_vars, NEW n \in daemon \ daemon'
  PROVE  pc = "stop" /\ n = batch
<1>1. CASE Maintain \/ SwitchLeader
  <2>1. daemon \in SUBSET Node
    BY DEF TypeOK, ClusterTypeOK
  <2>2. pc = "stop" /\ daemon' = Node \ {batch}
    BY <1>1, <2>1, ChangeServices DEF Safe, ControlInv, MaintenanceTask
  <2> QED
    BY <2>1, <2>2
<1>2. CASE Environment
  BY <1>2, EnvironmentLeaves
<1>3. CASE UNCHANGED clusterVars
  BY <1>3 DEF clusterVars
<1> QED
  BY <1>1, <1>2, <1>3 DEF Next, ClusterMoves, Playbook, FindLeader, AssertHealthy, Confirm, ChangeCluster,
                          PollConverged, TaskFails, HostDrops, vars

-----------------------------------------------------------------------------
(***************************************************************************)
(* Progress of a run that nothing disturbs.                                *)
(***************************************************************************)

\* Nothing is claimed of play 1 before the leader is located.
LEMMA InitProgress == Init => ProgressInv
  BY DEF Init, ProgressInv

\* Packages are never taken back.
LEMMA UpgradesStay ==
  ASSUME TypeOK, Safe, [Next]_vars, NEW n \in Node, Upgraded(n)
  PROVE  Upgraded(n)'
<1> USE DEF Upgraded
<1>1. CASE Maintain \/ SwitchLeader
  BY <1>1 DEF Maintain, SwitchLeader, HandOver, Promote, SetPause, StopPatroni, StartPatroni,
              InstallNew, TypeOK, ClusterTypeOK
<1>2. CASE Environment
  BY <1>2, EnvironmentLeaves
<1>3. CASE UNCHANGED clusterVars
  BY <1>3 DEF clusterVars
<1> QED
  BY <1>1, <1>2, <1>3 DEF Next, ClusterMoves, Playbook, FindLeader, AssertHealthy, Confirm, ChangeCluster,
                          PollConverged, TaskFails, HostDrops, vars

\* A run that is undisturbed after a step was so before it: losses of the leader
\* are counted, hosts do not come back, and a failed run takes no further step.
LEMMA UndisturbedBefore ==
  ASSUME TypeOK, Safe, [Next]_vars, Undisturbed'
  PROVE  Undisturbed /\ ~TaskFails /\ \A n \in Node : ~HostDrops(n)
<1> USE DEF Undisturbed
<1>1. ASSUME NEW n \in Node, HostDrops(n) PROVE FALSE
  BY <1>1 DEF HostDrops
<1>2. ~TaskFails
  BY DEF TaskFails, Fail, Goto, Safe, ControlInv, MaintenanceTask
<1>3. CASE FindLeader \/ AssertHealthy \/ Confirm \/ PollConverged
  BY <1>1, <1>2, <1>3 DEF FindLeader, AssertHealthy, Confirm, PollConverged, clusterVars
<1>4. CASE ChangeCluster
  BY <1>1, <1>2, <1>4, ChangeServices DEF ChangeCluster, Maintain, SwitchLeader, HandOver,
     Promote, SetPause, StopPatroni, StartPatroni, InstallNew, MaintenanceTask
<1>5. CASE Environment /\ UNCHANGED runVars
  BY <1>1, <1>2, <1>5, EnvironmentLeaves DEF runVars
<1>6. CASE UNCHANGED vars
  BY <1>1, <1>2, <1>6 DEF vars, clusterVars, runVars
<1> QED
  BY <1>1, <1>2, <1>3, <1>4, <1>5, <1>6 DEF Next, ClusterMoves, Playbook

\* The batches that remain, seen from an upgraded rest.
LEMMA NextBatchProgress ==
  ASSUME NEW rest \in SUBSET Node, NextBatch(rest), NEW done \in SUBSET Node,
         Node \ rest \subseteq done
  PROVE  /\ play' = 2 => Node \ (todo' \cup {batch'}) \subseteq done
         /\ play' = 3 => Node \subseteq done
BY DEF NextBatch, Goto, First

\* Every step of an undisturbed run keeps its progress.
LEMMA ProgressStep == TypeOK /\ Safe /\ BatchInv /\ ProgressInv /\ [Next]_vars => ProgressInv'
<1> SUFFICES ASSUME TypeOK, Safe, BatchInv, ProgressInv, [Next]_vars, Undisturbed'
             PROVE  ProgressInv'
  BY DEF ProgressInv
<1>1. Undisturbed /\ ~TaskFails /\ \A n \in Node : ~HostDrops(n)
  BY UndisturbedBefore
<1>2. \A n \in Node : Upgraded(n) => Upgraded(n)'
  BY UpgradesStay
<1>3. CASE FindLeader
  <2>1. UNCHANGED <<leader, installed, paused, unreachable>> /\ leader \in Node
    BY <1>3 DEF FindLeader, CanFindLeader, clusterVars, TypeOK, ClusterTypeOK
  <2>2. CASE play = 1
    BY <1>1, <1>3, <2>1, <2>2 DEF FindLeader, AfterLocate, RecordPrimary, LeaderEndsBatch, OnlyPrimaryStays, Goto, ProgressInv
  <2>3. CASE play = 2
    <3>1. /\ leader = orig /\ UNCHANGED orig
          /\ \A n \in Node \ (todo \cup {orig, batch}) : Upgraded(n)
      BY <1>1, <1>3, <2>3 DEF FindLeader, AfterLocate, RecordPrimary, LeaderEndsBatch, OnlyPrimaryStays, ProgressInv
    <3>2. CASE batch = leader
      <4>1. NextBatch(todo)
        BY <1>3, <2>3, <3>2 DEF FindLeader, AfterLocate, RecordPrimary, LeaderEndsBatch, OnlyPrimaryStays
      <4>2. /\ play' \in {2, 3} /\ pc' = "locate"
            /\ play' = 2 => Node \ (todo' \cup {batch'}) \subseteq Node \ todo
            /\ play' = 3 => Node \subseteq Node \ todo
        BY <4>1, NextBatchType, NextBatchProgress DEF TypeOK
      <4> QED
        BY <1>1, <2>1, <3>1, <3>2, <4>2 DEF ProgressInv, Upgraded
    <3>3. CASE batch # leader
      <4>1. play' = 2 /\ pc' = "pause" /\ UNCHANGED <<todo, batch>>
        BY <1>3, <2>3, <3>3 DEF FindLeader, AfterLocate, RecordPrimary, LeaderEndsBatch, OnlyPrimaryStays, Goto
      <4> QED
        BY <1>1, <2>1, <3>1, <3>3, <4>1 DEF ProgressInv, Upgraded
    <3> QED
      BY <3>2, <3>3
  <2>4. CASE play = 3
    <3>1. play' = 3 /\ pc' = "handover" /\ UNCHANGED orig
      BY <1>3, <2>4 DEF FindLeader, AfterLocate, RecordPrimary, LeaderEndsBatch, OnlyPrimaryStays, Goto
    <3>2. /\ leader = orig /\ orig \in Node
          /\ \A n \in Node \ {orig} : Upgraded(n)
      BY <1>1, <1>3, <2>4 DEF FindLeader, ProgressInv
    <3>3. candidate' # leader
      BY <1>3, <2>1 DEF FindLeader, ReplicaHosts, First, Node, NoNode
    <3> QED
      BY <1>1, <2>1, <3>1, <3>2, <3>3 DEF ProgressInv, Upgraded
  <2>5. CASE play = 4
    BY <1>1, <1>3, <2>1, <2>5 DEF FindLeader, AfterLocate, RecordPrimary, LeaderEndsBatch, OnlyPrimaryStays, Goto, ProgressInv, Undisturbed, Upgraded
  <2>6. CASE play = 5
    BY <1>1, <1>3, <2>1, <2>6 DEF FindLeader, AfterLocate, RecordPrimary, LeaderEndsBatch, OnlyPrimaryStays, Goto, ProgressInv, Upgraded
  <2> QED
    BY <1>3, <2>2, <2>3, <2>4, <2>5, <2>6 DEF FindLeader, AfterLocate, RecordPrimary, LeaderEndsBatch, OnlyPrimaryStays
<1>4. CASE AssertHealthy
  <2>1. /\ UNCHANGED <<play, leader, installed, paused, unreachable, orig>>
        /\ play \in {1, 5}
        /\ pc = "health"
    BY <1>4 DEF AssertHealthy, Goto, clusterVars, Safe, ControlInv
  <2> QED
    BY <1>1, <2>1 DEF ProgressInv, Upgraded
<1>5. CASE Confirm
  <2>1. /\ UNCHANGED <<leader, installed, unreachable, orig>>
        /\ play = 1 /\ pc = "confirm" /\ active = Node
        /\ NextBatch(Node)
    BY <1>1, <1>5 DEF Confirm, clusterVars, Safe, ControlInv, Undisturbed
  <2>2. /\ play' \in {2, 3} /\ pc' = "locate"
        /\ play' = 2 => Node \ (todo' \cup {batch'}) \subseteq {}
        /\ play' = 3 => Node \subseteq {}
    BY <2>1 DEF NextBatch, Goto, First
  <2> QED
    BY <1>1, <2>1, <2>2 DEF ProgressInv, Upgraded
<1>6. CASE PollConverged
  <2>1. /\ UNCHANGED <<leader, installed, paused, unreachable, orig>>
        /\ pc = "poll" /\ pc' = "locate"
    BY <1>6, NextBatchType DEF PollConverged, Goto, clusterVars, TypeOK
  <2>2. CASE play = 2
    <3>1. NextBatch(todo)
      BY <1>6, <2>2 DEF PollConverged
    <3>2. /\ play' \in {2, 3}
          /\ play' = 2 => Node \ (todo' \cup {batch'}) \subseteq Node \ todo
          /\ play' = 3 => Node \subseteq Node \ todo
      BY <3>1, NextBatchType, NextBatchProgress DEF TypeOK
    <3>3. /\ leader \in Node /\ leader = orig
          /\ \A n \in Node \ (todo \cup {orig}) : Upgraded(n)
      BY <1>1, <2>1, <2>2 DEF ProgressInv
    <3> QED
      BY <1>1, <2>1, <3>2, <3>3 DEF ProgressInv, Upgraded
  <2>3. CASE play = 3
    BY <1>1, <1>6, <2>1, <2>3 DEF PollConverged, Goto, ProgressInv, Upgraded
  <2>4. CASE play = 4
    <3>1. ~paused
      BY <2>1, <2>4 DEF Safe, PausedOnlyForMaintenance
    <3>2. play' = 5
      BY <1>6, <2>4 DEF PollConverged, Goto
    <3> QED
      BY <1>1, <2>1, <2>4, <3>1, <3>2 DEF ProgressInv, Upgraded
  <2> QED
    BY <1>6, <2>2, <2>3, <2>4 DEF PollConverged
<1>7. CASE ChangeCluster
  <2>1. UNCHANGED <<play, active, unreachable, todo, batch, candidate, orig>>
    BY <1>7 DEF ChangeCluster, Goto
  <2>2. CASE SwitchLeader
    <3>1. pc = "handover" /\ play = 3 /\ pc' = "poll"
      BY <1>7, <2>2 DEF ChangeCluster, SwitchLeader, Goto, Follow, Safe, ControlInv
    <3> QED
      BY <1>1, <1>2, <2>1, <3>1 DEF ProgressInv, Upgraded
  <2>3. CASE Maintain
    <3>1. /\ play \in {2, 4} /\ batch \in Node
          /\ pc \in MaintenanceTask
          /\ pc' \in {"stop", "update", "start", "resume", "poll"}
          /\ pc' \in {"start", "resume", "poll"} => pc \in {"update", "start", "resume"}
      BY <1>7, <2>3 DEF ChangeCluster, Maintain, Goto, Follow, Safe, ControlInv, MaintenanceTask
    <3>2. UNCHANGED leader
      BY <1>7, <2>3 DEF Maintain, SetPause, StopPatroni, InstallNew, StartPatroni,
                        Safe, ControlInv
    <3>3. pc = "update" => Upgraded(batch)'
      BY <2>1, <2>3, <3>1 DEF Maintain, InstallNew, Upgraded, TypeOK, ClusterTypeOK
    <3> QED
      BY <1>1, <1>2, <2>1, <3>1, <3>2, <3>3 DEF ProgressInv, Upgraded, MaintenanceTask
  <2> QED
    BY <1>7, <2>2, <2>3 DEF ChangeCluster
<1>8. CASE Environment /\ UNCHANGED runVars
  <2>1. UNCHANGED <<paused, daemon, installed>>
    BY <1>8, EnvironmentLeaves
  <2>2. leader \in daemon => leader' = leader
    BY <1>1, <1>8, EnvironmentLeaves DEF Undisturbed
  <2>3. Node \ daemon \subseteq {batch} /\ (daemon # Node => paused)
    BY DEF Safe, OneMemberAway
  <2>4. CASE play = 1 \/ play = 3
    <3>1. pc \notin {"stop", "update", "start", "resume", "failed"}
      BY <1>1, <2>4 DEF Safe, ControlInv, MaintenanceTask, Undisturbed
    <3>2. daemon = Node
      BY <2>3, <2>4, <3>1 DEF Safe, PausedOnlyForMaintenance
    <3> QED
      BY <1>1, <1>8, <2>1, <2>2, <2>4, <3>2 DEF runVars, ProgressInv, Upgraded
  <2>5. CASE play = 2
    <3>1. pc = "locate" => daemon = Node
      BY <2>3, <2>5 DEF Safe, PausedOnlyForMaintenance
    <3>2. leader \in daemon
      BY <1>1, <2>3, <2>5, <3>1 DEF ProgressInv
    <3> QED
      BY <1>1, <1>8, <2>1, <2>2, <2>5, <3>2 DEF runVars, ProgressInv, Upgraded
  <2>6. CASE play = 4 \/ play = 5
    BY <1>1, <1>8, <2>1, <2>6 DEF runVars, ProgressInv, Upgraded
  <2> QED
    BY <2>4, <2>5, <2>6 DEF TypeOK
<1>9. CASE UNCHANGED vars
  BY <1>9 DEF vars, clusterVars, runVars, ProgressInv, Undisturbed, Upgraded
<1> QED
  BY <1>1, <1>3, <1>4, <1>5, <1>6, <1>7, <1>8, <1>9 DEF Next, ClusterMoves, Playbook

-----------------------------------------------------------------------------
(***************************************************************************)
(* Which servers are started again.                                        *)
(***************************************************************************)

\* A cluster just deployed runs what it was deployed with.
LEMMA InitRestart == Init => RestartInv
<1> SUFFICES ASSUME Init PROVE RestartInv
  OBVIOUS
<1>1. leader \in Node /\ daemon = Node /\ Restarted = {} /\ orig = NoNode
  BY DEF Init, DeployedWith, Restarted
<1> QED
  BY <1>1 DEF Init, RestartInv, BeforeHandOver

\* As long as the lead is not lost, its holder keeps it, and the cluster starts no
\* server but one that is starting already.
LEMMA EnvironmentRestarts ==
  ASSUME TypeOK, Environment, leader \in daemon, changes' = 0
  PROVE  /\ changes = 0 /\ UNCHANGED <<leader, daemon>>
         /\ Restarted' \subseteq Restarted
<1>1. changes = 0 /\ UNCHANGED <<leader, daemon>> /\ leader # NoNode
  BY EnvironmentLeaves DEF TypeOK, ClusterTypeOK, Node, NoNode
<1>2. ~LoseLeader /\ \A n \in Node : ~Elect(n) /\ ~Reacquire(n)
  BY <1>1 DEF LoseLeader, Elect, Reacquire
<1>3. ASSUME NEW n \in Node, Register(n) \/ ExpireKeys(n) PROVE UNCHANGED <<pg, running>>
  BY <1>3 DEF Register, ExpireKeys
<1>4. ASSUME NEW n \in Node, PostgresStarts(n) PROVE Restarted' \subseteq Restarted
  BY <1>4 DEF PostgresStarts, Restarted, TypeOK, ClusterTypeOK
<1>5. ASSUME NEW n \in Node, Replicate(n) PROVE Restarted' \subseteq Restarted
  BY <1>5 DEF Replicate, Restarted, TypeOK, ClusterTypeOK
<1> QED
  BY <1>1, <1>2, <1>3, <1>4, <1>5 DEF Environment, Restarted

\* No maintenance task starts a server: the stop finds the cluster paused.
LEMMA MaintainRestarts ==
  ASSUME TypeOK, Safe, Maintain
  PROVE  /\ UNCHANGED <<leader, changes>> /\ Restarted' = Restarted
         /\ daemon' \in {Node, daemon, daemon \ {batch}}
         /\ daemon' # daemon \ {batch} => daemon \subseteq daemon'
         /\ daemon' = daemon \ {batch} /\ daemon' # daemon => pc = "stop"
<1> USE DEF TypeOK, ClusterTypeOK, Restarted
<1>1. CASE pc = "stop" /\ StopPatroni(batch)
  BY <1>1 DEF StopPatroni, Safe, ControlInv
<1>2. CASE pc = "start" /\ StartPatroni(batch)
  <2>1. daemon' = Node
    BY <1>2, ChangeServices
  <2>2. batch \in Node /\ pg' = [pg EXCEPT ![batch] = IF @ = "down" THEN "starting" ELSE @]
        /\ UNCHANGED <<leader, changes, running>>
    BY <1>2 DEF StartPatroni, Safe, ControlInv, MaintenanceTask
  <2> QED
    BY <2>1, <2>2
<1>3. CASE \/ pc = "pause" /\ SetPause(TRUE)
           \/ pc = "update" /\ InstallNew(batch)
           \/ pc = "resume" /\ SetPause(FALSE)
  BY <1>3 DEF SetPause, InstallNew
<1> QED
  BY <1>1, <1>2, <1>3 DEF Maintain

\* The switchover of play 3 starts the server it demotes, and no other.
LEMMA SwitchRestarts ==
  ASSUME TypeOK, SwitchLeader, Restarted = {}
  PROVE  /\ UNCHANGED <<changes, daemon>>
         /\ Restarted' \subseteq {leader}
         /\ leader' \in daemon' /\ leader' # leader
<1>1. PICK to \in Node \ {leader} : HandOver(to)
  BY DEF SwitchLeader
<1> QED
  BY <1>1 DEF HandOver, Promote, Detached, Restarted, TypeOK, ClusterTypeOK

\* Every step keeps track of the servers that were started again.
LEMMA RestartStep == TypeOK /\ Safe /\ BatchInv /\ RestartInv /\ [Next]_vars => RestartInv'
<1> SUFFICES ASSUME TypeOK, Safe, BatchInv, RestartInv, [Next]_vars, changes' = 0
             PROVE  RestartInv'
  BY DEF RestartInv
<1> USE DEF RestartInv, BeforeHandOver, MaintenanceTask
<1>1. CASE FindLeader
  <2>1. /\ UNCHANGED <<leader, daemon, changes>> /\ Restarted' = Restarted
        /\ orig' \in IF play = 1 THEN {NoNode, leader} ELSE {orig}
    BY <1>1 DEF FindLeader, AfterLocate, RecordPrimary, LeaderEndsBatch, OnlyPrimaryStays,
                clusterVars, Restarted
  <2>2. CASE play = 1
    BY <1>1, <2>1, <2>2 DEF FindLeader, AfterLocate, RecordPrimary, LeaderEndsBatch,
       OnlyPrimaryStays, Goto
  <2>3. CASE play = 2
    BY <1>1, <2>1, <2>3, NextBatchType DEF FindLeader, AfterLocate, RecordPrimary,
       LeaderEndsBatch, OnlyPrimaryStays, Goto, TypeOK
  <2>4. CASE play \in {3, 4, 5}
    BY <1>1, <2>1, <2>4 DEF FindLeader, AfterLocate, RecordPrimary, LeaderEndsBatch,
       OnlyPrimaryStays, Goto
  <2> QED
    BY <2>2, <2>3, <2>4 DEF TypeOK
<1>2. CASE AssertHealthy \/ Confirm
  <2>1. UNCHANGED <<leader, daemon, changes, orig>> /\ Restarted' = Restarted
    BY <1>2 DEF AssertHealthy, Confirm, clusterVars, Restarted
  <2>2. play \in {1, 5} /\ play' \in {1, 2, 3, 5} /\ (play = 5 => play' = 5)
        /\ (play' = 3 => pc' = "locate")
    BY <1>2, NextBatchType DEF AssertHealthy, Confirm, Goto, Safe, ControlInv, TypeOK
  <2> QED
    BY <2>1, <2>2
<1>3. CASE PollConverged
  <2>1. UNCHANGED <<leader, daemon, changes, orig>> /\ Restarted' = Restarted
    BY <1>3 DEF PollConverged, clusterVars, Restarted
  <2>2. pc = "poll" /\ pc' = "locate"
        /\ \/ play = 2 /\ play' \in {2, 3}
           \/ play = 3 /\ play' = 4
           \/ play = 4 /\ play' = 5
    BY <1>3, NextBatchType DEF PollConverged, Goto, TypeOK
  <2> QED
    BY <2>1, <2>2
<1>4. CASE (ChangeCluster \/ TaskFails) /\ Maintain
  <2>1. pc \in MaintenanceTask /\ play \in {2, 4}
    BY <1>4 DEF Maintain, Safe, ControlInv
  <2>2. UNCHANGED <<leader, changes>> /\ Restarted' = Restarted
    BY <1>4, MaintainRestarts
  <2>3. ASSUME pc = "stop" PROVE leader # batch
    <3>1. CASE play = 2
      <4>1. changes = seenChanges
        BY <2>2, <2>3, <3>1, MaxChangesAssumption DEF BatchInv, TypeOK
      <4> QED
        BY <2>3, <3>1, <4>1 DEF BatchInv
    <3>2. CASE play = 4
      BY <2>1, <2>2, <3>2
    <3> QED
      BY <2>1, <3>1, <3>2
  <2>4. leader' \in daemon'
    BY <1>4, <2>2, <2>3, MaintainRestarts
  <2>5. UNCHANGED <<orig, batch>>
        /\ \/ play' = play
           \/ play = 4 /\ play' = 5 /\ pc' = "locate"
    BY <1>4, <2>1 DEF ChangeCluster, TaskFails, Fail, Goto
  <2> QED
    BY <2>1, <2>2, <2>4, <2>5
<1>5. CASE (ChangeCluster \/ TaskFails) /\ SwitchLeader
  <2>1. pc = "handover" /\ play = 3
    BY <1>5 DEF SwitchLeader, Safe, ControlInv
  <2>2. changes = 0
    BY <1>5 DEF SwitchLeader, HandOver, Promote
  <2>3. Restarted = {} /\ orig \in {NoNode, leader} /\ leader \in Node
    BY <2>1, <2>2 DEF TypeOK, ClusterTypeOK
  <2>4. Restarted' \subseteq {leader} /\ leader' \in daemon' /\ leader' # leader
    BY <1>5, <2>3, SwitchRestarts
  <2>5. UNCHANGED orig /\ play' = 3 /\ pc' \in {"poll", "failed"}
    BY <1>5, <2>1 DEF ChangeCluster, TaskFails, Fail, Goto, Follow
  <2>6. leader' # NoNode
    BY <2>4, TypeStep DEF TypeOK, ClusterTypeOK, Node, NoNode, Safe
  <2> QED
    BY <2>3, <2>4, <2>5, <2>6
<1>6. CASE TaskFails /\ UNCHANGED clusterVars
  <2>1. UNCHANGED <<leader, daemon, changes>> /\ Restarted' = Restarted
    BY <1>6 DEF clusterVars, Restarted
  <2>2. /\ UNCHANGED <<orig, batch>>
        /\ \/ play' = play /\ pc' = "failed"
           \/ play = 4 /\ play' = 5 /\ pc' = "locate"
    BY <1>6 DEF TaskFails, Fail, Goto
  <2> QED
    BY <2>1, <2>2
<1>7. ASSUME NEW n \in Node, HostDrops(n) PROVE RestartInv'
  BY <1>7 DEF HostDrops, clusterVars, Restarted
<1>8. CASE Environment /\ UNCHANGED runVars
  <2>1. changes = 0
    BY <1>8, EnvironmentLeaves
  <2>2. UNCHANGED <<leader, daemon>> /\ Restarted' \subseteq Restarted
    BY <1>8, <2>1, EnvironmentRestarts
  <2> QED
    BY <1>8, <2>1, <2>2 DEF runVars
<1>9. CASE UNCHANGED vars
  BY <1>9 DEF vars, clusterVars, runVars, Restarted
<1> QED
  BY <1>1, <1>2, <1>3, <1>4, <1>5, <1>6, <1>7, <1>8, <1>9
  DEF Next, ClusterMoves, Playbook, ChangeCluster, TaskFails

-----------------------------------------------------------------------------
(***************************************************************************)
(* How often a server is started.                                          *)
(***************************************************************************)

\* Sets of hosts are finite, and there are at most N of them.
LEMMA HostsFinite ==
  ASSUME NEW S \in SUBSET Node
  PROVE  IsFiniteSet(S) /\ Cardinality(S) \in 0..N
<1>1. IsFiniteSet(Node) /\ Cardinality(Node) = N
  BY NAssumption, FS_Interval DEF Node
<1> QED
  BY <1>1, NAssumption, FS_Subset, FS_CardinalityType

\* How the count of the servers that wait for their start can change.
LEMMA WaitingCount ==
  /\ Cardinality(Waiting) \in Nat
  /\ \A n \in Node : Waiting' \subseteq Waiting \cup {n}
                       => Cardinality(Waiting') <= Cardinality(Waiting) + 1
  /\ \A n \in Waiting : Waiting' = Waiting \ {n}
                          => Cardinality(Waiting') = Cardinality(Waiting) - 1
<1>1. IsFiniteSet(Waiting) /\ Cardinality(Waiting) \in Nat
  BY HostsFinite DEF Waiting
<1>2. ASSUME NEW n \in Node, Waiting' \subseteq Waiting \cup {n}
      PROVE  Cardinality(Waiting') <= Cardinality(Waiting) + 1
  <2>1. /\ IsFiniteSet(Waiting \cup {n})
        /\ Cardinality(Waiting \cup {n}) \in {Cardinality(Waiting), Cardinality(Waiting) + 1}
    BY <1>1, FS_AddElement
  <2>2. IsFiniteSet(Waiting') /\ Cardinality(Waiting') <= Cardinality(Waiting \cup {n})
    BY <1>2, <2>1, FS_Subset
  <2>3. Cardinality(Waiting') \in Nat
    BY <2>2, FS_CardinalityType
  <2> QED
    BY <1>1, <2>1, <2>2, <2>3
<1>3. ASSUME NEW n \in Waiting, Waiting' = Waiting \ {n}
      PROVE  Cardinality(Waiting') = Cardinality(Waiting) - 1
  BY <1>1, <1>3, FS_RemoveElement
<1> QED
  BY <1>1, <1>2, <1>3

\* In a deployed cluster every server is up.
LEMMA InitStart == Init => StartInv
<1> SUFFICES ASSUME Init PROVE StartInv
  OBVIOUS
<1>1. Waiting = {}
  BY DEF Init, DeployedWith, Waiting
<1>2. restarts = 0 /\ changes = 0 /\ BeforeHandOver
  BY DEF Init, DeployedWith, BeforeHandOver
<1> QED
  BY <1>1, <1>2, FS_EmptySet DEF StartInv

\* What the cluster does by itself starts a server that waits, or makes one wait that
\* has lost the lead.
LEMMA EnvironmentStarts ==
  ASSUME TypeOK, Environment
  PROVE  \/ /\ ServerStarts
            /\ \E n \in Waiting : Waiting' = Waiting \ {n}
            /\ changes' = changes
         \/ /\ ~ServerStarts
            /\ \E n \in Node : Waiting' \subseteq Waiting \cup {n}
            /\ changes' = changes + 1
         \/ ~ServerStarts /\ Waiting' = Waiting /\ changes' = changes
<1> USE DEF TypeOK, ClusterTypeOK, Waiting, ServerStarts
<1>1. CASE LoseLeader
  <2>1. leader \in Node /\ changes' = changes + 1
    BY <1>1 DEF LoseLeader
  <2>2. \A n \in Node : /\ n # leader => pg'[n] = Detached(n)
                        /\ pg'[leader] \in {"down", "starting"}
    BY <1>1, <2>1 DEF LoseLeader
  <2>3. ~ServerStarts /\ Waiting' \subseteq Waiting \cup {leader}
    BY <2>1, <2>2 DEF Detached
  <2> QED
    BY <2>1, <2>3
<1>2. ASSUME NEW n \in Node, Elect(n)
      PROVE  ~ServerStarts /\ Waiting' = Waiting /\ changes' = changes
  BY <1>2 DEF Elect
<1>3. ASSUME NEW n \in Node, Reacquire(n) \/ Register(n) \/ ExpireKeys(n)
      PROVE  ~ServerStarts /\ Waiting' = Waiting /\ changes' = changes
  BY <1>3 DEF Reacquire, Register, ExpireKeys
<1>4. ASSUME NEW n \in Node, PostgresStarts(n)
      PROVE  ServerStarts /\ n \in Waiting /\ Waiting' = Waiting \ {n} /\ changes' = changes
  BY <1>4 DEF PostgresStarts
<1>5. ASSUME NEW n \in Node, Replicate(n)
      PROVE  ~ServerStarts /\ Waiting' = Waiting /\ changes' = changes
  BY <1>5 DEF Replicate
<1> QED
  BY <1>1, <1>2, <1>3, <1>4, <1>5 DEF Environment

\* The run makes a server wait only when it hands the lead over, and it does so once.
LEMMA StartStep == TypeOK /\ Safe /\ StartInv /\ [Next]_vars => StartInv'
<1> SUFFICES ASSUME TypeOK, Safe, StartInv, [Next]_vars PROVE StartInv'
  OBVIOUS
<1>0. changes \in Nat /\ restarts \in Nat /\ Cardinality(Waiting) \in Nat
  BY WaitingCount, MaxChangesAssumption DEF TypeOK, ClusterTypeOK
<1>1. CASE ClusterMoves
  <2>1. BeforeHandOver' = BeforeHandOver
    BY <1>1 DEF ClusterMoves, runVars, BeforeHandOver
  <2>2. Environment /\ restarts' = IF ServerStarts THEN restarts + 1 ELSE restarts
    BY <1>1 DEF ClusterMoves
  <2>3. CASE ServerStarts /\ changes' = changes /\ \E n \in Waiting : Waiting' = Waiting \ {n}
    BY <1>0, <2>1, <2>2, <2>3, WaitingCount DEF StartInv
  <2>4. CASE /\ ~ServerStarts /\ changes' = changes + 1
             /\ \E n \in Node : Waiting' \subseteq Waiting \cup {n}
    <3>1. Cardinality(Waiting') <= Cardinality(Waiting) + 1
      BY <2>4, WaitingCount
    <3>2. Cardinality(Waiting') \in Nat
      BY HostsFinite DEF Waiting
    <3> QED
      BY <1>0, <2>1, <2>2, <2>4, <3>1, <3>2 DEF StartInv
  <2>5. CASE ~ServerStarts /\ Waiting' = Waiting /\ changes' = changes
    BY <2>1, <2>2, <2>5 DEF StartInv
  <2> QED
    BY <2>2, <2>3, <2>4, <2>5, EnvironmentStarts
<1>2. CASE (ChangeCluster \/ TaskFails) /\ SwitchLeader
  <2>1. BeforeHandOver /\ ~BeforeHandOver' /\ restarts' = restarts
    BY <1>2 DEF SwitchLeader, Safe, ControlInv, ChangeCluster, TaskFails, Fail, Goto, Follow,
                BeforeHandOver
  <2>2. PICK to \in Node \ {leader} : HandOver(to)
    BY <1>2 DEF SwitchLeader
  <2>3. changes' = changes /\ leader \in Node
    BY <2>2 DEF HandOver, Promote, TypeOK, ClusterTypeOK
  <2>4. Waiting' \subseteq Waiting \cup {leader}
    BY <2>2 DEF HandOver, Promote, Detached, Waiting, TypeOK, ClusterTypeOK
  <2>5. Cardinality(Waiting') <= Cardinality(Waiting) + 1
    BY <2>3, <2>4, WaitingCount
  <2>6. Cardinality(Waiting') \in Nat
    BY HostsFinite DEF Waiting
  <2> QED
    BY <1>0, <2>1, <2>3, <2>5, <2>6 DEF StartInv
<1>3. CASE /\ UNCHANGED <<restarts, changes>> /\ Waiting' = Waiting
           /\ BeforeHandOver' => BeforeHandOver
  BY <1>0, <1>3 DEF StartInv
<1>4. CASE (ChangeCluster \/ TaskFails) /\ Maintain
  <2>1. pc \in MaintenanceTask /\ play \in {2, 4}
    BY <1>4 DEF Maintain, MaintenanceTask, Safe, ControlInv
  <2>2. changes' = changes /\ Waiting' = Waiting
    <3>1. CASE pc = "stop" /\ StopPatroni(batch)
      BY <3>1 DEF StopPatroni, Safe, ControlInv, Waiting
    <3>2. CASE pc = "start" /\ StartPatroni(batch)
      BY <3>2 DEF StartPatroni, Waiting, TypeOK, ClusterTypeOK
    <3>3. CASE \/ pc = "pause" /\ SetPause(TRUE)
               \/ pc = "update" /\ InstallNew(batch)
               \/ pc = "resume" /\ SetPause(FALSE)
      BY <3>3 DEF SetPause, InstallNew, Waiting
    <3> QED
      BY <1>4, <3>1, <3>2, <3>3 DEF Maintain
  <2>3. restarts' = restarts /\ (play' = play \/ (play = 4 /\ play' = 5))
    BY <1>4, <2>1 DEF ChangeCluster, TaskFails, Fail, Goto
  <2>4. BeforeHandOver' => BeforeHandOver
    BY <2>1, <2>3 DEF BeforeHandOver
  <2> QED
    BY <1>3, <2>2, <2>3, <2>4
<1>5. CASE FindLeader \/ AssertHealthy \/ Confirm \/ PollConverged
  <2>1. UNCHANGED <<restarts, changes>> /\ Waiting' = Waiting
    BY <1>5 DEF FindLeader, AssertHealthy, Confirm, PollConverged, clusterVars, Waiting
  <2>2. BeforeHandOver' => BeforeHandOver
    <3>1. CASE FindLeader
      BY <3>1, NextBatchType DEF FindLeader, AfterLocate, RecordPrimary, LeaderEndsBatch,
         OnlyPrimaryStays, Goto, BeforeHandOver, TypeOK
    <3>2. CASE AssertHealthy \/ Confirm
      BY <3>2, NextBatchType DEF AssertHealthy, Confirm, Goto, BeforeHandOver, Safe, ControlInv,
         TypeOK
    <3>3. CASE PollConverged
      BY <3>3, NextBatchType DEF PollConverged, Goto, BeforeHandOver, TypeOK
    <3> QED
      BY <1>5, <3>1, <3>2, <3>3
  <2> QED
    BY <1>3, <2>1, <2>2
<1>6. CASE TaskFails /\ UNCHANGED clusterVars
  <2>1. UNCHANGED <<restarts, changes>> /\ Waiting' = Waiting
    BY <1>6 DEF TaskFails, Fail, clusterVars, Waiting
  <2>2. BeforeHandOver' => BeforeHandOver
    BY <1>6 DEF TaskFails, Fail, Goto, BeforeHandOver
  <2> QED
    BY <1>3, <2>1, <2>2
<1>7. ASSUME NEW n \in Node, HostDrops(n) PROVE StartInv'
  BY <1>3, <1>7 DEF HostDrops, clusterVars, Waiting, BeforeHandOver
<1>8. CASE UNCHANGED vars
  BY <1>3, <1>8 DEF vars, clusterVars, runVars, Waiting, BeforeHandOver
<1> QED
  BY <1>1, <1>2, <1>4, <1>5, <1>6, <1>7, <1>8 DEF Next, Playbook, ChangeCluster, TaskFails

-----------------------------------------------------------------------------
(***************************************************************************)
(* The theorems.                                                           *)
(***************************************************************************)

\* The invariant is inductive, hence holds in every state of every run.
THEOREM Invariant == Spec => []Inv
<1>1. Init => Inv
  BY InitType, InitSafe, InitBatch, InitProgress, InitRestart, InitStart DEF Inv, Safe
<1>2. Inv /\ [Next]_vars => Inv'
  BY TypeStep, SafeStep, BatchStep, ProgressStep, RestartStep, StartStep DEF Inv, Safe
<1> QED
  BY <1>1, <1>2, PTL DEF Spec

\* Type correctness of the rolling upgrade (playbooks/minor_upgrade.yml) and of
\* the cluster under it.
THEOREM TypeCorrect == Spec => []TypeOK
<1>1. Inv => TypeOK
  BY DEF Inv
<1> QED
  BY <1>1, Invariant, PTL

\* Automatic failover is suspended only inside a batch's pause .. resume, or
\* after the run failed there; in play 5 only when the host worked on has failed.
THEOREM PauseConfined == Spec => []PausedOnlyForMaintenance
<1>1. Inv => PausedOnlyForMaintenance
  BY DEF Inv
<1> QED
  BY <1>1, Invariant, PTL

\* At most one member's Patroni is ever stopped by the run, the one being worked
\* on, and the cluster is paused for as long as it is.
THEOREM OneAtATime == Spec => []OneMemberAway
<1>1. Inv => OneMemberAway
  BY DEF Inv
<1> QED
  BY <1>1, Invariant, PTL

\* A replica batch takes the current leader down only if the lead was lost, and
\* won again, after the batch located it.
THEOREM LeaderSpared == Spec => BatchSparesLocatedLeader
<1>1. Inv /\ [Next]_vars
        => [\A n \in Node : play = 2 /\ n \in daemon \ daemon' /\ leader = n
                              => changes > seenChanges]_vars
  <2> SUFFICES ASSUME Inv, [Next]_vars, NEW n \in Node,
                      play = 2, n \in daemon \ daemon', leader = n
               PROVE  changes > seenChanges
    OBVIOUS
  <2>1. pc = "stop" /\ n = batch
    BY OnlyBatchStops DEF Inv, Safe
  <2>2. changes \in Nat /\ seenChanges \in Nat
    BY MaxChangesAssumption DEF Inv, TypeOK, ClusterTypeOK
  <2> QED
    BY <2>1, <2>2 DEF Inv, BatchInv
<1> QED
  BY <1>1, Invariant, PTL DEF Spec, BatchSparesLocatedLeader

\* A run that reports success, with no unplanned failover and no host dropped,
\* has upgraded every member and left the cluster managed by Patroni.
THEOREM UndisturbedCompletes == Spec => []CompleteWhenUndisturbed
<1>1. Inv => CompleteWhenUndisturbed
  BY DEF Inv, TypeOK, ControlInv, MaintenanceTask, ProgressInv, Undisturbed, Upgraded,
         CompleteWhenUndisturbed
<1> QED
  BY <1>1, Invariant, PTL

\* Under the same conditions play 3 promotes an upgraded member.
THEOREM UpgradedPromoted == Spec => []PromotesUpgraded
<1>1. Inv => PromotesUpgraded
  BY DEF Inv, TypeOK, ControlInv, ProgressInv, Undisturbed, Upgraded, PromotesUpgraded
<1> QED
  BY <1>1, Invariant, PTL

\* However often servers are started in a run, old packages or new, each start but one
\* is owed to a loss of the lead: the run itself restarts the one server it demotes.
THEOREM OneRestarts == Spec => []OneServerRestarts
<1>1. Inv => OneServerRestarts
  <2> SUFFICES ASSUME Inv PROVE restarts <= changes + 1
    BY DEF OneServerRestarts
  <2>1. Cardinality(Waiting) \in Nat /\ restarts \in Nat /\ changes \in Nat
    BY HostsFinite, MaxChangesAssumption DEF Waiting, Inv, TypeOK, ClusterTypeOK
  <2> QED
    BY <2>1 DEF Inv, StartInv
<1> QED
  BY <1>1, Invariant, PTL

\* Hence no undisturbed run of a cluster with a replica does what its header says:
\* whenever one completes, all packages are new and some server still runs the old.
THEOREM OldServersRemain ==
  ASSUME N >= 2
  PROVE  Spec => [](pc = "done" /\ changes = 0 /\ active = Node
                      => \E n \in Node : installed[n] = "new" /\ running[n] = "old")
<1>1. Inv => (pc = "done" /\ changes = 0 /\ active = Node
                => \E n \in Node : installed[n] = "new" /\ running[n] = "old")
  <2> SUFFICES ASSUME Inv, pc = "done", changes = 0, active = Node
               PROVE  \E n \in Node : installed[n] = "new" /\ running[n] = "old"
    OBVIOUS
  <2>1. PICK demoted \in Node : \A n \in Node : running[n] = "new" => n = demoted
    BY DEF Inv, RestartInv, Restarted
  <2>2. PICK n \in Node : n # demoted
    BY NAssumption DEF Node
  <2>3. running[n] = "old"
    BY <2>1, <2>2 DEF Inv, TypeOK, ClusterTypeOK, Version
  <2>4. installed[n] = "new"
    BY DEF Inv, TypeOK, ControlInv, MaintenanceTask, ProgressInv, Undisturbed, Upgraded
  <2> QED
    BY <2>3, <2>4
<1> QED
  BY <1>1, Invariant, PTL

\* The playbook implements the abstract rolling maintenance: one member out at a
\* time, only while failover is suspended, packages replaced only there.
THEOREM Refinement == Spec => ImplementsMaintenance
<1>1. Init => Maintenance!Init
  BY DEF Init, DeployedWith, Maintenance!Init
<1>2. Inv /\ [Next]_vars => [Maintenance!Next]_(Maintenance!maintenanceVars)
  <2> SUFFICES ASSUME Inv, [Next]_vars
               PROVE  \/ Maintenance!Next
                      \/ UNCHANGED <<paused, Node \ daemon,
                                     {n \in Node : installed[n] = "new"}>>
    BY DEF Maintenance!maintenanceVars
  <2>1. CASE Maintain \/ SwitchLeader
    <3> USE <2>1 DEF Inv, ControlInv, MaintenanceTask
    <3>1. CASE pc = "pause" /\ SetPause(TRUE)
      <4>1. daemon = Node
        BY <3>1 DEF OneMemberAway, PausedOnlyForMaintenance
      <4>2. Maintenance!Suspend
        BY <3>1, <4>1 DEF SetPause, Maintenance!Suspend
      <4> QED
        BY <4>2 DEF Maintenance!Next
    <3>2. CASE pc = "stop" /\ StopPatroni(batch)
      <4>1. Maintenance!TakeOut(batch)
        BY <3>2 DEF StopPatroni, Maintenance!TakeOut
      <4> QED
        BY <3>2, <4>1 DEF Maintenance!Next
    <3>3. CASE pc = "update" /\ InstallNew(batch)
      <4>1. {n \in Node : installed'[n] = "new"}
              = {n \in Node : installed[n] = "new"} \cup {batch}
        BY <3>3 DEF InstallNew, TypeOK, ClusterTypeOK
      <4>2. batch \in Node \ daemon /\ paused
        BY <3>3
      <4>3. \E n \in Node : Maintenance!Replace(n)
        BY <3>3, <4>1, <4>2 DEF InstallNew, Maintenance!Replace
      <4> QED
        BY <4>3 DEF Maintenance!Next
    <3>4. CASE pc = "start" /\ StartPatroni(batch)
      <4>1. Node \ daemon = {batch}
        BY <3>4 DEF OneMemberAway
      <4>2. Maintenance!PutBack(batch)
        BY <3>4, <4>1, ChangeServices DEF StartPatroni, Maintenance!PutBack
      <4> QED
        BY <3>4, <4>2 DEF Maintenance!Next
    <3>5. CASE pc = "resume" /\ SetPause(FALSE)
      <4>1. Maintenance!Release
        BY <3>5 DEF SetPause, Maintenance!Release
      <4> QED
        BY <4>1 DEF Maintenance!Next
    <3>6. CASE SwitchLeader
      BY <3>6 DEF SwitchLeader, HandOver, Promote
    <3> QED
      BY <2>1, <3>1, <3>2, <3>3, <3>4, <3>5, <3>6 DEF Maintain
  <2>2. CASE Environment \/ UNCHANGED clusterVars
    <3>1. UNCHANGED <<paused, daemon, installed>>
      BY <2>2, EnvironmentLeaves DEF clusterVars, Inv
    <3> QED
      BY <3>1
  <2> QED
    BY <2>1, <2>2 DEF Next, ClusterMoves, Playbook, FindLeader, AssertHealthy, Confirm, PollConverged,
                      ChangeCluster, TaskFails, HostDrops, vars
<1> QED
  BY <1>1, <1>2, Invariant, PTL DEF Spec, ImplementsMaintenance, Maintenance!Spec

-----------------------------------------------------------------------------
(***************************************************************************)
(* One primary.                                                            *)
(***************************************************************************)

\* The tasks of the run keep one primary; the member away is not asked for its
\* vote, but nobody votes while it is.
LEMMA PrimaryStep == TypeOK /\ Safe /\ PrimaryInv /\ [Next]_vars => PrimaryInv'
<1> SUFFICES ASSUME TypeOK, Safe, PrimaryInv, [Next]_vars PROVE PrimaryInv'
  OBVIOUS
<1>1. ClusterTypeOK
  BY DEF TypeOK
<1>2. CASE Maintain
  <2>1. batch \in Node
    BY <1>2 DEF Maintain, MaintenanceTask, Safe, ControlInv
  <2> QED
    BY <1>1, <1>2, <2>1, OperationPrimary DEF Maintain
<1>3. CASE SwitchLeader
  BY <1>1, <1>3, OperationPrimary DEF SwitchLeader
<1>4. CASE Environment
  <2>1. ~paused => NoHiddenPrimary
    BY DEF Safe, OneMemberAway, NoHiddenPrimary
  <2> QED
    BY <1>1, <1>4, <2>1, EnvironmentPrimary
<1>5. CASE UNCHANGED clusterVars
  BY <1>5 DEF clusterVars, PrimaryInv, OnePrimary
<1> QED
  BY <1>2, <1>3, <1>4, <1>5 DEF Next, ClusterMoves, Playbook, FindLeader, AssertHealthy, Confirm,
                                PollConverged, ChangeCluster, TaskFails, HostDrops, vars

\* The leader is the one primary in every state of every run.
LEMMA PrimaryAlways == Spec => []PrimaryInv
<1>1. Init => PrimaryInv
  <2> SUFFICES ASSUME Init PROVE PrimaryInv
    OBVIOUS
  <2> QED
    BY DeployedPrimary DEF Init
<1>2. Inv /\ PrimaryInv /\ [Next]_vars => PrimaryInv'
  BY PrimaryStep DEF Inv, Safe
<1> QED
  BY <1>1, <1>2, Invariant, PTL DEF Spec

\* No split brain: whatever the cluster does during a rolling upgrade and wherever
\* the run fails, two servers are never primary at once.
THEOREM NoSplitBrain == Spec => []OnePrimary
<1>1. PrimaryInv => OnePrimary
  BY DEF PrimaryInv
<1> QED
  BY <1>1, PrimaryAlways, PTL

-----------------------------------------------------------------------------
(***************************************************************************)
(* How far a run gets in a cluster the playbook was not written for.       *)
(***************************************************************************)

\* Before anything is maintained every service and every key is there, and nobody
\* but the leader is a primary; the run is at the gate or has failed.
GateInv ==
  /\ play = 1
  /\ pc \in {"locate", "health", "failed"}
  /\ ~paused /\ daemon = Node /\ members = Node
  /\ \A n \in Node : pg[n] = "primary" => n = leader
  /\ \A n \in Node : installed[n] = "old"

\* A replica that is reported as "streaming" closes the gate.
LEMMA GateRefuses ==
  ASSUME TypeOK, GateInv, ReplicaState = "streaming", N >= 2, NEW asked \in Node
  PROVE  ~Healthy(asked)
<1> SUFFICES ASSUME Healthy(asked) PROVE FALSE
  OBVIOUS
<1>1. PICK n \in Node : n # leader
  BY NAssumption DEF Node
<1>2. n \in ReplicaHosts
  BY <1>1 DEF GateInv, ReplicaHosts
<1>3. pg[n] \in {"primary", "streaming"} /\ RowState(n) = "running"
  BY <1>2 DEF Healthy, BadLag, ReplicaHosts
<1>4. pg[n] = "streaming"
  BY <1>1, <1>3 DEF GateInv
<1> QED
  BY <1>3, <1>4 DEF RowState

\* The gate stays closed whatever the cluster does.
LEMMA GateStep ==
  ASSUME TypeOK, GateInv, ReplicaState = "streaming", N >= 2, [Next]_vars
  PROVE  GateInv'
<1> USE DEF GateInv
<1>1. CASE FindLeader
  BY <1>1 DEF FindLeader, AfterLocate, RecordPrimary, LeaderEndsBatch, OnlyPrimaryStays,
              Goto, clusterVars
<1>2. CASE AssertHealthy
  <2>1. seenLeader \in Node
    BY <1>2 DEF AssertHealthy, Healthy
  <2> QED
    BY <1>2, <2>1, GateRefuses DEF AssertHealthy
<1>3. CASE Confirm \/ PollConverged \/ ChangeCluster
  BY <1>3 DEF Confirm, PollConverged, ChangeCluster, Maintain, SwitchLeader
<1>4. CASE TaskFails
  <2>1. pc \notin MaintenanceTask \cup {"handover"}
    BY DEF MaintenanceTask
  <2>2. UNCHANGED clusterVars
    BY <1>4, <2>1 DEF TaskFails, Maintain, SwitchLeader, MaintenanceTask
  <2>3. play' = play /\ pc' = "failed"
    BY <1>4 DEF TaskFails, Fail, Goto
  <2> QED
    BY <2>2, <2>3 DEF clusterVars
<1>5. ASSUME NEW n \in Node, HostDrops(n) PROVE GateInv'
  BY <1>5 DEF HostDrops, clusterVars
<1>6. CASE Environment /\ UNCHANGED runVars
  <2>1. UNCHANGED <<play, pc, paused, daemon, installed>>
    BY <1>6, EnvironmentLeaves DEF runVars
  <2>2. CASE LoseLeader
    BY <2>1, <2>2 DEF LoseLeader, Detached, TypeOK, ClusterTypeOK
  <2>3. ASSUME NEW n \in Node, Elect(n) \/ Reacquire(n) PROVE GateInv'
    BY <2>1, <2>3 DEF Elect, Reacquire, TypeOK, ClusterTypeOK
  <2>4. ASSUME NEW n \in Node, Register(n) \/ ExpireKeys(n) PROVE GateInv'
    BY <2>1, <2>4 DEF Register, ExpireKeys
  <2>5. ASSUME NEW n \in Node, PostgresStarts(n) \/ Replicate(n) PROVE GateInv'
    BY <2>1, <2>5 DEF PostgresStarts, Replicate, TypeOK, ClusterTypeOK
  <2> QED
    BY <1>6, <2>2, <2>3, <2>4, <2>5 DEF Environment
<1>7. CASE UNCHANGED vars
  BY <1>7 DEF vars, clusterVars, runVars
<1> QED
  BY <1>1, <1>2, <1>3, <1>4, <1>5, <1>6, <1>7 DEF Next, ClusterMoves, Playbook

\* With the word that Patroni 4 uses for a replica that streams, and with any
\* replica at all, no run of minor_upgrade.yml gets past its first health gate
\* (assert_healthy.yml:36): it neither pauses, stops nor upgrades anything.
THEOREM GateClosed ==
  ASSUME ReplicaState = "streaming", N >= 2
  PROVE  Spec => [](/\ play = 1
                    /\ pc \in {"locate", "health", "failed"}
                    /\ ~paused /\ daemon = Node
                    /\ \A n \in Node : installed[n] = "old")
<1>1. Init => GateInv
  <2> SUFFICES ASSUME Init PROVE GateInv
    OBVIOUS
  <2> QED
    BY DEF Init, DeployedWith, GateInv
<1>2. Inv /\ GateInv /\ [Next]_vars => GateInv'
  BY GateStep DEF Inv
<1>3. GateInv => /\ play = 1
                 /\ pc \in {"locate", "health", "failed"}
                 /\ ~paused /\ daemon = Node
                 /\ \A n \in Node : installed[n] = "old"
  BY DEF GateInv
<1> QED
  BY <1>1, <1>2, <1>3, Invariant, PTL DEF Spec

\* In a cluster of one member the batch of play 2 is the leader's, and play 3 finds
\* nobody to hand over to.
LoneInv ==
  /\ play \in 1..3
  /\ play = 2 => pc \in {"locate", "failed"}
  /\ play = 3 => pc \in {"locate", "handover", "failed"}
  /\ pc = "handover" => candidate = NoNode
  /\ \A n \in Node : installed[n] = "old"

\* A run over one member gets no further.
LEMMA LoneStep ==
  ASSUME TypeOK, ControlInv, LoneInv, N = 1, [Next]_vars
  PROVE  LoneInv'
<1> USE DEF LoneInv
<1>1. Node = {1}
  BY DEF Node
<1>2. pc # "poll" /\ play # 4 /\ ~Maintain
  <2>1. play # 4 /\ pc \notin MaintenanceTask \cup {"poll"}
    BY DEF ControlInv, MaintenanceTask
  <2> QED
    BY <2>1 DEF MaintenanceTask, Maintain
<1>3. CASE FindLeader
  <2>1. leader = 1 /\ UNCHANGED installed
    BY <1>1, <1>3 DEF FindLeader, CanFindLeader, clusterVars, TypeOK, ClusterTypeOK
  <2>2. candidate' = NoNode
    BY <1>1, <1>3, <2>1 DEF FindLeader, ReplicaHosts, TypeOK, ClusterTypeOK
  <2>3. play = 2 => batch = leader
    BY <1>1, <1>3, <2>1 DEF FindLeader, ControlInv
  <2>4. \/ play = 1 /\ Goto(1, "health")
        \/ play = 2 /\ NextBatch(todo)
        \/ play = 3 /\ Goto(3, "handover")
    BY <1>3, <2>3 DEF FindLeader, AfterLocate, RecordPrimary, LeaderEndsBatch,
                      OnlyPrimaryStays
  <2>5. play' \in 1..3 /\ pc' \in {"health", "locate", "handover"}
        /\ (play' = 2 => pc' = "locate") /\ (play' = 3 => pc' \in {"locate", "handover"})
    BY <2>4, NextBatchType DEF Goto, TypeOK
  <2> QED
    BY <2>1, <2>2, <2>5
<1>4. CASE AssertHealthy
  BY <1>4 DEF AssertHealthy, Goto, clusterVars, ControlInv
<1>5. CASE Confirm
  BY <1>5, NextBatchType DEF Confirm, TypeOK, clusterVars
<1>6. CASE PollConverged \/ ChangeCluster
  <2>1. pc = "poll" \/ Maintain \/ (pc = "handover" /\ candidate # NoNode)
    BY <1>6 DEF PollConverged, ChangeCluster, SwitchLeader
  <2> QED
    BY <2>1, <1>2
<1>7. CASE TaskFails
  <2>1. UNCHANGED clusterVars
    BY <1>7, <1>2 DEF TaskFails, SwitchLeader
  <2>2. play' = play /\ pc' = "failed"
    BY <1>7, <1>2 DEF TaskFails, Fail, Goto
  <2> QED
    BY <2>1, <2>2 DEF clusterVars
<1>8. ASSUME NEW n \in Node, HostDrops(n) PROVE LoneInv'
  BY <1>8 DEF HostDrops, clusterVars
<1>9. CASE Environment /\ UNCHANGED runVars
  BY <1>9, EnvironmentLeaves DEF runVars
<1>10. CASE UNCHANGED vars
  BY <1>10 DEF vars, clusterVars, runVars
<1> QED
  BY <1>3, <1>4, <1>5, <1>6, <1>7, <1>8, <1>9, <1>10 DEF Next, ClusterMoves, Playbook

\* A cluster of one member (the profiles spof and aio, whose examples mention `make
\* minor-upgrade`) is never upgraded: every run fails before the packages change.
THEOREM LoneMemberStaysOld ==
  ASSUME N = 1
  PROVE  Spec => [](pc # "done" /\ \A n \in Node : installed[n] = "old")
<1>1. Init => LoneInv
  BY DEF Init, DeployedWith, LoneInv
<1>2. Inv /\ LoneInv /\ [Next]_vars => LoneInv'
  BY LoneStep DEF Inv
<1>3. Inv /\ LoneInv => pc # "done" /\ \A n \in Node : installed[n] = "old"
  BY DEF Inv, LoneInv, ControlInv
<1> QED
  BY <1>1, <1>2, <1>3, Invariant, PTL DEF Spec

-----------------------------------------------------------------------------
(***************************************************************************)
(* How long a run can be: the measure behind Terminates.                   *)
(***************************************************************************)

\* The tasks a play or batch may still have before it.
TasksLeft ==
  IF pc = "locate" THEN 7
  ELSE IF pc \in {"pause", "health", "handover"} THEN 6
  ELSE IF pc \in {"stop", "confirm"} THEN 5
  ELSE IF pc = "update" THEN 4
  ELSE IF pc = "start" THEN 3
  ELSE IF pc = "resume" THEN 2
  ELSE IF pc = "poll" THEN 1
  ELSE 0

\* The plays and batches that may still begin.
PlaysLeft ==
  IF play = 1 THEN Cardinality(active) + 3
  ELSE IF play = 2 THEN Cardinality(todo) + 3
  ELSE 5 - play

Work == 8 * PlaysLeft + TasksLeft

\* The measure is a natural number below a bound that depends on the members only.
LEMMA WorkType ==
  ASSUME TypeOK
  PROVE  /\ PlaysLeft \in Nat /\ TasksLeft \in 0..7
         /\ Work \in 0..(8 * N + 31)
<1>1. Cardinality(active) \in 0..N /\ Cardinality(todo) \in 0..N /\ play \in 1..5
  BY HostsFinite DEF TypeOK
<1>2. PlaysLeft \in 0..(N + 3)
  BY <1>1, NAssumption DEF PlaysLeft
<1>3. TasksLeft \in 0..7
  BY DEF TasksLeft
<1> QED
  BY <1>2, <1>3, NAssumption DEF Work

\* A new batch takes one from those that wait.
LEMMA BatchWork ==
  ASSUME NEW rest \in SUBSET Node, NextBatch(rest)
  PROVE  Work' = 8 * (Cardinality(rest) + 3) - 1
<1>1. IsFiniteSet(rest) /\ Cardinality(rest) \in Nat
  BY HostsFinite
<1>2. CASE rest = {} /\ Goto(3, "locate")
  BY <1>2, FS_EmptySet DEF Goto, Work, PlaysLeft, TasksLeft
<1>3. ASSUME NEW n \in First(rest), Goto(2, "locate") /\ todo' = rest \ {n}
      PROVE  Work' = 8 * (Cardinality(rest) + 3) - 1
  <2>1. n \in rest
    BY DEF First
  <2>2. Cardinality(todo') = Cardinality(rest) - 1
    BY <1>1, <1>3, <2>1, FS_RemoveElement
  <2> QED
    BY <1>1, <1>3, <2>2 DEF Goto, Work, PlaysLeft, TasksLeft
<1> QED
  BY <1>2, <1>3 DEF NextBatch

\* Every task of the playbook takes from the measure, whatever its outcome.
LEMMA PlaybookWorks ==
  ASSUME TypeOK, ControlInv, Playbook
  PROVE  Work' < Work
<1>1. /\ Cardinality(active) \in Nat /\ Cardinality(todo) \in Nat
      /\ active \in SUBSET Node /\ todo \in SUBSET Node /\ play \in 1..5
  BY HostsFinite DEF TypeOK
<1> USE DEF Goto, Work, PlaysLeft, TasksLeft
<1>2. CASE FindLeader
  <2>1. pc = "locate" /\ UNCHANGED active
    BY <1>2 DEF FindLeader
  <2>2. CASE play = 2 /\ NextBatch(todo)
    BY <1>1, <2>1, <2>2, BatchWork
  <2>3. CASE pc' \in {"health", "pause", "handover"} /\ play' = play /\ todo' = todo
    BY <1>1, <2>1, <2>3
  <2>4. CASE play = 4 /\ play' = 5 /\ pc' = "locate"
    BY <1>1, <2>1, <2>4
  <2> QED
    BY <1>2, <2>2, <2>3, <2>4
    DEF FindLeader, AfterLocate, RecordPrimary, LeaderEndsBatch, OnlyPrimaryStays
<1>3. CASE AssertHealthy
  <2>1. /\ pc = "health" /\ pc' \in {"confirm", "done"}
        /\ UNCHANGED <<play, active, todo>>
    BY <1>3 DEF AssertHealthy
  <2> QED
    BY <1>1, <2>1
<1>4. CASE Confirm
  <2>1. pc = "confirm" /\ play = 1 /\ NextBatch(active)
    BY <1>4 DEF Confirm, ControlInv
  <2> QED
    BY <1>1, <2>1, BatchWork
<1>5. CASE PollConverged
  <2>1. /\ pc = "poll"
        /\ \/ play = 2 /\ NextBatch(todo)
           \/ play \in {3, 4} /\ play' = play + 1 /\ pc' = "locate"
    BY <1>5 DEF PollConverged
  <2> QED
    BY <1>1, <2>1, BatchWork
<1>6. CASE ChangeCluster
  <2>1. pc \in MaintenanceTask \cup {"handover"}
    BY <1>6 DEF ChangeCluster, Maintain, SwitchLeader, MaintenanceTask
  <2>2. pc' = Follow(pc) /\ UNCHANGED <<play, active, todo>>
    BY <1>6 DEF ChangeCluster
  <2>3. TasksLeft' < TasksLeft
    BY <2>1, <2>2 DEF MaintenanceTask, Follow
  <2>4. PlaysLeft' = PlaysLeft /\ PlaysLeft \in Nat
    BY <1>1, <2>2
  <2> QED
    BY <2>3, <2>4, WorkType
<1>7. CASE TaskFails
  <2>1. pc \notin {"done", "failed"}
    BY <1>7 DEF TaskFails, Ended
  <2>2. CASE play = 4 /\ play' = 5 /\ pc \in {"stop", "update", "start"} /\ pc' = "locate"
    BY <2>2
  <2>3. CASE pc' = "failed" /\ UNCHANGED <<play, active, todo>>
    <3>1. TasksLeft' = 0 /\ TasksLeft > 0
      BY <2>1, <2>3 DEF TypeOK, MaintenanceTask
    <3>2. PlaysLeft' = PlaysLeft /\ PlaysLeft \in Nat
      BY <1>1, <2>3
    <3> QED
      BY <3>1, <3>2, WorkType
  <2> QED
    BY <1>7, <2>2, <2>3 DEF TaskFails, Fail
<1> QED
  BY <1>2, <1>3, <1>4, <1>5, <1>6, <1>7 DEF Playbook

\* Nothing else adds to it: a host that leaves the run takes its batch with it, and
\* what the cluster does changes nothing of the run.
LEMMA OthersLeaveWork ==
  ASSUME TypeOK, \/ \E n \in Node : HostDrops(n)
                 \/ Environment /\ UNCHANGED runVars
                 \/ UNCHANGED vars
  PROVE  Work' <= Work
<1>1. Work \in Nat /\ play \in 1..5 /\ Cardinality(active) \in Nat
  BY WorkType, HostsFinite, NAssumption DEF TypeOK
<1>2. ASSUME NEW n \in Node, HostDrops(n) PROVE Work' <= Work
  <2>1. active' = active \ {n} /\ n \in active /\ UNCHANGED <<play, pc, todo>> /\ play # 2
    BY <1>2 DEF HostDrops
  <2>2. Cardinality(active') = Cardinality(active) - 1
    BY <2>1, HostsFinite, FS_RemoveElement DEF TypeOK
  <2> QED
    BY <1>1, <2>1, <2>2, WorkType DEF Work, PlaysLeft, TasksLeft
<1>3. CASE UNCHANGED <<play, pc, active, todo>>
  BY <1>1, <1>3 DEF Work, PlaysLeft, TasksLeft
<1> QED
  BY <1>2, <1>3 DEF runVars, vars

\* A run of minor_upgrade.yml has at most 8N + 31 tasks, whichever of them fail and
\* whatever the cluster does between them: each takes from a natural number that
\* nothing adds to.  With fairness of the playbook this is why it Terminates.
THEOREM RunsOut ==
  Spec => /\ [](Work \in 0..(8 * N + 31))
          /\ [][IF Playbook THEN Work' < Work ELSE Work' <= Work]_vars
<1>1. Inv => Work \in 0..(8 * N + 31)
  BY WorkType DEF Inv
<1>2. Inv /\ [Next]_vars => [IF Playbook THEN Work' < Work ELSE Work' <= Work]_vars
  <2> SUFFICES ASSUME Inv, [Next]_vars
               PROVE  IF Playbook THEN Work' < Work ELSE Work' <= Work
    OBVIOUS
  <2>1. CASE Playbook
    BY <2>1, PlaybookWorks DEF Inv
  <2>2. CASE ~Playbook
    BY <2>2, OthersLeaveWork DEF Next, ClusterMoves, Inv
  <2> QED
    BY <2>1, <2>2
<1> QED
  BY <1>1, <1>2, Invariant, PTL DEF Spec

=============================================================================

-------------------------- MODULE OperatorRunsProofs --------------------------
(***************************************************************************)
(* Theorems about OperatorRuns, for any number of members, of overlapping  *)
(* runs and of unplanned failovers, and either vocabulary.                 *)
(***************************************************************************)
EXTENDS OperatorRuns, ClusterProofs

-----------------------------------------------------------------------------
(***************************************************************************)
(* The inductive invariant.                                                *)
(***************************************************************************)

\* Which playbook a task belongs to, and what the run has located by then.
RunInv ==
  \A r \in Run :
    /\ target[r] = NoNode => op[r] = "switchover"
    /\ pc[r] = "health" => op[r] \in {"switchover", "add"}
    /\ pc[r] \in {"probe", "bootstrap", "join"} => op[r] = "add"
    /\ pc[r] \in {"check", "stop", "unregister"} => op[r] = "remove"
    /\ pc[r] \in {"probe", "locate"} => from[r] = NoNode
    /\ pc[r] \in {"health", "choose", "request", "check"} => seen[r] \in Node /\ from[r] = seen[r]
    /\ pc[r] \in {"stop", "unregister"} => from[r] \in Node /\ target[r] \in Node \ {from[r]}

\* No playbook here pauses the cluster, so that a leader that is stopped gives
\* its key up.
LeaderUp == ~paused /\ leader \in daemon \cup {NoNode}

\* Until the lead moves, every run has located the one leader.
UnmovedInv ==
  ~LeadMoved => /\ leader \in daemon \cap members
                /\ \A r \in Run : from[r] \in {NoNode, leader}

LeadersDiffer == \E q, r \in Run : {from[q], from[r]} \subseteq Node /\ from[q] # from[r]

\* Nobody stops a member before some run has located a leader; nobody stops the
\* leader that all of them have located.
SurvivorInv ==
  \/ LeadersDiffer
  \/ /\ daemon # {}
     /\ \A r \in Run : from[r] \in daemon \cup {NoNode}

\* A switchover that was the last to change the lead: the leader is another one than
\* it located.
SwitchoverInv ==
  \A r \in Run : op[r] = "switchover" /\ mover = {r} =>
    /\ pc[r] \in {"poll", "relocate", "verify", "done"} => leader \in daemon \ {from[r]}
    /\ pc[r] \in {"verify", "done"} => seen[r] # from[r]

Inv == TypeOK /\ RunInv /\ LeaderUp /\ UnmovedInv /\ SurvivorInv /\ SwitchoverInv

-----------------------------------------------------------------------------
(***************************************************************************)
(* Types and control.                                                      *)
(***************************************************************************)

\* A deployed cluster on which no run has started.
LEMMA InitInv == Init => Inv
<1> SUFFICES ASSUME Init PROVE Inv
  OBVIOUS
<1>1. /\ Node \subseteq Nat /\ NoNode \notin Node /\ 0 \in 0..MaxChanges
  BY NAssumption, MaxChangesAssumption DEF Node, NoNode
<1>2. PICK joined \in SUBSET Node : DeployedWith(joined)
  BY DEF Init
<1>3. ClusterTypeOK /\ leader \in daemon \cap members /\ ~paused /\ changes = 0
  BY <1>1, <1>2 DEF DeployedWith, ClusterTypeOK, Version
<1>4. TypeOK
  BY <1>3 DEF Init, TypeOK, Label
<1>5. RunInv
  BY DEF Init, RunInv
<1>6. LeaderUp /\ UnmovedInv /\ SurvivorInv
  BY <1>3 DEF Init, LeaderUp, UnmovedInv, SurvivorInv
<1>7. SwitchoverInv
  BY <1>3 DEF Init, SwitchoverInv
<1> QED
  BY <1>4, <1>5, <1>6, <1>7 DEF Inv

\* What each task that changes the cluster does to the lead, to the services and
\* to the keys.
LEMMA EffectOnCluster ==
  ASSUME TypeOK, RunInv, LeaderUp, NEW r \in Run, Effect(r)
  PROVE  /\ ClusterTypeOK' /\ LeaderUp' /\ changes' = changes
         /\ pc[r] \in {"request", "stop", "unregister", "bootstrap"}
         /\ pc[r] = "request" => /\ op[r] \in {"switchover", "failover"}
                                 /\ daemon' = daemon /\ members' = members
                                 /\ op[r] = "switchover" => /\ leader = seen[r]
                                                            /\ leader' \in daemon \ {leader}
         /\ pc[r] = "stop" => /\ daemon' = daemon \ {target[r]} /\ members' = members
                              /\ leader # target[r] => leader' = leader
         /\ pc[r] = "unregister" => daemon' = daemon /\ leader \in {NoNode, target[r]}
         /\ pc[r] = "bootstrap" => /\ daemon \subseteq daemon' /\ members \subseteq members'
                                   /\ leader' = leader
<1>1. ClusterTypeOK /\ daemon \subseteq Node
  BY DEF TypeOK, ClusterTypeOK
<1>2. CASE RequestLeader(r)
  <2>1. PICK to \in Node : /\ HandOver(to) \/ FailOver(to)
                           /\ op[r] = "switchover" => leader = seen[r] /\ to # leader
    BY <1>1, <1>2 DEF RequestLeader, FailOver, Promote
  <2>2. ClusterTypeOK'
    BY <1>1, <2>1, OperationType
  <2>3. /\ to \in daemon /\ leader' = to
        /\ UNCHANGED <<paused, daemon, members, changes>>
    BY <2>1 DEF HandOver, FailOver, Promote
  <2>4. pc[r] = "request" /\ op[r] \in {"switchover", "failover"}
    BY <1>2 DEF RequestLeader
  <2> QED
    BY <2>1, <2>2, <2>3, <2>4 DEF LeaderUp
<1>3. CASE StopTarget(r)
  <2>1. target[r] \in Node /\ pc[r] = "stop" /\ StopPatroni(target[r])
    BY <1>3 DEF StopTarget, RunInv
  <2>2. ClusterTypeOK'
    BY <1>1, <2>1, OperationType
  <2> QED
    BY <2>1, <2>2 DEF StopPatroni, LeaderUp
<1>4. CASE Unregister(r)
  <2>1. target[r] \in Node /\ pc[r] = "unregister" /\ RemoveCluster(target[r])
    BY <1>4 DEF Unregister, RunInv
  <2>2. ClusterTypeOK'
    BY <1>1, <2>1, OperationType
  <2> QED
    BY <2>1, <2>2 DEF RemoveCluster, LeaderUp
<1>5. CASE Bootstrap(r)
  <2>1. target[r] \in Node /\ pc[r] = "bootstrap" /\ StartPatroni(target[r])
    BY <1>5 DEF Bootstrap, RunInv, TypeOK
  <2>2. ClusterTypeOK'
    BY <1>1, <2>1, OperationType
  <2> QED
    BY <2>1, <2>2 DEF StartPatroni, LeaderUp
<1> QED
  BY <1>2, <1>3, <1>4, <1>5 DEF Effect

\* Tasks that only read the cluster.
Reads(r) == Probe(r) \/ Locate(r) \/ Relocate(r) \/ AssertHealthy(r) \/ ChooseCandidate(r)
            \/ CheckRemoval(r) \/ AwaitJoin(r) \/ PollConverged(r)

\* A step is a task that reads, one that changes the cluster, one that fails, or a
\* step of the cluster.
LEMMA StepCases ==
  ASSUME [Next]_vars
  PROVE  \/ \E r \in Run : Reads(r) \/ ChangeCluster(r) \/ TaskFails(r)
         \/ ClusterMoves
         \/ UNCHANGED vars
BY DEF Next, Playbook, Reads

\* Reading changes nothing of the cluster.
LEMMA ReadsOnly ==
  ASSUME NEW r \in Run, Reads(r)
  PROVE  UNCHANGED clusterVars /\ UNCHANGED history /\ UNCHANGED op
BY DEF history, Reads, Probe, Locate, Relocate, AssertHealthy, ChooseCandidate, CheckRemoval,
       AwaitJoin, PollConverged

\* The facts a run sets are members, and the next task is one.
LEMMA ReadsType ==
  ASSUME TypeOK, NEW r \in Run, Reads(r)
  PROVE  TypeOK'
<1> USE DEF TypeOK, Label, Goto
<1>1. ClusterTypeOK' /\ UNCHANGED <<moved, mover>>
  BY ReadsOnly DEF clusterVars, history, ClusterTypeOK
<1>2. ReplicaHosts \subseteq Node /\ (CanFindLeader => leader \in Node)
  BY DEF ReplicaHosts, CanFindLeader, ClusterTypeOK
<1>3. CASE Probe(r) \/ AssertHealthy(r) \/ CheckRemoval(r) \/ AwaitJoin(r) \/ PollConverged(r)
  BY <1>1, <1>3 DEF Probe, AssertHealthy, CheckRemoval, AwaitJoin, PollConverged
<1>4. CASE Locate(r)
  <2>1. op[r] \in Operation
    OBVIOUS
  <2> QED
    BY <1>1, <1>2, <1>4, <2>1 DEF Locate, Operation
<1>5. CASE Relocate(r)
  BY <1>1, <1>2, <1>5 DEF Relocate
<1>6. CASE ChooseCandidate(r)
  <2>1. PICK c \in Node : target' = [target EXCEPT ![r] = c]
    BY <1>6 DEF ChooseCandidate, First
  <2> QED
    BY <1>1, <1>6, <2>1 DEF ChooseCandidate
<1> QED
  BY <1>3, <1>4, <1>5, <1>6 DEF Reads

\* Every step keeps the types, and the leader's Patroni.
LEMMA TypeStep ==
  ASSUME TypeOK, RunInv, LeaderUp, [Next]_vars
  PROVE  TypeOK' /\ LeaderUp'
<1>1. ASSUME NEW r \in Run, Reads(r) PROVE TypeOK' /\ LeaderUp'
  BY <1>1, ReadsType, ReadsOnly DEF LeaderUp, clusterVars
<1>2. ASSUME NEW r \in Run, ChangeCluster(r) PROVE TypeOK' /\ LeaderUp'
  <2>1. ClusterTypeOK' /\ LeaderUp' /\ pc[r] \in {"request", "stop", "unregister", "bootstrap"}
    BY <1>2, EffectOnCluster DEF ChangeCluster
  <2>2. moved' \in BOOLEAN /\ mover' \subseteq Run
    BY <1>2 DEF ChangeCluster, Effect, TypeOK
  <2> QED
    BY <1>2, <2>1, <2>2 DEF ChangeCluster, Goto, TypeOK, Label
<1>3. ASSUME NEW r \in Run, TaskFails(r) PROVE TypeOK' /\ LeaderUp'
  <2>1. ClusterTypeOK' /\ LeaderUp'
    BY <1>3, EffectOnCluster DEF TaskFails, clusterVars, LeaderUp, TypeOK, ClusterTypeOK
  <2>2. moved' \in BOOLEAN /\ mover' \subseteq Run
    BY <1>3 DEF TaskFails, Effect, TypeOK, history
  <2> QED
    BY <1>3, <2>1, <2>2 DEF TaskFails, Goto, TypeOK, Label
<1>4. CASE ClusterMoves
  <2>1. ClusterTypeOK
    BY DEF TypeOK
  <2>2. ClusterTypeOK' /\ LeaderUp'
    BY <1>4, <2>1, EnvironmentType, EnvironmentSparesLeader DEF LeaderUp, ClusterMoves
  <2> QED
    BY <1>4, <2>2 DEF TypeOK, runVars, ClusterMoves
<1>5. CASE UNCHANGED vars
  BY <1>5 DEF vars, clusterVars, runVars, history, TypeOK, ClusterTypeOK, LeaderUp
<1> QED
  BY <1>1, <1>2, <1>3, <1>4, <1>5, StepCases

\* Every step keeps the runs' control in order.
LEMMA RunStep ==
  ASSUME TypeOK, RunInv, [Next]_vars
  PROVE  RunInv'
<1> USE DEF TypeOK, RunInv, Goto
<1>1. ASSUME NEW r \in Run, Reads(r) PROVE RunInv'
  <2>1. CASE Probe(r) \/ AwaitJoin(r) \/ PollConverged(r)
    BY <2>1 DEF Probe, AwaitJoin, PollConverged
  <2>2. CASE AssertHealthy(r)
    BY <2>2 DEF AssertHealthy
  <2>4. CASE CheckRemoval(r)
    BY <2>4 DEF CheckRemoval
  <2>5. CASE Locate(r)
    <3>1. leader \in Node
      BY <2>5 DEF Locate, CanFindLeader, ClusterTypeOK
    <3>2. \/ op[r] \in {"switchover", "add"} /\ pc' = [pc EXCEPT ![r] = "health"]
          \/ op[r] = "failover" /\ pc' = [pc EXCEPT ![r] = "request"]
          \/ op[r] = "remove" /\ pc' = [pc EXCEPT ![r] = "check"]
      BY <2>5 DEF Locate, Operation
    <3> QED
      BY <2>5, <3>1, <3>2 DEF Locate
  <2>6. CASE Relocate(r)
    BY <2>6 DEF Relocate
  <2>3. CASE ChooseCandidate(r)
    <3>1. PICK c \in Node : target' = [target EXCEPT ![r] = c]
      BY <2>3 DEF ChooseCandidate, First
    <3>2. NoNode \notin Node
      BY DEF NoNode, Node
    <3> QED
      BY <2>3, <3>1, <3>2 DEF ChooseCandidate
  <2> QED
    BY <1>1, <2>1, <2>2, <2>3, <2>4, <2>5, <2>6 DEF Reads
<1>2. ASSUME NEW r \in Run, ChangeCluster(r) PROVE RunInv'
  BY <1>2 DEF ChangeCluster, Effect, RequestLeader, StopTarget, Unregister, Bootstrap
<1>3. ASSUME NEW r \in Run, TaskFails(r) PROVE RunInv'
  BY <1>3 DEF TaskFails
<1>4. CASE UNCHANGED runVars
  BY <1>4 DEF runVars
<1> QED
  BY <1>1, <1>2, <1>3, <1>4, StepCases DEF vars, ClusterMoves

-----------------------------------------------------------------------------
(***************************************************************************)
(* The lead.                                                               *)
(***************************************************************************)

\* What a task does to what a run has located before acting: nothing, or it
\* locates the leader for the first time.
LEMMA FromStep ==
  ASSUME TypeOK, RunInv, NEW r \in Run, Reads(r)
  PROVE  \/ from' = from
         \/ /\ from[r] = NoNode /\ leader \in Node /\ leader \in members
            /\ from' = [from EXCEPT ![r] = leader]
<1>1. CanFindLeader => leader \in Node /\ leader \in members
  BY DEF CanFindLeader, TypeOK, ClusterTypeOK
<1> QED
  BY <1>1 DEF Reads, Probe, Locate, Relocate, AssertHealthy, ChooseCandidate, CheckRemoval,
              AwaitJoin, PollConverged, RunInv

\* A run is remembered for the change of the lead that its task made.
LEMMA MoveRemembered ==
  ASSUME TypeOK, RunInv, LeaderUp, NEW r \in Run, ChangeCluster(r) \/ TaskFails(r)
  PROVE  /\ changes' = changes
         /\ \/ leader' = leader /\ moved' = moved /\ mover' = mover
            \/ leader' # leader /\ moved' = TRUE /\ mover' = {r}
<1>1. CASE Effect(r)
  BY <1>1, EffectOnCluster DEF Effect, TypeOK
<1>2. CASE UNCHANGED <<clusterVars, history>>
  BY <1>2 DEF clusterVars, history
<1> QED
  BY <1>1, <1>2 DEF ChangeCluster, TaskFails

\* The lead, once moved, stays a lead that has moved.
LEMMA LeadStaysMoved ==
  ASSUME TypeOK, RunInv, LeaderUp, LeadMoved, [Next]_vars
  PROVE  LeadMoved'
<1> USE DEF LeadMoved
<1>1. ASSUME NEW r \in Run, Reads(r) PROVE LeadMoved'
  BY <1>1, ReadsOnly DEF clusterVars, history
<1>2. ASSUME NEW r \in Run, ChangeCluster(r) \/ TaskFails(r) PROVE LeadMoved'
  BY <1>2, MoveRemembered
<1>3. CASE ClusterMoves
  <2>1. changes \in Nat /\ changes' \in Nat /\ changes' >= changes /\ moved' = moved
    BY <1>3, EnvironmentSparesLeader, MaxChangesAssumption
       DEF ClusterMoves, LeaderUp, TypeOK, ClusterTypeOK
  <2> QED
    BY <2>1
<1>4. CASE UNCHANGED vars
  BY <1>4 DEF vars, clusterVars, history
<1> QED
  BY <1>1, <1>2, <1>3, <1>4, StepCases

\* A removal's target is not the leader until the lead moves.
LEMMA RemovalTargetsOther ==
  ASSUME TypeOK, RunInv, UnmovedInv, ~LeadMoved, NEW r \in Run, pc[r] \in {"stop", "unregister"}
  PROVE  target[r] # leader
<1>1. from[r] \in Node /\ target[r] # from[r]
  BY DEF RunInv
<1>2. from[r] = leader
  BY <1>1 DEF UnmovedInv, Node, NoNode
<1> QED
  BY <1>1, <1>2

\* A task that acts before the lead has moved leaves the leader its service and its
\* key: a removal stops another member, and patronictl refuses to remove the keys.
LEMMA EffectSparesLeader ==
  ASSUME TypeOK, RunInv, LeaderUp, UnmovedInv, ~LeadMoved, NEW r \in Run, Effect(r)
  PROVE  leader \in daemon' \cap members'
<1>1. leader \in daemon /\ leader \in members /\ leader # NoNode
  BY DEF UnmovedInv, TypeOK, ClusterTypeOK, Node, NoNode
<1> QED
  BY <1>1, RemovalTargetsOther, EffectOnCluster

\* Until the lead moves, nothing takes it away.
LEMMA UnmovedStep ==
  ASSUME TypeOK, RunInv, LeaderUp, UnmovedInv, [Next]_vars
  PROVE  UnmovedInv'
<1> SUFFICES ASSUME ~LeadMoved'
             PROVE  /\ leader' \in daemon' \cap members'
                    /\ \A r \in Run : from'[r] \in {NoNode, leader'}
  BY DEF UnmovedInv
<1>1. /\ ~LeadMoved
      /\ leader \in daemon \cap members
      /\ \A r \in Run : from[r] \in {NoNode, leader}
  BY LeadStaysMoved DEF UnmovedInv
<1>2. ASSUME NEW r \in Run, Reads(r)
      PROVE  UNCHANGED <<leader, daemon, members>> /\ \A q \in Run : from'[q] \in {NoNode, leader}
  BY <1>1, <1>2, FromStep, ReadsOnly DEF clusterVars, TypeOK
<1>3. ASSUME NEW r \in Run, ChangeCluster(r) \/ TaskFails(r)
      PROVE  leader' = leader /\ leader \in daemon' \cap members' /\ from' = from
  <2>1. leader' = leader
    BY <1>3, MoveRemembered DEF LeadMoved
  <2>2. (Effect(r) \/ UNCHANGED clusterVars) /\ from' = from
    BY <1>3 DEF ChangeCluster, TaskFails
  <2> QED
    BY <1>1, <2>1, <2>2, EffectSparesLeader DEF clusterVars
<1>4. CASE ClusterMoves
  <2>1. /\ ClusterTypeOK /\ Environment /\ leader \in daemon \cup {NoNode}
        /\ ~(changes > 0) /\ ~(changes' > 0) /\ changes \in Nat
    BY <1>1, <1>4, MaxChangesAssumption DEF ClusterMoves, TypeOK, ClusterTypeOK, LeadMoved
  <2>2. changes' = changes
    BY <2>1, EnvironmentSparesLeader
  <2>3. leader' = leader /\ daemon' = daemon /\ leader \in members'
    BY <1>1, <2>1, <2>2, EnvironmentSparesLeader
  <2> QED
    BY <1>1, <1>4, <2>3 DEF ClusterMoves, runVars
<1>5. CASE UNCHANGED vars
  BY <1>1, <1>5 DEF vars, clusterVars, runVars
<1> QED
  BY <1>1, <1>2, <1>3, <1>4, <1>5, StepCases

-----------------------------------------------------------------------------
(***************************************************************************)
(* The members.                                                            *)
(***************************************************************************)

\* Removals that count on the same leader leave it, whatever becomes of the lead.
LEMMA SurvivorStep ==
  ASSUME TypeOK, RunInv, LeaderUp, SurvivorInv, [Next]_vars
  PROVE  SurvivorInv'
<1> USE DEF SurvivorInv
<1>0. NoNode \notin Node /\ daemon \subseteq Node /\ from \in [Run -> Node \cup {NoNode}]
  BY DEF TypeOK, ClusterTypeOK, Node, NoNode
<1>1. ASSUME NEW r \in Run, Reads(r) PROVE SurvivorInv'
  <2>1. daemon' = daemon
    BY <1>1, ReadsOnly DEF clusterVars
  <2>2. CASE from' = from
    BY <2>1, <2>2 DEF LeadersDiffer
  <2>3. CASE from[r] = NoNode /\ leader \in Node /\ from' = [from EXCEPT ![r] = leader]
    <3>1. leader \in daemon
      BY <1>0, <2>3 DEF LeaderUp
    <3>2. CASE LeadersDiffer
      <4>1. PICK q \in Run, s \in Run : {from[q], from[s]} \subseteq Node /\ from[q] # from[s]
        BY <3>2 DEF LeadersDiffer
      <4>2. q # r /\ s # r
        BY <1>0, <2>3, <4>1
      <4>3. from'[q] = from[q] /\ from'[s] = from[s]
        BY <1>0, <2>3, <4>2
      <4> QED
        BY <4>1, <4>3 DEF LeadersDiffer
    <3>3. CASE \A q \in Run : from[q] \in daemon \cup {NoNode}
      BY <1>0, <2>1, <2>3, <3>1, <3>3
    <3> QED
      BY <3>2, <3>3
  <2> QED
    BY <1>1, <2>2, <2>3, FromStep
<1>2. ASSUME NEW r \in Run, Effect(r), from' = from PROVE SurvivorInv'
  <2>1. CASE LeadersDiffer
    BY <1>2, <2>1 DEF LeadersDiffer
  <2>2. CASE ~LeadersDiffer /\ pc[r] = "stop"
    <3>1. daemon' = daemon \ {target[r]} /\ from[r] \in Node /\ target[r] # from[r]
      BY <1>2, <2>2, EffectOnCluster DEF RunInv
    <3>2. \A q \in Run : from[q] \in {NoNode, from[r]}
      BY <1>0, <2>2, <3>1 DEF LeadersDiffer
    <3>3. from[r] \in daemon'
      BY <1>0, <2>2, <3>1
    <3> QED
      BY <1>2, <3>2, <3>3
  <2>3. CASE ~LeadersDiffer /\ pc[r] # "stop"
    <3>1. daemon \subseteq daemon'
      BY <1>2, <2>3, EffectOnCluster
    <3> QED
      BY <1>2, <2>3, <3>1
  <2> QED
    BY <2>1, <2>2, <2>3
<1>3. ASSUME NEW r \in Run, ChangeCluster(r) \/ TaskFails(r) PROVE SurvivorInv'
  <2>1. (Effect(r) /\ from' = from) \/ UNCHANGED <<daemon, from>>
    BY <1>3 DEF ChangeCluster, TaskFails, clusterVars
  <2> QED
    BY <1>2, <2>1 DEF LeadersDiffer
<1>4. CASE ClusterMoves
  <2>1. UNCHANGED <<daemon, from>>
    BY <1>4, EnvironmentSparesLeader DEF TypeOK, LeaderUp, ClusterMoves, runVars
  <2> QED
    BY <2>1 DEF LeadersDiffer
<1>5. CASE UNCHANGED vars
  BY <1>5 DEF vars, clusterVars, runVars, LeadersDiffer
<1> QED
  BY <1>1, <1>3, <1>4, <1>5, StepCases

-----------------------------------------------------------------------------
(***************************************************************************)
(* The switchover.                                                         *)
(***************************************************************************)

\* Patroni accepts the request only of the leader that was located; whatever takes
\* the lead from the new one afterwards is counted.
LEMMA SwitchoverStep ==
  ASSUME TypeOK, RunInv, LeaderUp, SwitchoverInv, [Next]_vars
  PROVE  SwitchoverInv'
<1>0. daemon \subseteq Node /\ NoNode \notin Node /\ LeaderUp'
  BY TypeStep DEF TypeOK, ClusterTypeOK, Node, NoNode
<1>1. op' = op
  BY StepCases, ReadsOnly DEF ChangeCluster, TaskFails, ClusterMoves, runVars, vars
<1> SUFFICES ASSUME NEW r \in Run, op[r] = "switchover", mover' = {r}
             PROVE  /\ pc'[r] \in {"poll", "relocate", "verify", "done"}
                         => leader' \in daemon' \ {from'[r]}
                    /\ pc'[r] \in {"verify", "done"} => seen'[r] # from'[r]
  BY <1>1 DEF SwitchoverInv
<1>2. mover = {r} =>
        /\ pc[r] \in {"poll", "relocate", "verify", "done"} => leader \in daemon \ {from[r]}
        /\ pc[r] \in {"verify", "done"} => seen[r] # from[r]
  BY DEF SwitchoverInv
<1>3. ASSUME NEW q \in Run, Reads(q)
      PROVE  /\ UNCHANGED <<leader, daemon, mover>>
             /\ q # r => pc'[r] = pc[r] /\ seen'[r] = seen[r] /\ from'[r] = from[r]
  BY <1>3, ReadsOnly DEF clusterVars, history, Reads, Probe, Locate, Relocate, AssertHealthy,
     ChooseCandidate, CheckRemoval, AwaitJoin, PollConverged, Goto, TypeOK
<1>4. ASSUME Reads(r)
      PROVE  /\ pc'[r] \in {"poll", "relocate", "verify", "done"}
                  => from'[r] = from[r] /\ pc[r] \in {"poll", "relocate", "verify"}
             /\ pc'[r] \in {"verify", "done"} =>
                  \/ pc[r] = "relocate" /\ seen'[r] = leader
                  \/ pc[r] = "verify" /\ seen'[r] = seen[r]
  <2>1. pc[r] # "join"
    BY DEF RunInv
  <2> QED
    BY <1>4, <2>1 DEF Reads, Probe, Locate, Relocate, AssertHealthy, ChooseCandidate,
                      CheckRemoval, AwaitJoin, PollConverged, Goto, TypeOK
<1>5. CASE \E q \in Run : Reads(q)
  BY <1>2, <1>3, <1>4, <1>5
<1>6. ASSUME NEW q \in Run, ChangeCluster(q) \/ TaskFails(q), q # r
      PROVE  /\ pc'[r] = pc[r] /\ seen' = seen /\ from' = from
             /\ mover = {r} /\ leader' = leader
  <2>1. mover' # {q}
    BY <1>6
  <2> QED
    BY <1>6, <2>1, MoveRemembered DEF ChangeCluster, TaskFails, Goto, TypeOK
<1>7. ASSUME NEW q \in Run, ChangeCluster(q) \/ TaskFails(q), q # r
      PROVE  /\ pc'[r] \in {"poll", "relocate", "verify", "done"}
                  => leader' \in daemon' \ {from'[r]}
             /\ pc'[r] \in {"verify", "done"} => seen'[r] # from'[r]
  BY <1>0, <1>2, <1>6, <1>7 DEF LeaderUp
<1>8. TaskFails(r) => pc'[r] = "failed"
  BY DEF TaskFails, Goto, TypeOK
<1>9. ASSUME ChangeCluster(r)
      PROVE  pc'[r] = "poll" /\ leader' \in daemon' \ {from'[r]}
  <2>1. Effect(r) /\ pc[r] = "request"
    BY <1>9, EffectOnCluster DEF ChangeCluster, RunInv
  <2>2. pc'[r] = "poll" /\ from'[r] = seen[r]
    BY <1>9, <2>1 DEF ChangeCluster, Goto, TypeOK, RunInv
  <2> QED
    BY <2>1, <2>2, EffectOnCluster
<1>10. CASE ClusterMoves
  <2>1. ClusterTypeOK /\ Environment /\ changes' = changes /\ mover = {r}
    BY <1>10 DEF ClusterMoves, TypeOK
  <2>2. daemon' = daemon /\ (leader \in daemon => leader' = leader)
    BY <2>1, EnvironmentSparesLeader DEF LeaderUp
  <2> QED
    BY <1>2, <1>10, <2>1, <2>2 DEF ClusterMoves, runVars
<1>11. CASE UNCHANGED vars
  BY <1>2, <1>11 DEF vars, clusterVars, runVars, history
<1> QED
  BY <1>5, <1>7, <1>8, <1>9, <1>10, <1>11, StepCases

-----------------------------------------------------------------------------
(***************************************************************************)
(* One primary.                                                            *)
(***************************************************************************)

\* Nothing here pauses the cluster, so that a Patroni takes its PostgreSQL with it.
DownInv == \A n \in Node \ daemon : pg[n] = "down"

\* A task that changes the cluster leaves no server behind without its Patroni, and
\* promotes beside no primary.
LEMMA EffectOnPrimary ==
  ASSUME TypeOK, RunInv, LeaderUp, DownInv, PrimaryInv, NEW r \in Run, Effect(r)
  PROVE  DownInv' /\ PrimaryInv'
<1>1. ClusterTypeOK /\ NoHiddenPrimary
  BY DEF TypeOK, DownInv, NoHiddenPrimary
<1> USE DEF DownInv, LeaderUp, ClusterTypeOK, Node, NoNode
<1>2. CASE RequestLeader(r)
  <2>1. PICK to \in Node : HandOver(to) \/ FailOver(to)
    BY <1>1, <1>2 DEF RequestLeader, FailOver, Promote
  <2>2. PrimaryInv'
    BY <1>1, <2>1, OperationPrimary
  <2>3. Promote(to)
    BY <2>1 DEF HandOver, FailOver
  <2>4. ASSUME NEW n \in Node \ daemon PROVE pg'[n] = "down"
    <3>1. pg[n] = "down" /\ n # to /\ n # leader
      BY <2>3 DEF Promote
    <3> QED
      BY <2>3, <3>1 DEF Promote, Detached
  <2>5. DownInv'
    BY <2>3, <2>4 DEF Promote
  <2> QED
    BY <2>2, <2>5
<1>3. CASE StopTarget(r)
  <2>1. target[r] \in Node /\ StopPatroni(target[r])
    BY <1>3 DEF StopTarget, RunInv
  <2>2. PrimaryInv'
    BY <1>1, <2>1, OperationPrimary
  <2> QED
    BY <1>1, <2>1, <2>2 DEF StopPatroni, Detached
<1>4. CASE Unregister(r)
  <2>1. target[r] \in Node /\ RemoveCluster(target[r])
    BY <1>4 DEF Unregister, RunInv
  <2>2. PrimaryInv'
    BY <1>1, <2>1, OperationPrimary
  <2> QED
    BY <2>1, <2>2 DEF RemoveCluster
<1>5. CASE Bootstrap(r)
  <2>1. target[r] \in Node /\ StartPatroni(target[r])
    BY <1>5 DEF Bootstrap, RunInv, TypeOK
  <2>2. PrimaryInv'
    BY <1>1, <2>1, OperationPrimary
  <2> QED
    BY <1>1, <2>1, <2>2 DEF StartPatroni
<1> QED
  BY <1>2, <1>3, <1>4, <1>5 DEF Effect

\* Every step of the runs or of the cluster keeps both.
LEMMA PrimaryStep ==
  ASSUME TypeOK, RunInv, LeaderUp, DownInv, PrimaryInv, [Next]_vars
  PROVE  DownInv' /\ PrimaryInv'
<1>1. CASE UNCHANGED clusterVars
  BY <1>1 DEF clusterVars, DownInv, PrimaryInv, OnePrimary
<1>2. ASSUME NEW r \in Run, Reads(r) \/ ChangeCluster(r) \/ TaskFails(r)
      PROVE  DownInv' /\ PrimaryInv'
  BY <1>1, <1>2, ReadsOnly, EffectOnPrimary DEF ChangeCluster, TaskFails
<1>3. CASE Environment
  <2>1. ClusterTypeOK /\ NoHiddenPrimary
    BY DEF TypeOK, DownInv, NoHiddenPrimary
  <2>2. PrimaryInv'
    BY <1>3, <2>1, EnvironmentPrimary
  <2>3. DownInv'
    BY <1>3, <2>1 DEF DownInv, LeaderUp, ClusterTypeOK, Node, NoNode, Environment, LoseLeader,
       Elect, Reacquire, Register, ExpireKeys, PostgresStarts, Replicate, Detached
  <2> QED
    BY <2>2, <2>3
<1> QED
  BY <1>1, <1>2, <1>3, StepCases DEF vars, ClusterMoves

-----------------------------------------------------------------------------
(***************************************************************************)
(* The removal.                                                            *)
(***************************************************************************)

\* A removal that is past `patronictl remove` has lost the leader it located.
RemovalInv ==
  \A r \in Run : op[r] = "remove" =>
    /\ pc[r] # "poll"
    /\ pc[r] \in {"relocate", "verify", "done"} => LeadMoved

\* patronictl deletes the keys only if nobody but the target leads, and until the
\* lead moves somebody else does.
LEMMA RemovalStep ==
  ASSUME Inv, RemovalInv, [Next]_vars
  PROVE  RemovalInv'
<1> USE DEF Inv, RemovalInv
<1>1. op' = op
  BY StepCases, ReadsOnly DEF ChangeCluster, TaskFails, ClusterMoves, runVars, vars
<1>2. LeadMoved => LeadMoved'
  BY LeadStaysMoved
<1> SUFFICES ASSUME NEW r \in Run, op[r] = "remove"
             PROVE  /\ pc'[r] # "poll"
                    /\ pc'[r] \in {"relocate", "verify", "done"} => LeadMoved'
  BY <1>1
<1>3. pc'[r] = pc[r] => /\ pc'[r] # "poll"
                        /\ pc'[r] \in {"relocate", "verify", "done"} => LeadMoved'
  BY <1>2
<1>4. ASSUME NEW q \in Run, Reads(q), q = r
      PROVE  /\ pc'[r] # "poll"
             /\ pc'[r] \in {"relocate", "verify", "done"} => LeadMoved'
  <2>1. pc[r] \notin {"probe", "health", "join", "poll"}
    BY DEF RunInv
  <2>2. pc'[r] \in {"health", "request", "check", "stop"}
          \/ (pc[r] \in {"relocate", "verify"} /\ pc'[r] \in {"verify", "done"})
    BY <1>4, <2>1 DEF Reads, Probe, Locate, Relocate, AssertHealthy, ChooseCandidate,
                      CheckRemoval, AwaitJoin, PollConverged, Goto, TypeOK
  <2> QED
    BY <1>2, <2>2
<1>5. ASSUME NEW q \in Run, ChangeCluster(q), q = r
      PROVE  /\ pc'[r] # "poll"
             /\ pc'[r] \in {"relocate", "verify", "done"} => LeadMoved'
  <2>1. pc[r] \in {"stop", "unregister"} /\ Effect(r)
    BY <1>5, EffectOnCluster DEF ChangeCluster, RunInv
  <2>2. pc'[r] = IF pc[r] = "stop" THEN "unregister" ELSE "relocate"
    BY <1>5, <2>1 DEF ChangeCluster, Goto, TypeOK
  <2>3. pc[r] = "unregister" => LeadMoved
    <3> SUFFICES ASSUME pc[r] = "unregister", ~LeadMoved PROVE FALSE
      OBVIOUS
    <3>1. members' = {}
      BY <2>1 DEF Effect, RequestLeader, StopTarget, Unregister, Bootstrap, RemoveCluster
    <3> QED
      BY <2>1, <3>1, EffectSparesLeader
  <2> QED
    BY <1>2, <2>1, <2>2, <2>3
<1>6. ASSUME NEW q \in Run, TaskFails(q), q = r PROVE pc'[r] = "failed"
  BY <1>6 DEF TaskFails, Goto, TypeOK
<1>7. ASSUME NEW q \in Run, Reads(q) \/ ChangeCluster(q) \/ TaskFails(q), q # r
      PROVE  pc'[r] = pc[r]
  BY <1>7 DEF Reads, Probe, Locate, Relocate, AssertHealthy, ChooseCandidate, CheckRemoval,
              AwaitJoin, PollConverged, ChangeCluster, TaskFails, Goto, TypeOK
<1> QED
  BY <1>3, <1>4, <1>5, <1>6, <1>7, StepCases DEF ClusterMoves, runVars, vars

-----------------------------------------------------------------------------
(***************************************************************************)
(* The theorems.                                                           *)
(***************************************************************************)

\* The invariant holds in every state the runs can reach.
THEOREM Invariant == Spec => []Inv
<1>1. Inv /\ [Next]_vars => Inv'
  BY TypeStep, RunStep, UnmovedStep, SurvivorStep, SwitchoverStep DEF Inv
<1> QED
  BY <1>1, InitInv, PTL DEF Spec

\* The runs' facts and the cluster keep their types.
THEOREM TypeCorrect == Spec => []TypeOK
<1>1. Inv => TypeOK
  BY DEF Inv
<1> QED
  BY <1>1, Invariant, PTL

\* scale_remove_replica.yml stops the leader only after the lead has moved, however
\* many runs overlap.
THEOREM LeaderSpared == Spec => RemovalSparesLeader
<1>1. Inv => \A r \in Run : StopTarget(r) /\ leader = target[r] => LeadMoved
  <2> SUFFICES ASSUME Inv, NEW r \in Run, StopTarget(r), ~LeadMoved
               PROVE  leader # target[r]
    OBVIOUS
  <2> QED
    BY RemovalTargetsOther DEF Inv, StopTarget
<1> QED
  BY <1>1, Invariant, PTL DEF RemovalSparesLeader

\* Any number of removals that have located the same leader leave a member.
THEOREM Survival == Spec => []SomeMemberSurvives
<1>1. Inv => SomeMemberSurvives
  BY DEF Inv, SurvivorInv, LeadersDiffer, SomeMemberSurvives
<1> QED
  BY <1>1, Invariant, PTL

\* `patronictl remove` deletes the cluster's keys only after the lead has moved.
THEOREM KeysKept == Spec => KeysLostOnlyIfLeadMoved
<1>1. Inv /\ [Next]_vars => (members # {} /\ members' = {} => LeadMoved)
  <2> SUFFICES ASSUME Inv, [Next]_vars, ~LeadMoved PROVE members' # {}
    OBVIOUS
  <2>1. leader \in daemon /\ leader \in members
    BY DEF Inv, UnmovedInv
  <2>2. ASSUME NEW r \in Run, Reads(r) \/ ChangeCluster(r) \/ TaskFails(r) PROVE leader \in members'
    BY <2>1, <2>2, ReadsOnly, EffectSparesLeader DEF ChangeCluster, TaskFails, clusterVars, Inv
  <2>3. CASE Environment
    BY <2>1, <2>3, EnvironmentSparesLeader DEF Inv, TypeOK, LeaderUp
  <2>4. CASE UNCHANGED vars
    BY <2>1, <2>4 DEF vars, clusterVars
  <2> QED
    BY <2>2, <2>3, <2>4, StepCases DEF ClusterMoves
<1> QED
  BY <1>1, Invariant, PTL DEF Spec, KeysLostOnlyIfLeadMoved

\* A switchover that reports success has replaced the leader it located, however long
\* its prompt stood and whatever ran beside it, unless the lead has changed since.
THEOREM SwitchoverMoves == Spec => []SwitchoverMovedLeader
<1>1. Inv => SwitchoverMovedLeader
  BY DEF Inv, SwitchoverInv, SwitchoverMovedLeader
<1> QED
  BY <1>1, Invariant, PTL

\* The one primary, in every state.
LEMMA PrimaryAlways == Spec => [](DownInv /\ PrimaryInv)
<1>1. Init => DownInv /\ PrimaryInv
  <2> SUFFICES ASSUME Init PROVE DownInv /\ PrimaryInv
    OBVIOUS
  <2>1. PICK joined \in SUBSET Node : DeployedWith(joined)
    BY DEF Init
  <2> QED
    BY <2>1, DeployedPrimary DEF DeployedWith, DownInv
<1>2. Inv /\ DownInv /\ PrimaryInv /\ [Next]_vars => (DownInv /\ PrimaryInv)'
  BY PrimaryStep DEF Inv
<1> QED
  BY <1>1, <1>2, Invariant, PTL DEF Spec

\* No split brain: however many switchovers, forced failovers, removals and additions
\* overlap, two servers are never primary at once.
THEOREM NoSplitBrain == Spec => []OnePrimary
<1>1. DownInv /\ PrimaryInv => OnePrimary
  BY DEF PrimaryInv
<1> QED
  BY <1>1, PrimaryAlways, PTL

\* wait_member_converged.yml:35 compares role words.  With the one of Patroni 4 for a
\* primary, the poll of a forced failover never succeeds while its candidate leads,
\* that is, while the failover has done what it was asked.
THEOREM NewPrimaryNotAwaited ==
  ASSUME PrimaryRole = "primary"
  PROVE  Spec => [][\A r \in Run : PollConverged(r) => leader # target[r]]_vars
<1>1. Inv /\ DownInv /\ PrimaryInv => \A r \in Run : PollConverged(r) => leader # target[r]
  <2> SUFFICES ASSUME Inv, PrimaryInv, NEW r \in Run, PollConverged(r), leader = target[r]
               PROVE  FALSE
    OBVIOUS
  <2>1. target[r] \in daemon /\ pg[target[r]] # "primary"
    BY DEF PollConverged, Converged
  <2>2. leader # NoNode
    BY <2>1 DEF Inv, TypeOK, ClusterTypeOK, Node, NoNode
  <2> QED
    BY <2>1, <2>2 DEF PrimaryInv
<1> QED
  BY <1>1, Invariant, PrimaryAlways, PTL

\* assert_healthy.yml:36 compares state words.  With the one of Patroni 4 for a replica
\* that streams, the gate and the verdict of every playbook pass only over a leader
\* that has no replica left: a switchover has nobody to hand over to by then.
THEOREM GateNeedsLoneLeader ==
  ASSUME ReplicaState = "streaming"
  PROVE  Spec => [][\A r \in Run : AssertHealthy(r) => members = {leader}]_vars
<1>1. Inv /\ DownInv /\ PrimaryInv => \A r \in Run : AssertHealthy(r) => members = {leader}
  <2> SUFFICES ASSUME Inv, PrimaryInv, NEW r \in Run, AssertHealthy(r), NEW n \in members
               PROVE  n = leader /\ leader \in members
    BY DEF AssertHealthy, Healthy
  <2>1. Healthy(seen[r]) /\ members \subseteq Node
    BY DEF AssertHealthy, Inv, TypeOK, ClusterTypeOK
  <2>2. leader \in members
    BY <2>1 DEF Healthy
  <2>3. n # leader => RowState(n) = "running" /\ pg[n] \in {"primary", "streaming"}
    BY <2>1 DEF Healthy, BadLag, ReplicaHosts
  <2>4. n # leader => pg[n] = "primary"
    BY <2>3 DEF RowState
  <2>5. leader # NoNode
    BY <2>1, <2>2 DEF Node, NoNode
  <2>6. pg[leader] = "primary"
    BY <2>5 DEF PrimaryInv
  <2> QED
    BY <2>1, <2>2, <2>4, <2>6 DEF PrimaryInv, OnePrimary
<1> QED
  BY <1>1, Invariant, PrimaryAlways, PTL

\* scale_add_replica.yml:60 asserts that the probe of the new host has set no status.
\* If ansible.builtin.uri sets one when nothing answers, as it does, no addition gets
\* past it, however often it is tried: "good, this is a fresh add" is never reached.
THEOREM NoAddition ==
  ASSUME SilentStatus
  PROVE  Spec => [](\A r \in Run : op[r] = "add" => pc[r] \in {"probe", "failed"})
<1> DEFINE Refused == \A r \in Run : op[r] = "add" => pc[r] \in {"probe", "failed"}
<1>1. Init => Refused
  BY DEF Init
<1>2. Inv /\ Refused /\ [Next]_vars => Refused'
  <2> SUFFICES ASSUME Inv, Refused, [Next]_vars PROVE Refused'
    OBVIOUS
  <2> USE DEF Inv, TypeOK, Goto
  <2>1. ASSUME NEW r \in Run, Reads(r) PROVE Refused'
    BY <2>1 DEF Reads, Probe, Locate, Relocate, AssertHealthy, ChooseCandidate, CheckRemoval,
                AwaitJoin, PollConverged
  <2>2. ASSUME NEW r \in Run, ChangeCluster(r) PROVE Refused'
    <3>1. pc[r] \notin {"probe", "failed"}
      BY <2>2, EffectOnCluster DEF ChangeCluster
    <3> QED
      BY <2>2, <3>1 DEF ChangeCluster
  <2>3. ASSUME NEW r \in Run, TaskFails(r) PROVE Refused'
    BY <2>3 DEF TaskFails
  <2>4. CASE UNCHANGED runVars
    BY <2>4 DEF runVars
  <2> QED
    BY <2>1, <2>2, <2>3, <2>4, StepCases DEF vars, ClusterMoves
<1> QED
  BY <1>1, <1>2, Invariant, PTL DEF Spec

\* scale_remove_replica.yml never succeeds as written: its third answer to `patronictl
\* remove` names the target, so that the task passes only after the lead was lost or
\* a task of some run has moved it.
THEOREM RemovalNeedsMove ==
  Spec => [](\A r \in Run :
               op[r] = "remove" /\ pc[r] \in {"relocate", "verify", "done"} => LeadMoved)
<1>1. Init => RemovalInv
  BY DEF Init, RemovalInv
<1>2. Inv /\ RemovalInv /\ [Next]_vars => RemovalInv'
  BY RemovalStep
<1>3. RemovalInv => \A r \in Run :
                      op[r] = "remove" /\ pc[r] \in {"relocate", "verify", "done"} => LeadMoved
  BY DEF RemovalInv
<1> QED
  BY <1>1, <1>2, <1>3, Invariant, PTL DEF Spec

=============================================================================

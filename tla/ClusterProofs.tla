---------------------------- MODULE ClusterProofs ----------------------------
(***************************************************************************)
(* Lemmas about the environment of the lifecycle playbooks, for the proofs *)
(* about every module that is composed with it.                            *)
(***************************************************************************)
EXTENDS ClusterOps, TLAPS

\* What the playbooks do to the cluster keeps its types.
LEMMA OperationType ==
  ASSUME ClusterTypeOK, NEW n \in Node, NEW b \in BOOLEAN,
         \/ SetPause(b) \/ StopPatroni(n) \/ StartPatroni(n) \/ InstallNew(n)
         \/ HandOver(n) \/ FailOver(n) \/ RemoveCluster(n)
  PROVE  ClusterTypeOK'
<1>1. CASE SetPause(b)
  BY <1>1 DEF ClusterTypeOK, SetPause
<1>2. CASE StopPatroni(n)
  BY <1>2 DEF ClusterTypeOK, StopPatroni, Detached, PgState
<1>3. CASE StartPatroni(n)
  BY <1>3 DEF ClusterTypeOK, StartPatroni, PgState
<1>4. CASE InstallNew(n)
  BY <1>4 DEF ClusterTypeOK, InstallNew, Version
<1>5. CASE HandOver(n)
  BY <1>5 DEF ClusterTypeOK, HandOver, Promote, Detached, PgState
<1>6. CASE FailOver(n)
  BY <1>6 DEF ClusterTypeOK, FailOver, Promote, Detached, PgState
<1>7. CASE RemoveCluster(n)
  BY <1>7 DEF ClusterTypeOK, RemoveCluster
<1> QED
  BY <1>1, <1>2, <1>3, <1>4, <1>5, <1>6, <1>7

\* What the cluster does by itself keeps its types.
LEMMA EnvironmentType ==
  ASSUME ClusterTypeOK, Environment
  PROVE  ClusterTypeOK'
<1>1. CASE LoseLeader
  <2>1. changes' \in 0..MaxChanges
    BY <1>1, MaxChangesAssumption DEF LoseLeader, ClusterTypeOK
  <2> QED
    BY <1>1, <2>1 DEF ClusterTypeOK, LoseLeader, Detached, PgState
<1>2. ASSUME NEW n \in Node, Elect(n) PROVE ClusterTypeOK'
  BY <1>2 DEF ClusterTypeOK, Elect, PgState
<1>3. ASSUME NEW n \in Node, Reacquire(n) PROVE ClusterTypeOK'
  BY <1>3 DEF ClusterTypeOK, Reacquire
<1>4. ASSUME NEW n \in Node, Register(n) PROVE ClusterTypeOK'
  BY <1>4 DEF ClusterTypeOK, Register
<1>5. ASSUME NEW n \in Node, ExpireKeys(n) PROVE ClusterTypeOK'
  BY <1>5 DEF ClusterTypeOK, ExpireKeys
<1>6. ASSUME NEW n \in Node, PostgresStarts(n) PROVE ClusterTypeOK'
  BY <1>6 DEF ClusterTypeOK, PostgresStarts, PgState
<1>7. ASSUME NEW n \in Node, Replicate(n) PROVE ClusterTypeOK'
  BY <1>7 DEF ClusterTypeOK, Replicate, PgState
<1> QED
  BY <1>1, <1>2, <1>3, <1>4, <1>5, <1>6, <1>7 DEF Environment

\* A Patroni that leads stays up and keeps its key, unless the lead is lost and
\* that is counted.  No step of the cluster starts or stops a service.
LEMMA EnvironmentSparesLeader ==
  ASSUME ClusterTypeOK, Environment, leader \in daemon \cup {NoNode}
  PROVE  /\ UNCHANGED <<paused, daemon>>
         /\ changes' \in Nat /\ changes' >= changes
         /\ leader' \in daemon' \cup {NoNode}
         /\ leader \in daemon /\ changes' = changes => leader' = leader
         /\ leader \in daemon /\ leader \in members => leader \in members'
<1>1. changes \in Nat /\ daemon \subseteq Node /\ NoNode \notin Node
  BY MaxChangesAssumption DEF ClusterTypeOK, Node, NoNode
<1>2. CASE LoseLeader
  BY <1>1, <1>2 DEF LoseLeader
<1>3. ASSUME NEW n \in Node,
             Elect(n) \/ Reacquire(n) \/ Register(n) \/ PostgresStarts(n) \/ Replicate(n)
      PROVE  /\ UNCHANGED <<paused, daemon, changes>>
             /\ leader' \in daemon \cup {NoNode}
             /\ leader # NoNode => leader' = leader
             /\ members \subseteq members'
  BY <1>3 DEF Elect, Reacquire, Register, PostgresStarts, Replicate
<1>4. ASSUME NEW n \in Node, ExpireKeys(n)
      PROVE  /\ UNCHANGED <<paused, daemon, changes, leader>>
             /\ members' = members \ {n}
             /\ n \notin daemon
  BY <1>1, <1>4 DEF ExpireKeys
<1> QED
  BY <1>1, <1>2, <1>3, <1>4 DEF Environment

-----------------------------------------------------------------------------
(***************************************************************************)
(* One primary.                                                            *)
(***************************************************************************)

\* Whoever holds the leader key is the primary, and nobody else is.
PrimaryInv == /\ OnePrimary
              /\ leader # NoNode => pg[leader] = "primary"

\* A member that is left out of a vote does not run as a primary.
NoHiddenPrimary == \A n \in Node \ daemon : pg[n] # "primary"

\* A deployed cluster has one primary, its leader.
LEMMA DeployedPrimary ==
  ASSUME NEW joined \in SUBSET Node, DeployedWith(joined)
  PROVE  PrimaryInv
BY DEF DeployedWith, PrimaryInv, OnePrimary, NoNode, Node

\* Automatic failover promotes beside no primary if those it does not ask are
\* none; nothing else the cluster does makes one.
LEMMA EnvironmentPrimary ==
  ASSUME ClusterTypeOK, PrimaryInv, ~paused => NoHiddenPrimary, Environment
  PROVE  PrimaryInv'
<1> USE DEF ClusterTypeOK, PrimaryInv, OnePrimary, NoHiddenPrimary
<1>1. CASE LoseLeader
  BY <1>1 DEF LoseLeader, Detached
<1>2. ASSUME NEW n \in Node, Elect(n) PROVE PrimaryInv'
  BY <1>2 DEF Elect
<1>3. ASSUME NEW n \in Node, Reacquire(n) PROVE PrimaryInv'
  BY <1>3 DEF Reacquire
<1>4. ASSUME NEW n \in Node, Register(n) PROVE PrimaryInv'
  BY <1>4 DEF Register
<1>5. ASSUME NEW n \in Node, ExpireKeys(n) PROVE PrimaryInv'
  BY <1>5 DEF ExpireKeys
<1>6. ASSUME NEW n \in Node, PostgresStarts(n) PROVE PrimaryInv'
  BY <1>6 DEF PostgresStarts
<1>7. ASSUME NEW n \in Node, Replicate(n) PROVE PrimaryInv'
  BY <1>7 DEF Replicate
<1> QED
  BY <1>1, <1>2, <1>3, <1>4, <1>5, <1>6, <1>7 DEF Environment

\* A switchover demotes the one primary, a failover asks those that answer whether
\* they are one; nothing else the playbooks do promotes anybody.
LEMMA OperationPrimary ==
  ASSUME ClusterTypeOK, PrimaryInv, NEW n \in Node, NEW b \in BOOLEAN,
         \/ SetPause(b) \/ StopPatroni(n) \/ StartPatroni(n) \/ InstallNew(n)
         \/ HandOver(n) \/ RemoveCluster(n)
         \/ FailOver(n) /\ NoHiddenPrimary
  PROVE  PrimaryInv'
<1> USE DEF ClusterTypeOK, PrimaryInv, OnePrimary, NoHiddenPrimary, Node, NoNode
<1>1. CASE SetPause(b)
  BY <1>1 DEF SetPause
<1>2. CASE StopPatroni(n)
  BY <1>2 DEF StopPatroni, Detached
<1>3. CASE StartPatroni(n)
  BY <1>3 DEF StartPatroni
<1>4. CASE InstallNew(n)
  BY <1>4 DEF InstallNew
<1>5. CASE HandOver(n)
  BY <1>5 DEF HandOver, Promote, Detached
<1>6. CASE RemoveCluster(n)
  BY <1>6 DEF RemoveCluster
<1>7. CASE FailOver(n) /\ NoHiddenPrimary
  BY <1>7 DEF FailOver, Promote, Detached
<1> QED
  BY <1>1, <1>2, <1>3, <1>4, <1>5, <1>6, <1>7

=============================================================================

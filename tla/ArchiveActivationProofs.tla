----------------------- MODULE ArchiveActivationProofs -----------------------
(***************************************************************************)
(* Theorems about ArchiveActivation, for any hosts and any number of       *)
(* losses of the lead and of timed backups.                                *)
(***************************************************************************)
EXTENDS ArchiveActivation, FiniteSetTheorems, TLAPS

-----------------------------------------------------------------------------
(***************************************************************************)
(* Types.                                                                  *)
(***************************************************************************)

LEMMA InitType == Init => TypeOK
<1> SUFFICES ASSUME Init PROVE TypeOK
  OBVIOUS
<1>1. archiving \subseteq database
  BY DEF Init
<1>2. backups \in Nat
  BY DEF Init
<1>3. moves \in 0 .. MaxMoves
  BY BoundAssumption DEF Init
<1>4. /\ database \in (SUBSET Node) \ {{}} /\ local \in BOOLEAN
      /\ leader \in database \cup {None}
      /\ config \in BOOLEAN /\ locked \in {"play", "timer", None}
  BY DEF Init
<1>5. /\ task \in Task \cup Over
      /\ hosts \subseteq database /\ pending = {}
      /\ located \in database \cup {None}
      /\ bare \subseteq database /\ refused \subseteq bare \ hosts
      /\ disturbed \in BOOLEAN
  BY DEF Init, Task
<1> QED
  BY <1>1, <1>2, <1>3, <1>4, <1>5 DEF TypeOK

\* What the environment does.
LEMMA EnvironmentType == TypeOK /\ Environment => TypeOK'
<1> SUFFICES ASSUME TypeOK, Environment PROVE TypeOK'
  OBVIOUS
<1> USE DEF TypeOK, vars, cluster, repository, play
<1>1. CASE LoseLeader
  BY <1>1, BoundAssumption DEF LoseLeader
<1>2. CASE StartTimed
  BY <1>2 DEF StartTimed
<1>3. CASE EndTimed
  BY <1>3 DEF EndTimed, Completes
<1>4. ASSUME NEW n \in Node, Elect(n) PROVE TypeOK'
  BY <1>4 DEF Elect
<1>5. ASSUME NEW n \in Node, Apply(n) PROVE TypeOK'
  BY <1>5 DEF Apply
<1> QED
  BY <1>1, <1>2, <1>3, <1>4, <1>5 DEF Environment

\* The tasks of _archive.yml.
LEMMA ArchiveType ==
  ASSUME TypeOK, \/ ReadConfig \/ PatchConfig \/ AwaitActive \/ Locate \/ SwitchWal \/ Check
                 \/ RunOnceFails
  PROVE  TypeOK'
<1> USE DEF TypeOK, vars, cluster, repository, play, Task, Over
<1>1. CASE ReadConfig
  BY <1>1 DEF ReadConfig
<1>2. CASE PatchConfig
  BY <1>2 DEF PatchConfig
<1>3. CASE AwaitActive
  <2>1. pending = {}
    BY <1>3 DEF AwaitActive
  <2> QED
    BY <1>3, <2>1 DEF AwaitActive
<1>4. CASE Locate
  BY <1>4 DEF Locate
<1>5. CASE SwitchWal
  BY <1>5 DEF SwitchWal, Fail
<1>6. CASE Check
  BY <1>6 DEF Check
<1>7. CASE RunOnceFails
  BY <1>7 DEF RunOnceFails, Fail
<1> QED
  BY <1>1, <1>2, <1>3, <1>4, <1>5, <1>6, <1>7

\* The tasks of _initial_backup.yml.
LEMMA HostType ==
  ASSUME TypeOK, NEW h \in Node, HostStep(h)
  PROVE  TypeOK'
<1> USE DEF TypeOK, cluster, repository, Task, Over
<1>1. CASE Inspect(h)
  <2>1. task = "inspect" /\ h \in pending /\ Through(h, "backup", hosts) /\ hosts' = hosts
    BY <1>1 DEF Inspect
  <2>2. task' \in {"inspect", "backup"} /\ pending' \subseteq hosts
    BY <2>1 DEF Through
  <2>3. bare' \subseteq database /\ bare \subseteq bare'
    BY <1>1 DEF Inspect
  <2> QED
    BY <1>1, <2>1, <2>2, <2>3 DEF Inspect
<1>2. CASE Skip(h)
  <2>1. task = "backup" /\ h \in pending /\ Through(h, "done", {}) /\ hosts' = hosts
    BY <1>2 DEF Skip
  <2>2. /\ task' \in {"backup", "done"}
        /\ pending' \subseteq IF task' = "backup" THEN hosts ELSE {}
    BY <2>1 DEF Through
  <2> QED
    BY <1>2, <2>1, <2>2 DEF Skip
<1>3. CASE StartBackup(h)
  BY <1>3 DEF StartBackup, play
<1>4. CASE BackupRefused(h)
  <2>1. task = "backup" /\ h \in pending /\ Leave(h)
    BY <1>4 DEF BackupRefused
  <2>2. /\ task' \in {"backup", "done", "failed"} /\ hosts' = hosts \ {h}
        /\ pending' \subseteq IF task' = "backup" THEN hosts' ELSE {}
    BY <2>1 DEF Leave, Through
  <2> QED
    BY <1>4, <2>1, <2>2 DEF BackupRefused
<1>5. CASE EndBackup(h)
  <2>1. task = "backup" /\ h \in pending
    BY <1>5 DEF EndBackup
  <2>2. CASE Completes /\ Through(h, "done", {}) /\ UNCHANGED <<hosts, disturbed>>
    <3>1. /\ task' \in {"backup", "done"}
          /\ pending' \subseteq IF task' = "backup" THEN hosts ELSE {}
      BY <2>1, <2>2 DEF Through
    <3> QED
      BY <1>5, <2>1, <2>2, <3>1 DEF EndBackup, Completes
  <2>3. CASE Leave(h) /\ disturbed' = TRUE /\ UNCHANGED backups
    <3>1. /\ task' \in {"backup", "done", "failed"} /\ hosts' = hosts \ {h}
          /\ pending' \subseteq IF task' = "backup" THEN hosts' ELSE {}
      BY <2>1, <2>3 DEF Leave, Through
    <3> QED
      BY <1>5, <2>1, <2>3, <3>1 DEF EndBackup
  <2> QED
    BY <1>5, <2>2, <2>3 DEF EndBackup
<1> QED
  BY <1>1, <1>2, <1>3, <1>4, <1>5 DEF HostStep

LEMMA StepType == TypeOK /\ [Next]_vars => TypeOK'
<1> SUFFICES ASSUME TypeOK, [Next]_vars PROVE TypeOK'
  OBVIOUS
<1>1. CASE UNCHANGED vars
  BY <1>1 DEF TypeOK, vars, cluster, repository, play
<1> QED
  BY <1>1, EnvironmentType, ArchiveType, HostType DEF Next, Playbook

\* ArchiveActivation is type correct.
THEOREM TypeCorrect == Spec => []TypeOK
BY InitType, StepType, PTL DEF Spec

-----------------------------------------------------------------------------
(***************************************************************************)
(* Archiving.                                                              *)
(***************************************************************************)

Waiting == {"read", "patch", "await"}

\* The hosts that have got past the wait archive.
ArchiveInv == task \notin Waiting => hosts \subseteq archiving

LEMMA ArchiveStep == TypeOK /\ ArchiveInv /\ [Next]_vars => ArchiveInv'
<1> SUFFICES ASSUME TypeOK, ArchiveInv, [Next]_vars PROVE ArchiveInv'
  OBVIOUS
<1>1. CASE AwaitActive
  BY <1>1 DEF AwaitActive, ArchiveInv, Waiting, cluster
<1>2. CASE task = "await" /\ ~AwaitActive
  <2>1. task' = "await"
    BY <1>2 DEF vars, play, Next, Environment, Playbook, HostStep, LoseLeader, Elect, Apply,
         StartTimed, EndTimed, ReadConfig, PatchConfig, Locate, SwitchWal, Check, RunOnceFails,
         Inspect, Skip, StartBackup, BackupRefused, EndBackup
  <2> QED
    BY <2>1 DEF ArchiveInv, Waiting
<1>3. CASE task \in {"read", "patch"} /\ task' \in Waiting
  BY <1>3 DEF ArchiveInv
<1>4. CASE task \in {"read", "patch"} /\ task' \notin Waiting
  <2>1. hosts' = {}
    BY <1>4 DEF Waiting, vars, Next, Environment, Playbook, HostStep, LoseLeader, Elect, Apply,
         StartTimed, EndTimed, ReadConfig, PatchConfig, AwaitActive, Locate, SwitchWal, Check,
         RunOnceFails, Fail, Inspect, Skip, StartBackup, BackupRefused, EndBackup
  <2> QED
    BY <2>1 DEF ArchiveInv
<1>5. CASE task \notin Waiting
  <2>1. hosts' \subseteq hosts
    BY <1>5 DEF Waiting, vars, play, Next, Environment, Playbook, HostStep, LoseLeader, Elect,
         Apply, StartTimed, EndTimed, ReadConfig, PatchConfig, AwaitActive, Locate, SwitchWal,
         Check, RunOnceFails, Fail, Inspect, Skip, StartBackup, BackupRefused, Leave, EndBackup
  <2>2. archiving \subseteq archiving'
    BY DEF vars, cluster, Next, Environment, Playbook, HostStep, LoseLeader, Elect, Apply,
         StartTimed, EndTimed, ReadConfig, PatchConfig, AwaitActive, Locate, SwitchWal, Check,
         RunOnceFails, Fail, Inspect, Skip, StartBackup, BackupRefused, EndBackup
  <2> QED
    BY <1>5, <2>1, <2>2 DEF ArchiveInv
<1> QED
  BY <1>1, <1>2, <1>3, <1>4, <1>5 DEF Waiting

\* Whoever comes to lead after the wait archives or has left the play.
THEOREM Archives == Spec => []LeaderArchives
<1>1. Init => ArchiveInv
  BY DEF Init, ArchiveInv, Waiting
<1>2. TypeOK /\ ArchiveInv => LeaderArchives
  BY DEF TypeOK, ArchiveInv, LeaderArchives, Waiting
<1> QED
  BY <1>1, <1>2, TypeCorrect, ArchiveStep, PTL DEF Spec

-----------------------------------------------------------------------------
(***************************************************************************)
(* Plays that nothing disturbs.                                            *)
(***************************************************************************)

\* Nothing disturbs: there is a leader, and the one looked up; no host has left before
\* the backup.
UndisturbedInv ==
  /\ locked = "timer" => disturbed
  /\ task \notin {"backup"} \cup Over => refused = {}
  /\ ~disturbed => /\ leader \in database
                   /\ task = "switch" => located = leader
                   /\ database \ hosts = refused
                   /\ local => task # "failed"

LEMMA UndisturbedStep ==
  TypeOK /\ ArchiveInv /\ UndisturbedInv /\ [Next]_vars => UndisturbedInv'
<1> SUFFICES ASSUME TypeOK, ArchiveInv, UndisturbedInv, [Next]_vars PROVE UndisturbedInv'
  OBVIOUS
<1> USE DEF UndisturbedInv, Over, vars, cluster, repository, play
<1>0. None \notin database
  BY NoneAssumption DEF TypeOK
<1>1. CASE LoseLeader
  BY <1>1 DEF LoseLeader
<1>2. CASE StartTimed
  BY <1>2 DEF StartTimed
<1>3. CASE EndTimed
  BY <1>3, NoneAssumption DEF EndTimed
<1>4. ASSUME NEW n \in Node, Elect(n) PROVE UndisturbedInv'
  BY <1>0, <1>4 DEF Elect
<1>5. ASSUME NEW n \in Node, Apply(n) PROVE UndisturbedInv'
  BY <1>5 DEF Apply
<1>6. CASE ReadConfig
  BY <1>6 DEF ReadConfig
<1>7. CASE PatchConfig
  BY <1>7 DEF PatchConfig
<1>8. CASE AwaitActive
  <2>1. task = "await" /\ refused = {} /\ refused' = {}
    BY <1>8 DEF AwaitActive
  <2>2. PICK active \in SUBSET (hosts \cap archiving) :
          /\ hosts' = active
          /\ task' = IF active = {} THEN "failed" ELSE "locate"
          /\ disturbed' = (disturbed \/ active # hosts)
    BY <1>8 DEF AwaitActive
  <2>3. ASSUME ~disturbed' PROVE ~disturbed /\ hosts = database /\ hosts' = hosts /\ task' = "locate"
    BY <2>1, <2>2, <2>3 DEF TypeOK
  <2> QED
    BY <1>8, <2>1, <2>2, <2>3 DEF AwaitActive
<1>9. CASE Locate
  BY <1>9 DEF Locate
<1>10. CASE SwitchWal
  BY <1>0, <1>10 DEF SwitchWal, Fail
<1>11. CASE Check
  BY <1>11 DEF Check
<1>12. CASE RunOnceFails
  BY <1>12 DEF RunOnceFails, Fail
<1>13. ASSUME NEW h \in Node, Inspect(h) PROVE UndisturbedInv'
  BY <1>13 DEF Inspect, Through
<1>14. ASSUME NEW h \in Node, Skip(h) PROVE UndisturbedInv'
  BY <1>14 DEF Skip, Through
<1>15. ASSUME NEW h \in Node, StartBackup(h) PROVE UndisturbedInv'
  BY <1>15 DEF StartBackup
<1>16. ASSUME NEW h \in Node, BackupRefused(h) PROVE UndisturbedInv'
  <2>1. /\ task = "backup" /\ h \in hosts /\ (~local \/ disturbed)
        /\ hosts' = hosts \ {h} /\ refused' = refused \cup {h}
        /\ task' \in {"backup", "done", "failed"}
        /\ UNCHANGED <<cluster, repository, disturbed>>
    BY <1>16 DEF BackupRefused, Leave, Through, TypeOK
  <2>2. h \in database
    BY <2>1 DEF TypeOK
  <2> QED
    BY <2>1, <2>2
<1>17. ASSUME NEW h \in Node, EndBackup(h) PROVE UndisturbedInv'
  <2>1. locked' = None /\ task = "backup" /\ task' \in {"backup", "done", "failed"}
    BY <1>17 DEF EndBackup, Leave, Through
  <2>2. CASE disturbed'
    BY <2>1, <2>2, NoneAssumption
  <2>3. CASE ~disturbed'
    BY <1>17, <2>1, <2>3, NoneAssumption DEF EndBackup, Through, TypeOK
  <2> QED
    BY <2>2, <2>3
<1>18. CASE UNCHANGED vars
  BY <1>18
<1> QED
  BY <1>1, <1>2, <1>3, <1>4, <1>5, <1>6, <1>7, <1>8, <1>9, <1>10, <1>11, <1>12, <1>13, <1>14,
     <1>15, <1>16, <1>17, <1>18 DEF Next, Environment, Playbook, HostStep

\* A play that nothing disturbs fails, if at all, in the initial backup.
THEOREM UndisturbedSucceeds == Spec => []OnlyDisturbedPlaysFail
<1>1. Init => ArchiveInv /\ UndisturbedInv
  BY NoneAssumption DEF Init, ArchiveInv, Waiting, UndisturbedInv, Over
<1>2. UndisturbedInv => OnlyDisturbedPlaysFail
  BY DEF UndisturbedInv, OnlyDisturbedPlaysFail
<1> QED
  BY <1>1, <1>2, TypeCorrect, ArchiveStep, UndisturbedStep, PTL DEF Spec

-----------------------------------------------------------------------------
(***************************************************************************)
(* The recovery point.                                                     *)
(***************************************************************************)

\* A host is still to do what gives the repository a backup, or there is one.
PointInv ==
  /\ task \notin {"inspect", "backup"} \cup Over => bare = {}
  /\ task = "inspect" => \A h \in hosts : h \in pending \cup bare \/ backups > 0
  /\ task = "backup" => \A h \in hosts : h \in pending \cap bare \/ backups > 0
  /\ task = "done" /\ bare # {} => backups > 0

LEMMA PointStep == TypeOK /\ PointInv /\ [Next]_vars => PointInv'
<1> SUFFICES ASSUME TypeOK, PointInv, [Next]_vars PROVE PointInv'
  OBVIOUS
<1> USE DEF PointInv, Over, vars, repository, play
<1>1. CASE LoseLeader
  BY <1>1 DEF LoseLeader
<1>2. CASE StartTimed
  BY <1>2 DEF StartTimed
<1>3. CASE EndTimed
  <2>1. backups > 0 => backups' > 0
    BY <1>3 DEF EndTimed, Completes, TypeOK
  <2> QED
    BY <1>3, <2>1 DEF EndTimed
<1>4. ASSUME NEW n \in Node, Elect(n) \/ Apply(n) PROVE PointInv'
  BY <1>4 DEF Elect, Apply
<1>5. CASE ReadConfig \/ PatchConfig \/ AwaitActive \/ Locate \/ SwitchWal \/ RunOnceFails
  <2>1. task' \in {"patch", "await", "locate", "switch", "check", "failed"}
    BY <1>5 DEF ReadConfig, PatchConfig, AwaitActive, Locate, SwitchWal, RunOnceFails, Fail
  <2>2. bare = {} /\ bare' = bare
    BY <1>5 DEF ReadConfig, PatchConfig, AwaitActive, Locate, SwitchWal, RunOnceFails, Fail
  <2> QED
    BY <2>1, <2>2
<1>6. CASE Check
  BY <1>6 DEF Check
<1>7. ASSUME NEW h \in Node, Inspect(h) PROVE PointInv'
  <2>1. /\ task = "inspect" /\ h \in pending /\ hosts' = hosts /\ backups' = backups
        /\ bare \subseteq bare' /\ (h \in bare' \/ backups > 0)
    BY <1>7 DEF Inspect, TypeOK
  <2>2. CASE pending = {h}
    BY <1>7, <2>1, <2>2 DEF Inspect, Through
  <2>3. CASE pending # {h}
    BY <1>7, <2>1, <2>3 DEF Inspect, Through
  <2> QED
    BY <2>2, <2>3
<1>8. ASSUME NEW h \in Node, Skip(h) PROVE PointInv'
  <2>1. backups > 0 /\ backups' = backups /\ task' \in {"backup", "done"}
    BY <1>8 DEF Skip, Through, TypeOK
  <2> QED
    BY <2>1
<1>9. ASSUME NEW h \in Node, StartBackup(h) PROVE PointInv'
  BY <1>9 DEF StartBackup
<1>10. ASSUME NEW h \in Node, Leave(h), h \in pending, task = "backup", bare' = bare,
             backups' = backups
       PROVE PointInv'
  <2>1. hosts' = hosts \ {h}
    BY <1>10 DEF Leave
  <2>2. CASE pending # {h}
    BY <1>10, <2>1, <2>2 DEF Leave, Through
  <2>3. CASE pending = {h} /\ hosts = {h}
    BY <1>10, <2>3 DEF Leave, Through
  <2>4. CASE pending = {h} /\ hosts # {h}
    <3>1. PICK k \in hosts : k # h
      BY <1>10, <2>4 DEF TypeOK
    <3>2. backups > 0
      BY <1>10, <2>4, <3>1
    <3> QED
      BY <1>10, <2>4, <3>2 DEF Leave, Through
  <2> QED
    BY <2>2, <2>3, <2>4
<1>11. ASSUME NEW h \in Node, BackupRefused(h) PROVE PointInv'
  BY <1>10, <1>11 DEF BackupRefused
<1>12. ASSUME NEW h \in Node, EndBackup(h) PROVE PointInv'
  <2>1. task = "backup" /\ h \in pending /\ bare' = bare
    BY <1>12 DEF EndBackup
  <2>2. CASE Completes /\ Through(h, "done", {})
    <3>1. backups' > 0 /\ task' \in {"backup", "done"}
      BY <2>1, <2>2 DEF Completes, Through, TypeOK
    <3> QED
      BY <3>1
  <2>3. CASE Leave(h) /\ UNCHANGED backups
    BY <1>10, <2>1, <2>3
  <2> QED
    BY <1>12, <2>2, <2>3 DEF EndBackup
<1>13. CASE UNCHANGED vars
  BY <1>13
<1> QED
  BY <1>1, <1>2, <1>3, <1>4, <1>5, <1>6, <1>7, <1>8, <1>9, <1>11, <1>12, <1>13
     DEF Next, Environment, Playbook, HostStep

\* A play that gets through the initial backup leaves a backup.
THEOREM PointGiven == Spec => []RecoveryPoint
<1>1. Init => PointInv
  BY DEF Init, PointInv, Over
<1>2. PointInv => RecoveryPoint
  BY DEF PointInv, RecoveryPoint
<1> QED
  BY <1>1, <1>2, TypeCorrect, PointStep, PTL DEF Spec

-----------------------------------------------------------------------------
(***************************************************************************)
(* How long the play can be: the measure behind Terminates.                *)
(***************************************************************************)

\* The tasks that may still come: one for the play until the initial backup, then
\* one for each host that looks and two (start and end) for each that backs up.
Work ==
  IF task = "read" THEN 3 * Cardinality(hosts) + 7
  ELSE IF task = "patch" THEN 3 * Cardinality(hosts) + 6
  ELSE IF task = "await" THEN 3 * Cardinality(hosts) + 5
  ELSE IF task = "locate" THEN 3 * Cardinality(hosts) + 4
  ELSE IF task = "switch" THEN 3 * Cardinality(hosts) + 3
  ELSE IF task = "check" THEN 3 * Cardinality(hosts) + 2
  ELSE IF task = "inspect" THEN 2 * Cardinality(hosts) + Cardinality(pending) + 1
  ELSE IF task = "backup" THEN 2 * Cardinality(pending) + IF locked = "play" THEN 0 ELSE 1
  ELSE 0

\* Of finitely many hosts, those in the play and those to be asked are finite.
LEMMA HostsFinite ==
  ASSUME IsFiniteSet(Node), TypeOK
  PROVE  /\ IsFiniteSet(hosts) /\ Cardinality(hosts) \in 0 .. Cardinality(Node)
         /\ IsFiniteSet(pending) /\ Cardinality(pending) \in 0 .. Cardinality(hosts)
<1>1. hosts \subseteq Node /\ pending \subseteq hosts
  BY DEF TypeOK
<1> QED
  BY <1>1, FS_Subset, FS_CardinalityType

\* The measure is bounded by the number of hosts.
LEMMA WorkType ==
  ASSUME IsFiniteSet(Node), TypeOK
  PROVE  Work \in 0 .. (3 * Cardinality(Node) + 7)
<1>1. Cardinality(Node) \in Nat
  BY FS_CardinalityType
<1> QED
  BY <1>1, HostsFinite DEF Work

\* A host that is through with its task takes one from those to be asked.
LEMMA ThroughWork ==
  ASSUME IsFiniteSet(Node), TypeOK, NEW h \in pending, NEW next, NEW rest,
         Through(h, next, rest)
  PROVE  /\ Cardinality(pending) \in Nat \ {0}
         /\ \/ task' = next /\ pending' = rest /\ Cardinality(pending) = 1
            \/ task' = task /\ Cardinality(pending') = Cardinality(pending) - 1
<1>1. IsFiniteSet(pending) /\ Cardinality(pending) \in Nat
  BY HostsFinite
<1>2. Cardinality(pending) # 0
  BY <1>1, FS_EmptySet
<1>3. Cardinality(pending \ {h}) = Cardinality(pending) - 1
  BY <1>1, FS_RemoveElement
<1> QED
  BY <1>1, <1>2, <1>3, FS_Singleton DEF Through

\* A host that leaves takes its backup with it.
LEMMA LeaveWork ==
  ASSUME IsFiniteSet(Node), TypeOK, NEW h \in pending, Leave(h), task = "backup",
         locked' \in {locked, None}
  PROVE  Work' < Work
<1>1. PICK next \in {"failed", "done"} : Through(h, next, {})
  BY DEF Leave
<1> QED
  BY <1>1, ThroughWork, NoneAssumption DEF Work

\* Every task takes from the measure, whatever its outcome.
LEMMA PlaybookWorks ==
  ASSUME IsFiniteSet(Node), TypeOK, Playbook
  PROVE  Work' < Work
<1>1. /\ IsFiniteSet(hosts) /\ Cardinality(hosts) \in Nat
      /\ IsFiniteSet(pending) /\ Cardinality(pending) \in Nat
  BY HostsFinite
<1>2. CASE Fail /\ task \in {"read", "patch", "locate", "switch", "check"}
  BY <1>1, <1>2 DEF Fail, Work
<1>3. CASE ReadConfig \/ PatchConfig \/ Locate
  BY <1>1, <1>3 DEF ReadConfig, PatchConfig, Locate, play, Work
<1>4. CASE AwaitActive
  <2>1. /\ task = "await" /\ hosts' \subseteq hosts /\ task' \in {"failed", "locate"}
    BY <1>4 DEF AwaitActive
  <2>2. Cardinality(hosts') \in Nat /\ Cardinality(hosts') <= Cardinality(hosts)
    BY <1>1, <2>1, FS_Subset, FS_CardinalityType
  <2> QED
    BY <1>1, <2>1, <2>2 DEF Work
<1>5. CASE SwitchWal
  BY <1>1, <1>2, <1>5 DEF SwitchWal, play, Work
<1>6. CASE Check
  <2>1. CASE task' = "inspect" /\ pending' = hosts /\ hosts' = hosts /\ task = "check"
    BY <1>1, <2>1 DEF Work
  <2>2. CASE task' = "done" /\ task = "check"
    BY <1>1, <2>2 DEF Work
  <2> QED
    BY <1>6, <2>1, <2>2 DEF Check
<1>7. CASE RunOnceFails
  BY <1>2, <1>7 DEF RunOnceFails
<1>8. ASSUME NEW h \in Node, Inspect(h) PROVE Work' < Work
  <2>1. /\ task = "inspect" /\ h \in pending /\ UNCHANGED hosts
        /\ Through(h, "backup", hosts)
    BY <1>8 DEF Inspect
  <2> QED
    BY <1>1, <2>1, ThroughWork DEF Work
<1>9. ASSUME NEW h \in Node, Skip(h) PROVE Work' < Work
  <2>1. task = "backup" /\ h \in pending /\ UNCHANGED locked /\ Through(h, "done", {})
    BY <1>9 DEF Skip, repository
  <2> QED
    BY <1>1, <2>1, ThroughWork DEF Work
<1>10. ASSUME NEW h \in Node, StartBackup(h) PROVE Work' < Work
  BY <1>1, <1>10, NoneAssumption DEF StartBackup, play, Work
<1>11. ASSUME NEW h \in Node, BackupRefused(h) PROVE Work' < Work
  BY <1>11, LeaveWork DEF BackupRefused, repository
<1>12. ASSUME NEW h \in Node, EndBackup(h) PROVE Work' < Work
  <2>1. task = "backup" /\ h \in pending /\ locked = "play" /\ locked' = None
    BY <1>12 DEF EndBackup
  <2>2. CASE Through(h, "done", {})
    BY <1>1, <2>1, <2>2, ThroughWork, NoneAssumption DEF Work
  <2> QED
    BY <1>12, <2>1, <2>2, LeaveWork DEF EndBackup
<1> QED
  BY <1>3, <1>4, <1>5, <1>6, <1>7, <1>8, <1>9, <1>10, <1>11, <1>12 DEF Playbook, HostStep

\* The play has at most 3n + 7 tasks on n hosts, whichever of them fail and wherever
\* the lead goes: each takes from a natural number that nothing adds to.  With
\* fairness of the play this is why it Terminates.
THEOREM RunsOut ==
  ASSUME IsFiniteSet(Node)
  PROVE  Spec => /\ [](Work \in 0 .. (3 * Cardinality(Node) + 7))
                 /\ [][IF Playbook THEN Work' < Work ELSE Work' <= Work]_vars
<1>1. TypeOK => Work \in 0 .. (3 * Cardinality(Node) + 7)
  BY WorkType
<1>2. TypeOK /\ [Next]_vars => [IF Playbook THEN Work' < Work ELSE Work' <= Work]_vars
  <2> SUFFICES ASSUME TypeOK, [Next]_vars
               PROVE  IF Playbook THEN Work' < Work ELSE Work' <= Work
    OBVIOUS
  <2>1. CASE Playbook
    BY <2>1, PlaybookWorks
  <2>2. CASE ~Playbook
    <3>1. Work \in Nat
      BY WorkType, FS_CardinalityType
    <3>2. CASE UNCHANGED <<task, hosts, pending, locked>>
      <4>1. Work' = Work
        BY <3>2 DEF Work
      <4> QED
        BY <2>2, <3>1, <4>1
    <3>3. CASE StartTimed \/ EndTimed
      <4>1. /\ UNCHANGED <<task, hosts, pending>>
            /\ locked # "play" /\ locked' # "play"
        BY <3>3, NoneAssumption DEF StartTimed, EndTimed, play
      <4>2. Work' = Work
        BY <4>1 DEF Work
      <4> QED
        BY <2>2, <3>1, <4>2
    <3> QED
      BY <2>2, <3>2, <3>3 DEF Next, Environment, LoseLeader, Elect, Apply, vars, play, repository
  <2> QED
    BY <2>1, <2>2
<1> QED
  BY <1>1, <1>2, TypeCorrect, PTL DEF Spec

=============================================================================

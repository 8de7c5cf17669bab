-------------------------- MODULE ArchiveActivation --------------------------
(***************************************************************************)
(* The last play of playbooks/_pgbackrest.yml: it sets archive_command in  *)
(* Patroni's dynamic configuration, waits until every database host has    *)
(* it, makes the leader ship a segment and takes the initial backup.  The  *)
(* lead moves meanwhile, hosts leave the play, and the backup timers, which *)
(* an earlier play has started, take backups of their own.                 *)
(*                                                                         *)
(*   database   the hosts of the group postgres                            *)
(*   local      whether the one database host also keeps the repository    *)
(*   leader     the member that leads, None while nobody does              *)
(*   config     whether the dynamic configuration has archive_command      *)
(*   archiving  the members whose PostgreSQL has it.  A command for another *)
(*              stanza is none of the model's: the stanza and the scope of *)
(*              Patroni's configuration are both the name of the cluster   *)
(*   locked     who backs up, holding the lock of the stanza: "play",      *)
(*              "timer" or None                                            *)
(*   backups    how many backups the repository lists                      *)
(*   task       the task of the play, "done" or "failed" after it          *)
(*   hosts      the hosts still in the play                                *)
(*   pending    the hosts that the task has still to be done on            *)
(*   located    the leader the play has looked up                          *)
(*   bare       the hosts that found no backup when they looked            *)
(*   refused    history: the hosts that left because pgBackRest did not    *)
(*              start their backup                                         *)
(*   moves      how often the lead was lost                                *)
(*   disturbed  history: a task failed of itself, a timer took a backup or *)
(*              the lead was lost during the play                          *)
(***************************************************************************)
EXTENDS Naturals, FiniteSets

CONSTANTS
  Node,
  None,        \* no host
  MaxMoves,    \* bound on the losses of the lead
  MaxTimed     \* bound on the backups the repository has before another timed one

ASSUME NoneAssumption == None \notin Node \cup {"play", "timer"}
ASSUME BoundAssumption == MaxMoves \in Nat /\ MaxTimed \in Nat

VARIABLES database, local, leader, config, archiving, locked, backups, task, hosts, pending,
          located, bare, refused, moves, disturbed

cluster == <<database, local, leader, config, archiving, moves>>
repository == <<locked, backups>>
play == <<hosts, pending, located, bare, refused>>
vars == <<cluster, repository, task, play, disturbed>>

Task == {"read", "patch", "await", "locate", "switch", "check", "inspect", "backup"}
Over == {"done", "failed"}

\* The variables stay in their ranges; a host is asked only while it is in the play.
TypeOK ==
  /\ database \in (SUBSET Node) \ {{}} /\ local \in BOOLEAN
  /\ leader \in database \cup {None}
  /\ config \in BOOLEAN /\ archiving \subseteq database
  /\ locked \in {"play", "timer", None} /\ backups \in Nat
  /\ task \in Task \cup Over
  /\ hosts \subseteq database /\ pending \subseteq IF task \in {"inspect", "backup"} THEN hosts ELSE {}
  /\ located \in database \cup {None}
  /\ bare \subseteq database /\ refused \subseteq bare \ hosts
  /\ moves \in 0 .. MaxMoves /\ disturbed \in BOOLEAN

\* A first deployment, or one of a cluster that has its configuration and perhaps
\* backups already.  Only a single database host may keep the repository.
Init ==
  /\ database \in (SUBSET Node) \ {{}}
  /\ local \in BOOLEAN /\ (local => \E n \in Node : database = {n})
  /\ leader \in database
  /\ config \in BOOLEAN
  /\ archiving \in IF config THEN SUBSET database ELSE {{}}
  /\ locked = None
  /\ backups \in IF config THEN {0, 1} ELSE {0}
  /\ task = "read"
  /\ hosts = database /\ pending = {} /\ located = None /\ bare = {} /\ refused = {}
  /\ moves = 0
  /\ disturbed = FALSE

-----------------------------------------------------------------------------
(***************************************************************************)
(* Patroni and the timers.                                                 *)
(***************************************************************************)

LoseLeader ==
  /\ moves < MaxMoves /\ leader # None
  /\ leader' = None
  /\ moves' = moves + 1
  /\ disturbed' = TRUE
  /\ UNCHANGED <<database, local, config, archiving, repository, task, play>>

Elect(n) ==
  /\ leader = None /\ n \in database
  /\ leader' = n
  /\ UNCHANGED <<database, local, config, archiving, moves, repository, task, play, disturbed>>

\* Patroni puts its dynamic configuration into effect on a member.
Apply(n) ==
  /\ config /\ n \in database \ archiving
  /\ archiving' = archiving \cup {n}
  /\ UNCHANGED <<database, local, leader, config, moves, repository, task, play, disturbed>>

StartTimed ==
  /\ locked = None /\ backups < MaxTimed
  /\ locked' = "timer"
  /\ disturbed' = TRUE
  /\ UNCHANGED <<cluster, backups, task, play>>

\* pgBackRest completes a backup only of a cluster whose leader archives.
Completes == leader \in archiving /\ backups' = backups + 1

EndTimed ==
  /\ locked = "timer"
  /\ locked' = None
  /\ Completes \/ UNCHANGED backups
  /\ UNCHANGED <<cluster, task, play, disturbed>>

-----------------------------------------------------------------------------
(***************************************************************************)
(* _archive.yml.  All its tasks but one have run_once: they are done on    *)
(* one host, and their failure ends the play for all.                      *)
(***************************************************************************)

Fail ==
  /\ task' = "failed"
  /\ hosts' = {} /\ pending' = {}
  /\ UNCHANGED <<cluster, repository, located, bare, refused>>

RunOnceFails ==
  /\ task \in {"read", "patch", "locate", "switch", "check"}
  /\ Fail
  /\ disturbed' = TRUE

ReadConfig ==
  /\ task = "read"
  /\ task' = IF config THEN "await" ELSE "patch"
  /\ UNCHANGED <<cluster, repository, play, disturbed>>

PatchConfig ==
  /\ task = "patch"
  /\ config' = TRUE
  /\ task' = "await"
  /\ UNCHANGED <<database, local, leader, archiving, moves, repository, play, disturbed>>

\* Mutant: with run_once, too, one host is asked.
AwaitOnce ==
  /\ task = "await"
  /\ archiving \cap hosts # {}
  /\ task' = "locate"
  /\ UNCHANGED <<cluster, repository, play, disturbed>>

\* Mutant: the retries are not bounded.
AwaitAll ==
  /\ task = "await"
  /\ hosts \subseteq archiving
  /\ task' = "locate"
  /\ UNCHANGED <<cluster, repository, play, disturbed>>

\* Every host is asked until its command names pgbackrest; a host that does not get
\* that far leaves the play.
AwaitActive ==
  /\ task = "await"
  /\ \E active \in SUBSET (hosts \cap archiving) :
       /\ hosts' = active
       /\ task' = IF active = {} THEN "failed" ELSE "locate"
       /\ disturbed' = (disturbed \/ active # hosts)
  /\ UNCHANGED <<cluster, repository, pending, located, bare, refused>>

\* The leader that GET /cluster names; there may be none, and the next task fails.
Locate ==
  /\ task = "locate"
  /\ located' = leader
  /\ task' = "switch"
  /\ UNCHANGED <<cluster, repository, hosts, pending, bare, refused, disturbed>>

\* Mutant: the segment is switched on a host of the play.
SwitchOnAny ==
  /\ task = "switch"
  /\ \/ leader \in hosts \cup {None} /\ task' = "check" /\ UNCHANGED <<cluster, repository, play>>
     \/ hosts # {leader} /\ Fail
  /\ UNCHANGED disturbed

\* pg_switch_wal fails on a standby; a member that has lost the lead may not be one yet.
SwitchWal ==
  /\ task = "switch"
  /\ \/ /\ located # None /\ leader \in {located, None}
        /\ task' = "check"
        /\ UNCHANGED <<cluster, repository, play>>
     \/ (located = None \/ leader # located) /\ Fail
  /\ UNCHANGED disturbed

\* The wait for archive.info and pgbackrest check, on one host of the play, whose
\* configuration names no PostgreSQL but its own: it has the command by now, and on a
\* standby nothing is archived, so that whoever leads may archive or not.  Then comes
\* the initial backup, if it is asked for.
Check ==
  /\ task = "check"
  /\ \/ task' = "done" /\ UNCHANGED pending
     \/ task' = "inspect" /\ pending' = hosts
  /\ UNCHANGED <<cluster, repository, hosts, located, bare, refused, disturbed>>

-----------------------------------------------------------------------------
(***************************************************************************)
(* _initial_backup.yml.  Neither of its tasks has run_once: all hosts look *)
(* on the first database host for backups, then all that found none take   *)
(* one there.                                                              *)
(***************************************************************************)

\* A host is through with the task, after the last one comes the next task.
Through(h, next, rest) ==
  IF pending = {h} THEN task' = next /\ pending' = rest
                   ELSE pending' = pending \ {h} /\ UNCHANGED task

Inspect(h) ==
  /\ task = "inspect" /\ h \in pending
  /\ bare' = IF backups = 0 THEN bare \cup {h} ELSE bare
  /\ Through(h, "backup", hosts)
  /\ UNCHANGED <<cluster, repository, hosts, located, refused, disturbed>>

Skip(h) ==
  /\ task = "backup" /\ h \in pending \ bare
  /\ Through(h, "done", {})
  /\ UNCHANGED <<cluster, repository, hosts, located, bare, refused, disturbed>>

\* Mutant: the failure is ignored.
LeaveIgnored(h) ==
  /\ UNCHANGED hosts
  /\ Through(h, "done", {})

\* The task fails on a host: it leaves, and the play fails when it was the last one.
Leave(h) ==
  /\ hosts' = hosts \ {h}
  /\ Through(h, IF hosts = {h} THEN "failed" ELSE "done", {})

\* pgBackRest backs up on the host of the repository only, one run at a time.
StartBackup(h) ==
  /\ task = "backup" /\ h \in pending \cap bare
  /\ local /\ locked = None
  /\ locked' = "play"
  /\ UNCHANGED <<cluster, backups, task, play, disturbed>>

BackupRefused(h) ==
  /\ task = "backup" /\ h \in pending \cap bare
  /\ ~local \/ locked = "timer"
  /\ Leave(h)
  /\ refused' = refused \cup {h}
  /\ UNCHANGED <<cluster, repository, located, bare, disturbed>>

\* Mutant: the result of the backup is not looked at.
EndBackupAnyway(h) ==
  /\ task = "backup" /\ h \in pending /\ locked = "play"
  /\ locked' = None
  /\ Completes \/ UNCHANGED backups
  /\ Through(h, "done", {})
  /\ UNCHANGED <<cluster, hosts, located, bare, refused, disturbed>>

EndBackup(h) ==
  /\ task = "backup" /\ h \in pending /\ locked = "play"
  /\ locked' = None
  /\ \/ Completes /\ Through(h, "done", {}) /\ UNCHANGED <<hosts, disturbed>>
     \/ Leave(h) /\ disturbed' = TRUE /\ UNCHANGED backups
  /\ UNCHANGED <<cluster, located, bare, refused>>

-----------------------------------------------------------------------------
Environment == LoseLeader \/ StartTimed \/ EndTimed \/ \E n \in Node : Elect(n) \/ Apply(n)
HostStep(h) == Inspect(h) \/ Skip(h) \/ StartBackup(h) \/ BackupRefused(h) \/ EndBackup(h)
Playbook ==
  \/ ReadConfig \/ PatchConfig \/ AwaitActive \/ Locate \/ SwitchWal \/ Check \/ RunOnceFails
  \/ \E h \in Node : HostStep(h)

Next == Environment \/ Playbook

Spec == Init /\ [][Next]_vars

\* The play's tasks return.
FairSpec == Spec /\ WF_vars(Playbook)

-----------------------------------------------------------------------------
(***************************************************************************)
(* Properties.                                                             *)
(***************************************************************************)

\* After the play has waited for archive_command, whoever comes to lead archives,
\* unless it is a host that the play has lost.
LeaderArchives ==
  task \notin {"read", "patch", "await"} => leader \in archiving \cup (database \ hosts) \cup {None}

\* A play that nothing disturbs loses hosts only to the initial backup, and only if
\* the repository is on a host of its own: the segment is switched on the leader, and
\* the backup comes when archiving works.
OnlyDisturbedPlaysFail ==
  ~disturbed => /\ database \ hosts = refused
                /\ local => task # "failed"

\* "The cluster comes out of initial deploy with a real recovery point": a play that
\* gets through the initial backup leaves a backup, whichever host or timer took it.
RecoveryPoint == task = "done" /\ bare # {} => backups > 0

\* The play ends, whatever becomes of the lead.
Terminates == <>(task \in Over)

\* A failing initial backup is a warning and does not fail the deployment.
InitialBackupOnlyWarns == refused = {}

=============================================================================

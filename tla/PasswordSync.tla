---------------------------- MODULE PasswordSync ----------------------------
(***************************************************************************)
(* The passwords of the roles that Patroni manages are in three places:    *)
(* the vault, patroni.yml on every host, which Patroni has read at some    *)
(* time, and pg_authid.  Three things bring them together: a deployment    *)
(* renders patroni.yml and reloads Patroni where that changed it,          *)
(* playbooks/rotate_passwords.yml alters the roles on the leader, and      *)
(* PostgreSQL replicates pg_authid.  All of them may fail halfway, and the *)
(* lead moves meanwhile.                                                   *)
(*                                                                         *)
(*   vault      per role, a number for the password                        *)
(*   rendered   per host, the passwords in patroni.yml                     *)
(*   running    per host, those that Patroni has read                      *)
(*   catalog    per host, those in pg_authid                               *)
(*   leader     the member that leads                                      *)
(*   attached   the standbys that stream                                   *)
(*   diverged   the members that pg_rewind must bring back first           *)
(*   down       the members whose Patroni does not run                     *)
(*   task       the task the deployment's Patroni play is at               *)
(*   hosts      the hosts that are still in that play                      *)
(*   active     those on which it recorded an active Patroni               *)
(*   notified   those whose handler "Reload patroni" is notified           *)
(*   planned    the passwords the deployment has read from the vault       *)
(*   pc, item, good, target, values   per run of rotate_passwords.yml, its *)
(*              task, the item of its loop, whether no item failed, the    *)
(*              leader it located and the passwords it read                *)
(*   deployed   history: the passwords of the last play no host left       *)
(*   missed     history: hosts whose Patroni missed a reload: they left a  *)
(*              play while notified, or Patroni started between the        *)
(*              recording and the rendering                                *)
(*   spoiled    history: runs that, after they located the leader, were    *)
(*              overtaken by a run with other passwords or lost to a       *)
(*              failover                                                   *)
(*   rotations, failures   how many there were                             *)
(***************************************************************************)
EXTENDS Integers, Sequences

CONSTANTS
  Node,
  Runs,           \* bound on the runs of rotate_passwords.yml
  FirstLeader,    \* the member that bootstrapped the cluster
  Roles,          \* the loop of the ALTER USER task
  MaxRotations,   \* bound on the changes of the vault
  MaxFailures     \* bound on the moves of the lead and the failures of a Patroni

ASSUME NodeAssumption == FirstLeader \in Node
ASSUME BoundAssumption == Runs \in Nat /\ MaxRotations \in Nat /\ MaxFailures \in Nat

Role == {Roles[i] : i \in 1 .. Len(Roles)}
ASSUME RolesAssumption == Roles \in Seq(STRING) /\ {"replication", "rewind"} \subseteq Role

\* Runs are numbered in the order in which they locate the leader.
Run == 1 .. Runs

Passwords == [Role -> 0 .. MaxRotations]

VARIABLES
  vault, rendered, running, catalog,
  leader, attached, diverged, down,
  task, hosts, active, notified, planned,
  pc, item, good, target, values,
  deployed, missed, spoiled, rotations, failures

cluster == <<leader, attached, diverged>>
daemons == <<running, down>>
play == <<task, hosts, active, notified, planned, deployed>>
runs == <<pc, item, good, target, values>>
vars == <<vault, rendered, catalog, cluster, daemons, play, missed, runs, spoiled, rotations,
          failures>>

TypeOK ==
  /\ vault \in Passwords /\ planned \in Passwords /\ deployed \in Passwords
  /\ rendered \in [Node -> Passwords]
  /\ running \in [Node -> Passwords]
  /\ catalog \in [Node -> Passwords]
  /\ leader \in Node
  /\ attached \subseteq Node \ {leader}
  /\ diverged \subseteq Node \ (attached \cup {leader})
  /\ down \subseteq Node
  /\ task \in {"none", "record", "render", "wait", "handlers"}
  /\ hosts \subseteq Node /\ active \subseteq Node
  /\ notified \subseteq hosts
  /\ pc \in [Run -> {"start", "alter", "done", "failed"}]
  /\ item \in [Run -> 1 .. Len(Roles)]
  /\ good \in [Run -> BOOLEAN]
  /\ target \in [Run -> Node]
  /\ values \in [Run -> Passwords]
  /\ missed \subseteq Node
  /\ spoiled \subseteq Run
  /\ rotations \in 0 .. MaxRotations
  /\ failures \in 0 .. MaxFailures

\* A deployed cluster: Patroni has set the passwords at initdb.
Init ==
  \E first \in [Role -> {0}] :
    /\ vault = first /\ planned = first /\ deployed = first
    /\ rendered = [n \in Node |-> first]
    /\ running = [n \in Node |-> first]
    /\ catalog = [n \in Node |-> first]
    /\ leader = FirstLeader
    /\ attached = Node \ {leader}
    /\ diverged = {} /\ down = {}
    /\ task = "none" /\ hosts = Node /\ active = {} /\ notified = {}
    /\ pc = [r \in Run |-> "start"]
    /\ item = [r \in Run |-> 1]
    /\ good = [r \in Run |-> TRUE]
    /\ target = [r \in Run |-> leader]
    /\ values = [r \in Run |-> first]
    /\ missed = {} /\ spoiled = {}
    /\ rotations = 0 /\ failures = 0

-----------------------------------------------------------------------------
(***************************************************************************)
(* The vault: ./configure --rotate on one of the three keys.               *)
(***************************************************************************)

Rotate(role) ==
  /\ rotations < MaxRotations
  /\ rotations' = rotations + 1
  /\ vault' = [vault EXCEPT ![role] = rotations + 1]
  /\ UNCHANGED <<rendered, catalog, cluster, daemons, play, missed, runs, spoiled, failures>>

-----------------------------------------------------------------------------
(***************************************************************************)
(* The cluster.                                                            *)
(***************************************************************************)

\* The lead moves; members that have what the new leader has not must be rewound.
Move(n) ==
  /\ failures < MaxFailures
  /\ n \notin down \cup {leader}
  /\ failures' = failures + 1
  /\ leader' = n
  /\ attached' = {}
  /\ diverged' = {leader} \cup {m \in Node \ {n} : catalog[m] # catalog[n]}
  /\ spoiled' = IF catalog[n] = catalog[leader] THEN spoiled
                ELSE spoiled \cup {r \in Run : pc[r] \in {"alter", "done"}}
  /\ UNCHANGED <<vault, rendered, catalog, daemons, play, missed, runs, rotations>>

\* A standby stops streaming, for longer than a reconnection.
Detach(n) ==
  /\ n \in attached
  /\ attached' = attached \ {n}
  /\ UNCHANGED <<vault, rendered, catalog, leader, diverged, daemons, play, missed,
                 runs, spoiled, rotations, failures>>

\* Patroni brings a standby back.  It authenticates with what Patroni has read against
\* what the leader has in pg_authid, to be rewound and to stream.
Reattach(n) ==
  /\ n \notin attached \cup down \cup {leader}
  /\ running[n]["replication"] = catalog[leader]["replication"]
  /\ n \in diverged => running[n]["rewind"] = catalog[leader]["rewind"]
  /\ attached' = attached \cup {n}
  /\ diverged' = diverged \ {n}
  /\ catalog' = IF n \in diverged THEN [catalog EXCEPT ![n] = catalog[leader]] ELSE catalog
  /\ UNCHANGED <<vault, rendered, leader, daemons, play, missed, runs, spoiled,
                 rotations, failures>>

Replicate(n) ==
  /\ n \in attached
  /\ catalog[n] # catalog[leader]
  /\ catalog' = [catalog EXCEPT ![n] = catalog[leader]]
  /\ UNCHANGED <<vault, rendered, cluster, daemons, play, missed, runs, spoiled, rotations,
                 failures>>

\* A Patroni fails; with KillMode=process its PostgreSQL goes on, streaming or leading.
Crash(n) ==
  /\ failures < MaxFailures
  /\ n \notin down
  /\ failures' = failures + 1
  /\ down' = down \cup {n}
  /\ UNCHANGED <<vault, rendered, running, catalog, cluster, play, missed, runs, spoiled,
                 rotations>>

\* These Patronis start and read the file on their hosts.
StartOn(members) ==
  /\ down' = down \ members
  /\ running' = [n \in Node |-> IF n \in members THEN rendered[n] ELSE running[n]]

\* Restart=on-failure, RestartSec=5s.
Start(n) ==
  /\ n \in down
  /\ StartOn({n})
  /\ missed' = missed \ {n}
  /\ UNCHANGED <<vault, rendered, catalog, cluster, play, runs, spoiled, rotations, failures>>

-----------------------------------------------------------------------------
(***************************************************************************)
(* The Patroni play of a deployment.  A task runs on all hosts that are    *)
(* still in the play, one after the other task; hosts on which it fails    *)
(* leave the play.  A handler runs at the end, on the notified hosts left. *)
(***************************************************************************)

Deploy ==
  /\ task = "none"
  /\ task' = "record"
  /\ planned' = vault
  /\ UNCHANGED <<vault, rendered, catalog, cluster, daemons, hosts, active, notified, deployed,
                 missed, runs, spoiled, rotations, failures>>

\* "Record whether patroni was already running before this play"
Record ==
  /\ task = "record"
  /\ task' = "render"
  /\ active' = Node \ down
  /\ UNCHANGED <<vault, rendered, catalog, cluster, daemons, hosts, notified, planned, deployed,
                 missed, runs, spoiled, rotations, failures>>

\* The template is rendered on the hosts that are up, and those on which it differs
\* from the file notify.  Of these, the ones whose Patroni runs without having been
\* recorded miss the reload.
RenderOn(up, notifying) ==
  /\ task = "render"
  /\ task' = "wait"
  /\ hosts' = up
  /\ notified' = notifying
  /\ rendered' = [n \in Node |-> IF n \in up THEN planned ELSE rendered[n]]
  /\ missed' = missed \cup (notifying \ (active \cup down))
  /\ UNCHANGED <<vault, catalog, cluster, daemons, active, planned, deployed, runs, spoiled,
                 rotations, failures>>

\* Mutant: the template notifies no handler.
RenderSilently == \E up \in SUBSET hosts : RenderOn(up, {})

\* "Render patroni.yml"
Render == \E up \in SUBSET hosts : RenderOn(up, {n \in up : rendered[n] # planned})

\* _service.yml
AwaitCluster ==
  /\ task = "wait"
  /\ task' = "handlers"
  /\ \E up \in SUBSET hosts :
       /\ hosts' = up
       /\ StartOn(up \cap down)
       /\ notified' = notified \cap up
       /\ missed' = (missed \ (up \cap down)) \cup ((notified \cap active) \ up)
  /\ UNCHANGED <<vault, rendered, catalog, cluster, active, planned, deployed, runs, spoiled,
                 rotations, failures>>

\* The end of the play, on the hosts on which no handler fails.
EndPlay(left, reloaded) ==
  /\ task = "handlers"
  /\ task' = "none"
  /\ missed' = (missed \ reloaded) \cup (hosts \ left)
  /\ deployed' = IF left = Node THEN planned ELSE deployed
  /\ hosts' = Node /\ active' = {} /\ notified' = {}
  /\ UNCHANGED <<vault, rendered, catalog, cluster, planned, runs, spoiled, rotations,
                 failures>>

\* Mutant: Patroni does not read its configuration again.
ReloadNothing == EndPlay(hosts, notified \cap active) /\ UNCHANGED daemons

\* "Reload patroni": where Patroni was recorded as active, it reads its file again; the
\* module starts a Patroni that is down.
Reload ==
  \E failing \in SUBSET (notified \cap active) :
    LET reloaded == (notified \cap active) \ failing
    IN  /\ EndPlay(hosts \ failing, reloaded)
        /\ StartOn(reloaded)

-----------------------------------------------------------------------------
(***************************************************************************)
(* Runs of rotate_passwords.yml.                                           *)
(***************************************************************************)

\* "Locate the current leader" asks any Patroni that answers.
Locate(r) ==
  /\ pc[r] = "start"
  /\ down # Node
  /\ \A q \in 1 .. r - 1 : pc[q] # "start"
  /\ pc' = [pc EXCEPT ![r] = "alter"]
  /\ target' = [target EXCEPT ![r] = leader]
  /\ values' = [values EXCEPT ![r] = vault]
  /\ UNCHANGED <<vault, rendered, catalog, cluster, daemons, play, missed, item, good, spoiled,
                 rotations, failures>>

\* The operator does not confirm.
Abort(r) ==
  /\ pc[r] = "alter" /\ item[r] = 1
  /\ pc' = [pc EXCEPT ![r] = "failed"]
  /\ UNCHANGED <<vault, rendered, catalog, cluster, daemons, play, missed, item, good, target,
                 values, spoiled, rotations, failures>>

\* Mutant: an item too many.
NextItemTooMany(r, ok) ==
  /\ IF item[r] <= Len(Roles)
       THEN /\ item' = [item EXCEPT ![r] = item[r] + 1]
            /\ good' = [good EXCEPT ![r] = good[r] /\ ok]
            /\ UNCHANGED pc
       ELSE /\ pc' = [pc EXCEPT ![r] = IF good[r] /\ ok THEN "done" ELSE "failed"]
            /\ item' = [item EXCEPT ![r] = 1]
            /\ good' = [good EXCEPT ![r] = TRUE]
  /\ UNCHANGED <<vault, rendered, cluster, daemons, play, missed, target, values, rotations,
                 failures>>

\* Mutant: the result of the last item is the result of the task.
NextItemLast(r, ok) ==
  /\ IF item[r] < Len(Roles)
       THEN item' = [item EXCEPT ![r] = item[r] + 1] /\ UNCHANGED <<pc, good>>
       ELSE /\ pc' = [pc EXCEPT ![r] = IF ok THEN "done" ELSE "failed"]
            /\ item' = [item EXCEPT ![r] = 1]
            /\ UNCHANGED good
  /\ UNCHANGED <<vault, rendered, cluster, daemons, play, missed, target, values, rotations,
                 failures>>

\* After an item that failed the loop goes on, and the task fails at its end.
NextItem(r, ok) ==
  /\ IF item[r] < Len(Roles)
       THEN /\ item' = [item EXCEPT ![r] = item[r] + 1]
            /\ good' = [good EXCEPT ![r] = good[r] /\ ok]
            /\ UNCHANGED pc
       ELSE /\ pc' = [pc EXCEPT ![r] = IF good[r] /\ ok THEN "done" ELSE "failed"]
            /\ item' = [item EXCEPT ![r] = 1]
            /\ good' = [good EXCEPT ![r] = TRUE]
  /\ UNCHANGED <<vault, rendered, cluster, daemons, play, missed, target, values, rotations,
                 failures>>

Current(r) == Roles[item[r]]

\* postgresql_user changes nothing when the password is the right one already.
AlterNothing(r) ==
  /\ pc[r] = "alter"
  /\ catalog[target[r]][Current(r)] = values[r][Current(r)]
  /\ NextItem(r, TRUE)
  /\ UNCHANGED <<catalog, spoiled>>

\* Mutant: the host that was located is written to although it leads no more.
AlterTarget(r) ==
  /\ pc[r] = "alter"
  /\ catalog[target[r]][Current(r)] # values[r][Current(r)]
  /\ catalog' = [catalog EXCEPT ![target[r]][Current(r)] = values[r][Current(r)]]
  /\ spoiled' = spoiled \cup {q \in Run : pc[q] \in {"alter", "done"} /\ values[q] # values[r]}
  /\ NextItem(r, TRUE)

\* It writes if the host it was delegated to leads.
AlterUser(r) ==
  /\ pc[r] = "alter"
  /\ catalog[target[r]][Current(r)] # values[r][Current(r)]
  /\ target[r] = leader
  /\ catalog' = [catalog EXCEPT ![leader][Current(r)] = values[r][Current(r)]]
  /\ spoiled' = spoiled \cup {q \in Run : pc[q] \in {"alter", "done"} /\ values[q] # values[r]}
  /\ NextItem(r, TRUE)

\* A standby refuses to write, and a host may be out of reach.
AlterFails(r) ==
  /\ pc[r] = "alter"
  /\ NextItem(r, FALSE)
  /\ UNCHANGED <<catalog, spoiled>>

-----------------------------------------------------------------------------
Cluster ==
  \E n \in Node : Move(n) \/ Detach(n) \/ Reattach(n) \/ Replicate(n) \/ Crash(n) \/ Start(n)
Play == Deploy \/ Record \/ Render \/ AwaitCluster \/ Reload
Rotation ==
  \E r \in Run : Locate(r) \/ Abort(r) \/ AlterNothing(r) \/ AlterUser(r) \/ AlterFails(r)

Next == (\E role \in Role : Rotate(role)) \/ Cluster \/ Play \/ Rotation

Spec == Init /\ [][Next]_vars

\* systemd restarts a Patroni that failed, and Patroni tries to bring a standby back
\* for as long as it runs.
FairSpec == Spec /\ \A n \in Node : WF_vars(Start(n)) /\ WF_vars(Reattach(n))

-----------------------------------------------------------------------------
(***************************************************************************)
(* Properties.                                                             *)
(***************************************************************************)

\* A run of rotate_passwords.yml that reports success has set the passwords it
\* read on whoever leads, although the lead may have moved at any time, unless a
\* failover lost the change or a run with other passwords came after it.
RotationTakesHold ==
  \A r \in Run : pc[r] = "done" /\ r \notin spoiled => catalog[leader] = values[r]

\* A Patroni that runs has read what is on its host, but during a play or when it
\* missed a reload: its host left a play between the rendering and the handler, or
\* Patroni started between the recording, which decides on the reload, and the
\* rendering.  No later deployment of the same passwords mends either.
StaleOnlyIfReloadMissed ==
  \A n \in Node \ down : running[n] # rendered[n] => n \in notified \cup missed

\* What the comment on the recording takes for granted: where the handler is skipped,
\* Patroni was started with the new configuration, and a reload would be redundant.
SkippedReloadRedundant ==
  task = "handlers" => \A n \in notified \ (active \cup down) : running[n] = rendered[n]

\* The vault was deployed on all hosts and set in the catalog, in any order, and no
\* reload was missed.
FullPass ==
  /\ deployed = vault
  /\ missed = {}
  /\ \E r \in Run : pc[r] = "done" /\ r \notin spoiled /\ values[r] = vault

\* After a deployment and a run of rotate_passwords.yml, in any order and overlapping
\* in any way with others, all places have the passwords of the vault; a Patroni that
\* is down reads them when it starts.
SyncedAfterFullPass ==
  FullPass => /\ catalog[leader] = vault
              /\ \A n \in Node : rendered[n] = vault /\ (n \notin down => running[n] = vault)

\* After both, a standby that is not attached comes back, be it rewound or not.
StandbysReturn ==
  \A n \in Node : FullPass ~> (n \in attached \cup {leader} \/ ~FullPass)

=============================================================================

# pigsty-lite: a verification project

pigsty-lite deploys and operates a PostgreSQL cluster managed by Patroni. It
consists of Ansible playbooks and roles, a `./configure` command that turns a
response file into an inventory and keeps the secrets, and documentation for
operators. The parts with a core logic of their own are the *lifecycle
operations*, which change a live cluster that also changes by itself;
*`./configure`*, which validates a response, derives files from it and keeps the
secrets; the *deployment*, which asserts and dereferences what was derived; and
the two places where a playbook and Patroni have to come to agree, the
*passwords* and the *archive command*. They are modelled here in TLA+,
model-checked with TLC and proved with TLAPS.

## 1. Inventory

| Component | State it keeps | Operations | What makes it correct |
|---|---|---|---|
| `playbooks/minor_upgrade.yml` with `roles/cluster_ops` | Ansible facts (leader, replicas, original primary), hosts still in the run; on the cluster: pause, services, packages | gates; per batch pause, stop, update, start, resume, poll; switchover; verify | never two primaries; one member away at a time, only while paused; no pause left behind; the leader is not taken down as a replica; everything upgraded, old primary last |
| `switchover.yml`, `failover.yml`, `scale_add_replica.yml`, `scale_remove_replica.yml` | the topology located before a prompt | locate, gate, act, poll, verify | what was checked still holds when it is acted on; the cluster keeps a member, its keys and a leader |
| `rotate_passwords.yml`, `roles/patroni` (`_configure.yml`, `_service.yml`, its handler and systemd drop-in), `./configure --rotate` | vault, `patroni.yml` on each host and what Patroni has read of it, `pg_authid` | rotate a secret; record the service's state, render, reload; restart after a failure; ALTER USER for three roles | the places agree after a complete pass; a standby can always come back |
| `configure`, `bin/_passwords.py`, `bin/_vault.py` | response file, `inventory/site.yml`, `response.yml`, `external-monitoring.md`, `.pigsty/vault-pass`, `vault.yml` | wizard, silent run, rotate, validate | secrets are kept and complete, the vault opens, no plaintext stays, derived files agree |
| `bin/_response_schema.py`, the generators | none (pure) | validate, generate | every valid response can be derived from and deploys |
| `site.yml`, `Makefile` and the assertions of the roles | none | `regen`, then plays in a fixed order, each with its preconditions | what was accepted is not refused later, secrets are there, files are fresh |
| `roles/etcd` | the data of each member | assert, render, start, health wait, restart handlers | one cluster, whatever hosts come and go; quorum |
| `roles/pgbackrest`, `_pgbackrest.yml` | repository, `archive_command` in the DCS | activate archiving, initial backup, timers | archiving is active on whoever leads; there is a recovery point |
| `roles/patroni` (`_service.yml`) | service | start, wait for one leader | the member joins |
| `roles/haproxy`, `vip_manager`, `pgbouncer` | rendered configuration, firewall rules | render, open, start | clients reach the leader |
| `roles/ca`, `certs`, `node`, `repos`, `postgres`, `preflight`, `provision` | files, packages | idempotent tasks | order of the deploy |
| monitoring roles | exporters, credential files, dashboards | assert, render, start | the agents have their credentials and are scraped |
| `bin/check_*`, `bin/snapshot_pgdg_packages.py`, molecule | none | development tools | |

How they interact: `./configure` writes files that the playbooks read as
inventory and variables. The playbooks reach the cluster in three ways: systemd
and `patronictl` on a host, Patroni's REST API (GET `/cluster`, GET `/patroni`,
POST `/switchover`, POST `/failover`, PATCH `/config`), and `dnf`. Patroni's
daemons share the DCS (etcd). Nothing serialises two runs of a playbook or of
`./configure`.

The hard behaviours are listed, each at its line, under `hazards` in
`PROJECT.json`: the cluster moves between the task that looks and the task that
acts, above all across a prompt; a daemon starts between the task that records its
state and the one that renders its file; a task fails in the middle of a sequence, with
or without its effect, on one host or on all; a host leaves a play and takes a
pending handler with it; a poll waits for something that may not happen; two
runs read, change and write back the same file; a process is killed between two
writes; the validator, the generators and the roles each have their own idea of
what a response may be.

## 2. Modules

| Module | What it is |
|---|---|
| `PatroniCluster` | the environment: leader key, pause, services, member keys, PostgreSQL state and versions. All of it is external to the repository and is modelled from how the playbooks use it |
| `ClusterOps` | the task files of `roles/cluster_ops` as predicates and sets over that state |
| `MinorUpgrade` | `minor_upgrade.yml`, composed with the environment |
| `RollingMaintenance` | abstract specification: members go out one at a time while failover is suspended; implemented by `MinorUpgrade` |
| `OperatorRuns` | any number of overlapping switchover, failover, remove and add runs, composed with the environment |
| `Configure` | `./configure`: overlapping processes over the files |
| `SecretStore` | abstract specification: a secret that is there changes only by its own rotation; implemented by `Configure` |
| `Response` | the response file and its validator |
| `Derivation` | the generators and the secrets a response asks for |
| `Deployment` | edits, `./configure -s` and `make deploy` over `Derivation`: the files, the plays and their assertions, the etcd members' data |
| `StoreChoice` | abstract specification: at most one etcd membership is founded, and it stays; implemented by `Deployment` |
| `PasswordSync` | vault, `patroni.yml`, daemons that fail and restart, and `pg_authid` under rotations, deployments, `rotate_passwords.yml` and failovers |
| `ArchiveActivation` | the last play of `_pgbackrest.yml` while the lead moves |
| `MinorUpgradeProofs`, `OperatorRunsProofs`, `ConfigureProofs`, `DeploymentProofs`, `PasswordSyncProofs`, `ArchiveActivationProofs` | theorems about the six systems |
| `ClusterProofs` | lemmas about the environment, used by the first two |
| `MC...` | the modules TLC runs: constants and symmetry |

### State and actions against the code

**PatroniCluster.** A member is its place in the sorted inventory. `leader` is
the leader key, `paused` the pause flag in the DCS, `daemon` the members whose
Patroni runs, `members` those with a key (the rows of `/cluster`), `pg` what
PostgreSQL does (`recovering`, `lagging` and `streaming` are a standby that is
not attached, attached but more than the threshold behind, and caught up).
`systemctl stop patroni` leaves PostgreSQL and the keys alone while the cluster
is paused, and stops PostgreSQL and gives up the leader key otherwise.
The words in which Patroni reports a streaming replica's state and a primary's
role changed between its releases: they are the constants `ReplicaState` and
`PrimaryRole`. `changes` counts unplanned losses of the leader, up to
`MaxChanges`; losing the leader because a playbook stopped it is not counted.

**ClusterOps.** `CanFindLeader` and `ReplicaHosts` are `find_leader.yml`,
`Healthy` is `assert_healthy.yml`, `Converged` the `until` of
`wait_member_converged.yml`.

**MinorUpgrade.** `play` and `pc` say which task is next. `FindLeader` is the
include at the head of each play together with what the play then does with the
leader: record it (play 1), end the batch (play 2), end every host but the
original primary (play 4). `Maintain` and `Follow` are the five maintenance
tasks and their order; `SwitchLeader` is play 3. The package tasks on the same
host (`dnf` without and with a pin) are one step. Ansible's semantics of
failure are part of the model: `HostDrops` is a host that leaves a play running
on several hosts, `TaskFails` a task that fails, with or without having had its
effect. A failed `run_once` task or a whole failed batch ends the run, a failed
task of play 4's one remaining host does not. `restarts` is history: how many
servers have been started again, with whichever packages.

**OperatorRuns.** Every run has its operation, its target, what it located and
where it is. The gates, the prompt and the action are steps of their own. The
plays imported by `scale_add_replica.yml` are one step, the start of Patroni;
the services a removal stops beside Patroni are left out. `from`, `moved` and
`mover` are history: the leader located before acting, whether a task of some run has
changed the lead, and which run was the last to do so. `SilentStatus` says whether
`ansible.builtin.uri` registers a status when nothing answers, on which the probe of
an addition depends (section 4).

**Configure.** A run is a process with a program counter, the response it
loaded, the vault it read and the one it will write. Secrets are numbers, 0 for
absent or empty; each generated or typed value is new. The write of a
small file is one step; the write of the passphrase and its `chmod` are two;
`vault_write` is the temporary file, the encryption and the removal; a kill
during the encryption may lose the vault, because `ansible-vault` removes its
output file before it creates it. `bootstraps` and `clobbered` are history.

**Response.** A document maps each field to a tag that says what YAML has there
as far as Python can tell it apart: for a section whether it is absent, `null`,
falsy in another way, not a mapping, or a mapping; for a text whether it is
absent, `null`, no string, empty, refused or accepted by its pattern; for a
number which side of its range it is on; for addresses the family. Each
`_validate_...` function is the predicate that it returns. `Valid` follows the
order and the early returns of `validate`: what it does not look at (anything in
a backup section that is not enabled, a `null` in a section that may be left out)
it accepts, here as there.

**Derivation.** `Inventory`, `Vars` and `Guide` are what the three generators
produce, reduced to groups and to the variables that decide what plays do.
`GeneratesVars` says where the generator would raise: `.get(key, {})` only
replaces an absent key, so that a `null` the validator accepted is
dereferenced.

**Deployment.** A run is `./configure -s`, or `make deploy` (`deploying`), which
does the same without the vault and goes on with the plays. `Load` reads and
validates, `WriteInventory`, `WriteVars` and `WriteGuide` are the three writes in
their order, `CheckVault` the refusal of a vault that lacks a secret. A play is
refused by an assertion (`PlayRefused`), fails for another reason (`PlayFails`,
an undefined secret among them) or succeeds (`Play`). `PlayEtcd` stops anywhere
among the hosts it starts; `store` keeps with which members each host's etcd was
bootstrapped, because `initial-cluster` is read by a host without data only.
`gone` in it are hosts that left the inventory and may be switched off.
`AddSecrets` and `Edit` are the operator, at any time; the vault only grows, so that
deleting a key by hand is not covered. `checked` and `refounded` are history.
The assertions are those about the inventory and the variables, of every role that
has one: the sizes of groups, the rules of `pg_hba.conf`, the interface of the
virtual address, the owners of databases, the place of the repository, the
authentication of the agents and the certificate of the proxy. What an assertion says
about a host (its certificates, binaries, sockets, an address to detect an interface
by) is not a matter of the response: there the play may fail (`PlayFails`). For the
interface the tag `bad` of the response's field stands for a name that no host has.

**PasswordSync.** `rendered` is `patroni.yml`, `running` what Patroni has read of
it, `catalog` `pg_authid`. The Patroni play has four steps: `Record` and `Render`
(`_configure.yml`), `AwaitCluster` (`_service.yml`) and `Reload` (the handler, for the
hosts that are notified and were recorded as active). At each a host may leave the
play. Meanwhile a Patroni may fail (`Crash`) and is started again by systemd
(`Start`), at any time and with what is then in the file. `missed` is history: a host
that leaves after it was notified, or whose Patroni comes up between the recording and
the rendering, has missed its reload. A run of `rotate_passwords.yml` locates the leader, reads
the vault, waits for its prompt and alters one role after the other; an item
that fails does not stop the loop. `ALTER USER` fails on a host that does not
lead any more. `Move` is a failover: standbys that lack what the new leader has
may stream, members that have more must be rewound (`diverged`), and to
authenticate they use what their Patroni has read against the leader's catalog.

**ArchiveActivation.** One action per task. All tasks of `_archive.yml` but the
wait have `run_once`, so that their failure ends the play; the wait and the two
tasks of `_initial_backup.yml` are done host by host, and a host that fails
leaves. The wait passes on any command that names `pgbackrest` (`_archive.yml:53`); that
one is set for another stanza is not modelled, because the stanza and Patroni's scope
are both the cluster's name (`inventory/group_vars/all/main.yml:79`), so that it would
be another cluster. `pgbackrest check` runs on one host and sees only that host's
PostgreSQL: `Check` goes on whatever the leader does, or fails like any task. `Apply` is Patroni putting the dynamic configuration into effect on a
member. That pgBackRest takes one backup at a time, needs a leader that archives
and backs up on the repository's host only is external knowledge
(`docs/operations/day2-backups.md` has "Backups run on the backup store host").
`disturbed` tells plays that failed by themselves from those that met a lost
leader, a failing task or a timed backup.

## 3. Runs

| Run | Shows | Size |
|---|---|---|
| `upgrade` | never two primaries, safety of the pause, the members and the leader, what an undisturbed run completes, that servers are started again only after a lost lead or the one switchover, the refinement of `RollingMaintenance`; under fairness of the playbook alone it ends, and a replica batch's pause is lifted or the run fails | 3 members, 1 unplanned failover, 646 000 states |
| `operators` | two overlapping runs of any kind harm the cluster only after the lead has moved; removals that located the same leader leave a member even if it is lost; a switchover that succeeds has moved the lead whatever ran beside it | 3 members, 2 runs, 1 failover, 3.6 million states |
| `configure` | secrets, vault, plaintext and derived files under overlap and kills; the refinement of `SecretStore` | 2 runs, 1 machine secret, 2 responses, 256 000 states |
| `deploy` | what validates is derived from consistently, finds its secrets, is refused by the roles in exactly six cases, and never makes two etcd clusters unless it refounds one; the refinement of `StoreChoice` | 5 hosts, 2 edits, 355 000 states |
| `rotation` | a rotation that reports success holds, daemons are stale only after a reload they missed, a full pass brings all places together, and standbys then come back | 2 hosts, 2 roles, 2 runs, 1 rotation, 1 failover or failing Patroni, 1.1 million states |
| `archiving` | whoever leads after the wait archives, a play fails only when disturbed or without a local repository, it leaves a backup, and it ends | 3 hosts, lead lost twice, 52 000 states |
| `gate_vocabulary` | violation: the gate refuses a healthy cluster of Patroni 4 | 2 members |
| `complete_old` | violation: an undisturbed run completes while a server still runs the old packages | 2 members |
| `failover_leaderless` | violation: the failover fails when no member leads | 2 members, 1 run |
| `remove_member` | violation: the DCS removal is refused | 2 members, 1 run |
| `reload_skipped` | violation: a Patroni that comes up between recording and rendering stays on the old file, and its reload is skipped | 2 hosts, 1 rotation, 1 failing Patroni |
| `initial_backup` | violation: a refused initial backup fails the deployment | 2 hosts |

**Bounds.** Three members are the fewest with two replica batches, so that a
lead moving between batches can leave a member out, and that a removal leaves
someone; two members suffice for the questions about one batch.
In `upgrade` and `operators` one unplanned failover separates "moved after it was
located" from "never moved"; more of them only repeat it, and the proofs cover
any number. Two overlapping operators or configure processes exhibit every lost
update and every stale check between a pair. One machine secret stands for each of
the four (they are treated alike), one human and one conditional secret differ
from it in who provides them. The two responses of `configure` differ in mode, in
the secret they need and in the file derived from them. The runs are
interchangeable, so their permutations are a symmetry; the properties checked with
it are safety properties. The passing runs use the vocabulary (`running`, `master`)
that lets the playbooks get furthest, as with other words the gate or the poll
stops them; the proofs hold for every choice.

In `deploy` there are two families of responses, because the validator treats
fields independently of topology but for the profile and the mode. On one
database host, from a complete response in each of the three monitoring modes,
one edit gives any one field any tag it can have; the sections below it go with
it. Its databases have an owner among its users, so that an edit of either parts them. On up to four database hosts and a monitor, the hosts, their roles and the
profile change twice. With four, a member of three can be replaced, a cluster of
three can shrink to one host and grow again with another; with two edits, an
inventory comes back to hosts that have kept the data of an earlier one. Two fields edited together are covered
by the proofs, which hold for every response and every edit.
In `rotation` two hosts are a leader and the standby that replaces it.
`MaxFailures` bounds failovers and failing daemons together, to one of either, to
keep the state space small; the safety properties are proved for any number of
both. Two of the three roles are kept, the two that a standby authenticates with; the
third, the superuser's, differs from them in nothing the model has. The items of one
loop over two roles show a failure of the first, of the last and of both.
In `archiving` the number of database hosts is one to three, chosen initially; only a single one may have
the repository beside it. Losing the lead twice lets the member that was looked up
lose it and get it back. The number of timed backups is bounded to two: only
whether there is one is ever asked.

**Deadlock** is not checked where a run ends and a cluster without further changes
may then stand still. It is checked in `deploy`, `rotation` and `reload_skipped`,
where runs can always be started or the cluster can always restart.

**Fairness.** `FairSpec` of `MinorUpgrade` and of `ArchiveActivation` assumes weak
fairness of the playbook's own steps and nothing of the cluster: every task of
Ansible returns, times out or runs out of retries (`cluster_ops_wait_retries`
times `cluster_ops_wait_delay`; 12 times 5 seconds in `_archive.yml`), and the
operator answers the prompt. Elections, replication or restarts are never assumed
to happen. In `PasswordSync` it is the other way round: the only fairness is that
systemd starts a Patroni that failed (`Restart=on-failure`, `RestartSec=5s` in
`systemd-override.conf.j2`), and that Patroni keeps trying to bring a standby back,
which its loop does for as long as it runs; no playbook step and no replication is
assumed.

## 4. Disagreements between code and documents

The six violation runs are listed with quotations under `findings`. In short:
the health gate tests for a word that Patroni 4 does not use; the upgrade is
described as update and restart, and no batch restarts a server, because a
Patroni that is stopped while the cluster is paused leaves PostgreSQL running
(only the demoted primary is started again, before its own packages are
replaced, as a rule); a failover is not
possible without a leader, contrary to its task's name; a removal feeds
`patronictl remove` an answer that it refuses; a reload that the comment on the
recorded state calls redundant is needed when Patroni came up between the recording
and the rendering; and an initial backup that fails is no warning but fails the
deployment.

Seen while modelling, and part of the models, but without a run of their own:

- `bin/_vault.py:4-6` says "We never hold plaintext on disk; reads decrypt to memory,
  writes encrypt from memory". `vault_write` writes all secrets in plaintext to a
  temporary file beside the vault, has `ansible-vault` encrypt it, and removes it
  (54-82). Every write therefore holds plaintext on disk for the time of a subprocess,
  and a run that is killed meanwhile leaves it there. `NothingLeftBehind` says what
  does hold: no run that ended by itself leaves it, however its encryption ended
  (a disk that fills up while the file is written is not modelled, here as elsewhere).
- `README.md:18` says "Read replicas scale by inventory edit, not a new profile". The
  schema admits any number of replicas from two on, every PostgreSQL node becomes an
  etcd member, and the etcd role takes one or three only: a third replica validates
  and stops at the etcd play. This is the first case of `OnlyKnownRefusals`, and
  `RefusalsKnown` proves that it is so for every such response.
- The other cases of `OnlyKnownRefusals` are responses that `./configure` accepts and
  `make deploy` refuses, some after the database is up. That the schema looks at
  `source` only is what the comment in `roles/patroni/tasks/_assert.yml:49-53` says; the
  owner of a database, the mode `byo` (whose certificate no field of a response can
  name) and the interface are left to the roles without a word.
- `scale_add_replica.yml:46` calls a refused connection "good, this is a fresh add",
  and line 60 asserts that the probe has registered no status. `ansible.builtin.uri`
  registers the status -1 when nothing answers, so that the assertion refuses a fresh
  host as well. `SilentStatus` is that behaviour, and `NoAddition` proves that with it
  no addition gets past its first play. The run `operators` has it switched off, to check
  the rest of the playbook against overlapping runs.
- The convergence poll accepts a primary as `master` or `leader` only, while
  `tests/molecule/patroni/molecule/default/verify.yml:38-42` asserts `primary` of
  the same endpoint. The word is the constant `PrimaryRole`, and
  `NewPrimaryNotAwaited` says what follows from the other one: a forced failover
  that has worked is reported as a failure.
- The same poll does not read the lag, while
  `docs/superpowers/specs/2026-05-12-pigsty-lite-design.md` (10.1, step 5) wants it
  below 1 MB: a `lagging` member converges.
- Play 5 can report completion of a paused cluster, if stopping, updating or
  starting the old primary fails in play 4: the resume is that host's and is
  skipped. `PausedOnlyForMaintenance` says that it takes a failed host.
- `make minor-upgrade` is named in the examples of one-host responses
  (`spof.rsp.yml.example`, `aio.rsp.yml.example`); on one member the playbook skips
  the leader's batch, finds nobody to hand over to and fails with the packages as
  they were (`LoneMemberStaysOld`).
- A response with a `null` or an oddly typed section (and any `repos`, which the
  validator never looks at) can pass the validation and stop the variables'
  generator after the inventory was written. `PlainResponsesGenerate` says that
  only such responses do, and `FilesAgree` leaves them out.
- A reload that was missed, because the host left the play before the handler or
  because of the recorded state, is not mended by another deployment, as its template
  finds nothing to change (`StaleOnlyIfReloadMissed`, `missed`): running `make deploy`
  again, the usual remedy, is harmless and not sufficient; a restart of Patroni is.
- `external-monitoring.md` stays when the mode returns to `self_hosted`; the
  properties speak of it in the external modes only.
- Credential files of the agents are removed in `external_push` only
  (`_external_secrets.yml`), so that a change to another mode leaves them.
- Converting one database host to three makes an etcd majority of hosts without
  data: this is the `refounded` of `OneStoreUnlessRefounded`.
- The S3 keys that a secondary store needs are not among the secrets that
  `./configure` asks for; `CheckedSecretsSuffice` therefore speaks of the secrets of
  the monitoring section.

## 5. Proofs

Every safety property of a passing run is proved, as a theorem of the
specification for every value of its constants, and so are the three refinements. None
of the deeper ones is inductive alone; the strengthenings are these.

`MinorUpgradeProofs` proves `Spec => []Inv` for any number of members, any
vocabulary and any number of failovers, and from it the safety properties of
the run `upgrade`, the action property and the refinement:

- `ControlInv`: which tasks occur in which play, that the cluster is paused from
  the stop to the resume, and where each member's service is at each of them.
  `PausedOnlyForMaintenance` and `OneMemberAway` are proved together with it.
- `BatchInv`: a batch of play 2 past its locate is not the leader's, and the
  leader is still the located one unless `changes` has grown. This needs that
  all members' services are up, so that no key expires.
- `ProgressInv`: in a run in which nothing is lost and no host leaves, the
  original primary leads until play 3, exactly the members whose batches are
  over are upgraded, and play 4 upgrades the last.
- `RestartInv`: unless the leader is lost, no server is down or starts before play
  3 hands over, and afterwards only the one that was demoted, which is the member
  play 4 works on. With `ProgressInv`, `OldServersRemain` follows: with two members or
  more an undisturbed completion always leaves a server on the old packages, which the
  run `complete_old` shows for two.
- `StartInv`: the servers that are down or about to start, and the starts there have
  been, are together no more than the losses of the lead, plus one after play 3 has
  handed over. A server comes to wait for a start only by losing the lead, and each
  start takes one off: so `OneServerRestarts` counts every start, on old packages or
  new ones.

`BatchSparesLocatedLeader` follows from `BatchInv`, `CompleteWhenUndisturbed`
and `PromotesUpgraded` from `ProgressInv`. For the refinement the mapping is
`suspended <- paused`, `out <- Node \ daemon` and `upgraded <- ` the members
with new packages; `ControlInv` and `OneMemberAway` give each abstract guard.

`OnePrimary` is proved for both modules that act on the cluster
(`NoSplitBrain` of each) from `PrimaryInv`: nobody but the holder of the leader key
is a primary. `ClusterProofs` proves that an election keeps it if
the members that it does not ask are no primaries (`NoHiddenPrimary`), and that a
switchover or a failover does. Each system supplies that condition in its own
way: an upgrade has members without a Patroni only while the pause forbids
elections (`OneMemberAway`), and the other playbooks never pause, so that a
Patroni takes its PostgreSQL with it (`DownInv`).

Two theorems are about clusters the upgrade was not written for, where TLC has
little to explore because the run stops early. `GateClosed`: with Patroni 4's
word for a replica and two members or more, no run gets past its first gate, and
nothing is paused, stopped or upgraded. `GateInv` says that all keys stay and nobody but
the leader is a primary, so that some row always reads `streaming`.
`LoneMemberStaysOld`: a single member is never upgraded.

`RunsOut`, here and in `ArchiveActivationProofs`, is the part of `Terminates` that
needs no fairness: a measure in the natural numbers, at most `8 * N + 31` and
`3 * n + 7`, that each step of the playbook decreases and nothing else increases,
although plays 2 to 4 repeat the same tasks and a host that fails sends play 4 back
to a locate. So a run is either over, or stands still at a task that never returns.

`OperatorRunsProofs` proves all five properties of `operators` for any number of
members, of overlapping runs and of failovers. Its strengthening: `RunInv` (what a
run has located at each of its tasks, and that a removal's target is not the
leader it located), `LeaderUp` (no pause, so a stopped leader gives its key up),
`UnmovedInv` (until the lead moves, all runs have located the one leader, which is
up and registered), `SurvivorInv` (as long as all located leaders are the same,
that member is up) and `SwitchoverInv` (while the last change of the lead is a
switchover's own, the leader is not the one it located). Each says how checks made on different,
possibly old, topologies fit together: a removal spares the leader it located, so
all of them spare it if it is the same. `RemovalNeedsMove` generalises the run
`remove_member`: no removal gets past `patronictl remove` before the lead was lost
or a task of some run has moved it. `NewPrimaryNotAwaited` and
`GateNeedsLoneLeader` say, from `PrimaryInv`, what Patroni 4's two words do to the
poll and to the gate of every run.

`ConfigureProofs` proves all six properties of `configure` for any number of runs,
secrets and responses. What a run will write keeps every secret of what it read
(`CarriesForward`) unless it rotates it, and then it is all that it read but for that
one (`RotateInv`). From these two the refinement of `SecretStore`: a run that
encrypts over the vault it has read adds or renews, and every other write counts as
`lost`. A typed passphrase belongs to a run that found none.
`CompleteInv` says that no run is about to remove a secret and that a silent one is
about to write, or has left, those it needs: from it `SuccessHasSecrets`.
`DerivedInv` looks at any response that all silent runs have loaded: each derived
file is of it, or a run is about to write it, or none has written any. It is
stated for every response at once, because a run that loads another one changes
which response that is.

`DeploymentProofs` is about any set of initial responses and any edits, including
edits of many fields at once. `FilesInv` relates how far a run is to which files
are of the response it loaded. `CheckedInv` adds that a checked vault is not
called so while the variables are not those of the inventory. `MonitorInv` says
that the plays with the condition are reached with the group. Lemmas about the
validator carry the rest: what a validated response without odd values has
(`PlainGenerates`), which counts of hosts it has in each profile (`ValidCounts`,
`DatabaseCounts`), that a repository beside a database is the primary's
(`BackupBesideDatabase`), that it has one method of authentication, and that each of
its fields has one of its tags (`RoleTags`). Together they make `OnlyKnownRefusals` an
equivalence: the assertions about inventory and variables refuse a validated response
in those six cases, in each of them always, and in no other. A case that validation
itself rules out, such as two methods of authentication at once, is not among them. `StoreInv` is about the etcd data: there
is one membership such that, of every other one found on a host, the hosts that
have its data or may still be given it are no majority. `MinorityStays` proves that
this is kept by deployments that stop anywhere.

For the refinement of `StoreChoice` the memberships that can serve are mapped to
the founded ones. `FoundedGrows` needs two things: a host with data keeps it
(`ServingStays`), and there is one membership at most (`OneStore`). The step that
makes a membership able to serve, in which the last host of a majority is started, is the abstract
`Found`; all other steps stutter, until one refounds.

`PasswordSyncProofs` is about any hosts, any loop of roles (with the two that
standbys need) and any number of runs. `NotifiedInv` ties a stale daemon to a
notification that will be acted on, because the host was recorded as active, or to a
reload that was missed; a daemon that is down has nothing to be stale. `IssuedInv` says that passwords are numbered as they
are made, so that a rotation makes a vault that is nowhere else yet, and with it
`DeployedInv` that what a complete play has deployed stays in the files.
`RunInv` is the loop invariant of the ALTER USER task across failovers: for a run
that is not spoiled, what the host it writes to has of its passwords, the leader
has, and as long as no item failed the leader has those of the items before.
`StandbysAuthenticate` is the safety half of `StandbysReturn`: after a full pass
whatever a running Patroni tries is accepted.

`ArchiveActivationProofs`: `ArchiveInv` (hosts past the wait archive),
`UndisturbedInv` (without a disturbance there is a leader, it is the one looked up,
and hosts are missing only by a refused backup) and `PointInv` (at each task of the
initial backup, each host that is still in the play is yet to do what gives the
repository a backup, or there is one).

The assumptions are those of the modules: there is at least one member, the
vocabularies are among the known words, secrets' names do not clash, there is
a response, the responses to begin with are valid, the set of nodes is finite, the
bounds are naturals, whether a silent host has a status is a Boolean, and the loop of
roles contains the two that standbys authenticate with. TLC evaluates them in every
run. Seven theorems have a hypothesis of their own, named in their statement: the word
in question, the status of a silent host, the number of members, and in
`ArchiveActivation` that the hosts are finite in number.

Only model-checked: liveness (`Terminates` of both modules, `PauseIsTransient`,
`StandbysReturn`), because the prover does not handle fairness and ENABLED; what
can be said of them without is in `RunsOut` and `StandbysAuthenticate`.
Recursion and induction over data are out of the prover's reach too; no module
needs them.

## 6. Not modelled

Patroni's own protocol (leader race, DCS semantics) is reduced to what the
playbooks can observe. The time a lag or a backup takes is an outcome, not a
duration. Of the contents of generated files only what decides about plays,
groups and credentials is there; regular expressions, address and cron parsing
are outcomes (`good`, `bad`), and `ValidCron` stands for all of it.

- Restart handlers of etcd and of Patroni's other configuration: a restart of all
  etcd members in one task takes the quorum away whatever the schedule, so that
  there is nothing for a model checker to find without a model of Patroni's lease.
- HAProxy, PgBouncer, CA and certificates, node, repositories, packages, preflight,
  and of vip-manager, provisioning and monitoring everything but what they assert: tasks that render and install, each idempotent, without state
  that a later step races on.
- `bin/check_exporter_releases.py`, `bin/snapshot_pgdg_packages.py`,
  `bin/check_yaml_jinja.py`: development tools that fetch and compare lists; no
  state of the system depends on them.
- The `mandatory` passwords in the defaults of `roles/patroni`: `./configure` fills
  these secrets in whenever it writes a vault, so that they are not part of
  `Demanded`; a deployment without any vault fails (`PlayFails`).
- Two `make deploy` at the same time: `Deployment` has one run at a time, edited
  under; overlapping writers of the derived files are in `Configure`, where a kill
  between the inventory and the variables is covered too.

The components in `PROJECT.json` name the reason for each.

## 7. Plan

1. Done: `PatroniCluster`, `ClusterOps`, `RollingMaintenance`, `MinorUpgrade`,
   `OperatorRuns`, `Configure`, each with proofs.
2. Done: `Response`, `Derivation`, `Deployment`, `PasswordSync`,
   `ArchiveActivation`, each system with proofs.
3. Left: a model of rolling restarts in the etcd group together with Patroni's
   lease, if the handlers come to be serialised; composition of
   `ArchiveActivation` with the member-level state of `PatroniCluster`.
4. Worth proving next: an abstract specification of the cluster that overlapping
   operator runs leave, from `SurvivorInv` and `PrimaryInv`; bounds like `RunsOut`
   for one operator run.

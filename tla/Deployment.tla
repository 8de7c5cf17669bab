----------------------------- MODULE Deployment -----------------------------
(***************************************************************************)
(* From the response file to the hosts: an operator edits the response,    *)
(* ./configure -s derives the inventory, the variables and the monitoring  *)
(* guide from it, one file after the other, and make deploy goes on with   *)
(* the plays of site.yml, each of which asserts what it needs.  The edits  *)
(* may come at any time, a run may fail anywhere, and the next one starts  *)
(* from what the last one left.                                            *)
(*                                                                         *)
(* Of what the roles assert, the model has all that is about the inventory *)
(* and the variables.  That a host has its certificates, its packages, its *)
(* addresses, a leader and so on depends on the host: such an assertion is *)
(* one of the ways in which a play fails.                                  *)
(*                                                                         *)
(*   response    the response file                                         *)
(*   source      the response that the last run loaded and found valid     *)
(*   inventory, vars, guide   the derived files                            *)
(*   vault       the secrets in the vault; the machine secrets are always  *)
(*               there and left out                                        *)
(*   step        what the run does next, "idle" between runs               *)
(*   deploying   whether the run is make deploy or ./configure -s          *)
(*   outcome     how the last run ended, "none" while there is one         *)
(*   store       per host, the members that its etcd data was bootstrapped *)
(*               with, {} for a host without data.  Data of one cluster is *)
(*               of no use to another.                                     *)
(*   checked     history: the vault was checked for the derived files      *)
(*   refounded   history: an etcd play met data of another membership,     *)
(*               while most of its own hosts had none                      *)
(*   edits       how often the operator has changed the response           *)
(***************************************************************************)
EXTENDS Derivation

CONSTANTS
  Start,        \* response files to begin with, all valid
  Edited(_),    \* what an operator may make of a response file
  MaxEdits      \* bound on the changes an operator makes to the response file

ASSUME NodeAssumption == IsFiniteSet(Node)
ASSUME StartAssumption == \A r \in Start : r \in Responses /\ Valid(r)

Secret == {"grafana_admin", "external_password", "external_bearer_token", "pull_token", "s3"}

VARIABLES response, source, inventory, vars, guide, vault, step, deploying, outcome, store,
          checked, refounded, edits

files == <<inventory, vars, guide>>
operator == <<response, vault, edits>>
allVars == <<operator, source, files, step, deploying, outcome, store, checked, refounded>>

Files == {"inventory", "vars", "guide"}
Plays ==
  {"etcd", "database", "vip", "provision", "backup", "server", "agents", "grafana", "proxy"}

Inventories ==
  [monitor : SUBSET Node, backup_server : SUBSET Node, etcd : SUBSET Node,
   postgres : SUBSET Node, primary : SUBSET Node]
Variables ==
  [profile : {"spof", "ha", "aio"}, mode : {"self_hosted", "external_push", "external_pull"},
   username : BOOLEAN, bearer : BOOLEAN, backup : BOOLEAN, secondary : BOOLEAN,
   hba : Tags("postgres.hba_rules"), databases : Tags("postgres.databases"),
   users : Tags("postgres.users"), vip : BOOLEAN, interface : Tags("vip_manager.interface"),
   tls : Tags("user_facing.mode")]

Guides ==
  [mode : {"self_hosted", "external_push", "external_pull"}, secrets : SUBSET Secret,
   hosts : SUBSET Node, databases : SUBSET Node]

TypeOK ==
  /\ response \in Responses /\ source \in Responses
  /\ inventory \in Inventories
  /\ vars \in Variables
  /\ guide \in Guides
  /\ vault \subseteq Secret
  /\ step \in {"idle", "vault"} \cup Files \cup Plays
  /\ deploying \in BOOLEAN
  /\ outcome \in {"none", "invalid", "crashed", "secret", "configured", "assertion", "failed",
                  "deployed"}
  /\ store \in [Node -> SUBSET Node]
  /\ checked \in BOOLEAN
  /\ refounded \in BOOLEAN
  /\ edits \in Nat

\* A workspace whose files agree, and hosts nothing was deployed on yet.
Init ==
  /\ response \in Start
  /\ source = response
  /\ inventory = Inventory(response)
  /\ vars = Vars(response.doc)
  /\ guide = Guide(response)
  /\ vault = {"grafana_admin"}
  /\ step = "idle"
  /\ deploying = FALSE
  /\ outcome = "none"
  /\ store = [n \in Node |-> {}]
  /\ checked = FALSE
  /\ refounded = FALSE
  /\ edits = 0

-----------------------------------------------------------------------------
(***************************************************************************)
(* The operator.                                                           *)
(***************************************************************************)

Edit ==
  /\ edits < MaxEdits
  /\ \E r \in Edited(response) : r \in Responses /\ response' = r
  /\ edits' = edits + 1
  /\ UNCHANGED <<vault, source, files, step, deploying, outcome, store, checked, refounded>>

\* The wizard, or ansible-vault edit; it takes no secret away.
AddSecrets ==
  /\ vault' = Secret
  /\ UNCHANGED <<response, edits, source, files, step, deploying, outcome, store, checked, refounded>>

-----------------------------------------------------------------------------
(***************************************************************************)
(* ./configure -s, alone or as the first part of make deploy, which passes *)
(* --no-vault.                                                             *)
(***************************************************************************)

Finish(result) == step' = "idle" /\ outcome' = result

Load ==
  /\ step = "idle"
  /\ deploying' \in BOOLEAN
  /\ IF Valid(response)
       THEN step' = "inventory" /\ source' = response /\ outcome' = "none"
       ELSE Finish("invalid") /\ UNCHANGED source
  /\ UNCHANGED <<operator, files, store, checked, refounded>>

WriteInventory ==
  /\ step = "inventory"
  /\ inventory' = Inventory(source)
  /\ checked' = FALSE
  /\ step' = "vars"
  /\ UNCHANGED <<operator, source, vars, guide, deploying, outcome, store, refounded>>

AfterFiles == IF deploying THEN "etcd" ELSE "vault"

\* Mutant: the variables are generated from the file as it is by then.
WriteVarsReread ==
  /\ step = "vars"
  /\ IF GeneratesVars(source.doc)
       THEN /\ vars' = Vars(response.doc)
            /\ step' = IF Mode(source.doc) = "self_hosted" THEN AfterFiles ELSE "guide"
            /\ UNCHANGED outcome
       ELSE Finish("crashed") /\ UNCHANGED vars
  /\ UNCHANGED <<operator, source, inventory, guide, deploying, store, checked, refounded>>

\* The variables are generated after the inventory is written.
WriteVars ==
  /\ step = "vars"
  /\ IF GeneratesVars(source.doc)
       THEN /\ vars' = Vars(source.doc)
            /\ step' = IF Mode(source.doc) = "self_hosted" THEN AfterFiles ELSE "guide"
            /\ UNCHANGED outcome
       ELSE Finish("crashed") /\ UNCHANGED vars
  /\ UNCHANGED <<operator, source, inventory, guide, deploying, store, checked, refounded>>

WriteGuide ==
  /\ step = "guide"
  /\ guide' = Guide(source)
  /\ step' = AfterFiles
  /\ UNCHANGED <<operator, source, inventory, vars, deploying, outcome, store, checked, refounded>>

CheckVault ==
  /\ step = "vault"
  /\ checked' = (RequiredSecrets(source.doc) \subseteq vault)
  /\ Finish(IF checked' THEN "configured" ELSE "secret")
  /\ UNCHANGED <<operator, source, files, deploying, store, refounded>>

-----------------------------------------------------------------------------
(***************************************************************************)
(* The plays.                                                              *)
(***************************************************************************)

\* The secrets a play dereferences.
Demanded(play) ==
  CASE play = "backup" -> IF vars.secondary THEN {"s3"} ELSE {}
    [] play = "agents" ->
         (IF vars.username THEN {"external_password"} ELSE {})
           \cup (IF vars.bearer THEN {"external_bearer_token"} ELSE {})
           \cup (IF vars.mode = "external_pull" THEN {"pull_token"} ELSE {})
    [] play = "grafana" -> {"grafana_admin"}
    [] OTHER -> {}

\* What the roles assert about the inventory and the variables.  The certificate of
\* the operator's own is in variables that no field of the response sets.
EtcdAssertions == Cardinality(inventory.etcd) \in {1, 3}
DatabaseAssertions ==
  /\ inventory.etcd # {} /\ inventory.postgres # {}
  /\ Cardinality(inventory.primary) = 1
  /\ vars.hba # "broken"
VipAssertions == vars.vip => vars.interface # "bad"
ProvisionAssertions ==
  /\ vars.databases # "stray"
  /\ vars.databases = "owned" => vars.users = "good"
BackupAssertions ==
  inventory.postgres \cap inventory.backup_server # {} => Cardinality(inventory.postgres) = 1
MonitorAssertions == Cardinality(inventory.monitor) = 1
ProxyAssertions == MonitorAssertions /\ vars.tls # "byo"
AgentsAssertions ==
  /\ vars.mode = "self_hosted" => inventory.monitor # {}
  /\ ~(vars.username /\ vars.bearer)

Assertions(play) ==
  CASE play = "etcd" -> EtcdAssertions
    [] play = "database" -> DatabaseAssertions
    [] play = "vip" -> VipAssertions
    [] play = "provision" -> ProvisionAssertions
    [] play = "backup" -> BackupAssertions
    [] play \in {"server", "grafana"} -> MonitorAssertions
    [] play = "agents" -> AgentsAssertions
    [] play = "proxy" -> ProxyAssertions

\* The order of site.yml, and the conditions on its imports.  The "database" play
\* stands for four: PostgreSQL, Patroni, pgbouncer and haproxy.
AfterBackup == IF inventory.monitor # {} THEN "server" ELSE "agents"
NextPlay ==
  CASE step = "etcd" -> "database"
    [] step = "database" -> "vip"
    [] step = "vip" -> "provision"
    [] step = "provision" -> IF vars.backup THEN "backup" ELSE AfterBackup
    [] step = "backup" -> AfterBackup
    [] step = "server" -> "agents"
    [] step = "agents" -> IF inventory.monitor # {} THEN "grafana" ELSE "idle"
    [] step = "grafana" -> "proxy"
    [] step = "proxy" -> "idle"

PlayRefused ==
  /\ step \in Plays
  /\ ~Assertions(step)
  /\ Finish("assertion")
  /\ UNCHANGED <<operator, source, files, deploying, store, checked, refounded>>

PlayFails ==
  /\ step \in Plays
  /\ Finish("failed")
  /\ UNCHANGED <<operator, source, files, deploying, store, checked, refounded>>

Play ==
  /\ step \in Plays \ {"etcd"}
  /\ Assertions(step)
  /\ Demanded(step) \subseteq vault
  /\ step' = NextPlay
  /\ outcome' = IF step' = "idle" THEN "deployed" ELSE outcome
  /\ UNCHANGED <<operator, source, files, deploying, store, checked, refounded>>

\* Mutant: the data of another cluster is removed from a host before etcd starts.
FreshOrOther == {h \in inventory.etcd : store[h] # inventory.etcd}

\* initial-cluster of etcd.conf.yml, which only a member without data reads.
Fresh == {h \in inventory.etcd : store[h] = {}}
\* Mutant: a member is started as a cluster of its own.
InitialClusterAlone(h) == {h}

InitialCluster(h) == inventory.etcd

\* etcdctl endpoint health on a member: its cluster has a majority, of which
\* hosts that are not in the inventory any more may be gone.
HasQuorum(s, h, gone) ==
  2 * Cardinality({m \in s[h] : s[m] = s[h] /\ m \notin gone}) > Cardinality(s[h])

Refounds ==
  /\ \E h \in Node : store[h] \notin {{}, inventory.etcd}
  /\ 2 * Cardinality(Fresh) > Cardinality(inventory.etcd)

\* The etcd play gets as far as starting etcd on some of the hosts, or on all.
PlayEtcd ==
  /\ step = "etcd"
  /\ EtcdAssertions
  /\ refounded' = (refounded \/ Refounds)
  /\ \E started \in SUBSET Fresh, gone \in SUBSET (Node \ inventory.etcd) :
       /\ store' = [h \in Node |-> IF h \in started THEN InitialCluster(h) ELSE store[h]]
       /\ \/ /\ started = Fresh
             /\ \A h \in inventory.etcd : HasQuorum(store', h, gone)
             /\ step' = NextPlay /\ UNCHANGED outcome
          \/ Finish("failed")
  /\ UNCHANGED <<operator, source, files, deploying, checked>>

-----------------------------------------------------------------------------
Next ==
  \/ Edit \/ AddSecrets
  \/ Load \/ WriteInventory \/ WriteVars \/ WriteGuide \/ CheckVault
  \/ PlayEtcd \/ Play \/ PlayRefused \/ PlayFails

Spec == Init /\ [][Next]_allVars

-----------------------------------------------------------------------------
(***************************************************************************)
(* Properties.                                                             *)
(***************************************************************************)

\* The files that a run has left are all of the response it loaded, whatever
\* was edited meanwhile and however the runs before it ended, unless that
\* response is one that the variables cannot be generated from.
FilesAgree ==
  step \notin Files /\ GeneratesVars(source.doc)
    => /\ inventory = Inventory(source)
       /\ vars = Vars(source.doc)
       /\ Mode(source.doc) # "self_hosted" => guide = Guide(source)

\* Only a response that spells out a value that is none of the expected type can
\* pass the validation and then stop the generators: null, an empty list, ...
PlainResponsesGenerate ==
  outcome = "crashed"
    => \E f \in Section \cup {"schedule.full", "schedule.differential"} :
         source.doc[f] \in {"null", "zero", "empty", "other"}

\* When ./configure has accepted the vault for the files, the plays find every
\* secret that comes from the monitoring section, however late they run.
CheckedSecretsSuffice ==
  checked => Demanded("agents") \subseteq vault

\* The guide tells the operator about exactly the secrets the agents use and, when
\* they are scraped, about every host the agents play runs on.
GuideFitsDeployment ==
  step \notin Files /\ GeneratesVars(source.doc) /\ vars.mode # "self_hosted"
    => /\ guide.secrets = Demanded("agents")
       /\ vars.mode = "external_pull" =>
            /\ guide.hosts =
                 inventory.monitor \cup inventory.backup_server \cup inventory.postgres
            /\ guide.databases = inventory.postgres

\* What the roles assert about inventory and variables refuses a response that was
\* validated in six cases, and in these always, whatever the files were before: more
\* than three database hosts, as each becomes an etcd member; a rule of pg_hba.conf
\* that is incomplete or breaks its line; a virtual address on an interface that is
\* not there; the owner of a database who is no user; a backup repository on the
\* primary of several database hosts; and the operator's own certificate.
OnlyKnownRefusals ==
  step \in Plays =>
    LET d == source.doc
        hosts == Cardinality(PostgresHosts(source))
    IN (~Assertions(step) <=>
          \/ step = "etcd" /\ hosts > 3
          \/ step = "database" /\ d["postgres.hba_rules"] = "broken"
          \/ /\ step = "vip"
             /\ d["vip_manager.enabled"] = "true" /\ d["vip_manager.interface"] = "bad"
          \/ /\ step = "provision"
             /\ \/ d["postgres.databases"] = "stray"
                \/ d["postgres.databases"] = "owned" /\ d["postgres.users"] # "good"
          \/ /\ step = "backup" /\ hosts > 1
             /\ BackupHosts(source) = WithRole(source.nodes, "pg_primary")
          \/ step = "proxy" /\ d["user_facing.mode"] = "byo")

\* There are never two etcd clusters that can serve, whatever hosts are replaced,
\* added and removed between deployments that fail anywhere and are repeated, unless
\* one of them refounds the cluster: initial-cluster-state is always "new".
Serving(h) == store[h] # {} /\ HasQuorum(store, h, {})
OneStoreUnlessRefounded ==
  ~refounded => \A g, h \in Node : Serving(g) /\ Serving(h) => store[g] = store[h]

\* The hosts found at most one etcd cluster, and keep it: one that could serve once
\* can serve for good, whatever is deployed over it and however that ends.  The
\* abstract clusters are the memberships that can serve.
Founded == {store[h] : h \in {g \in Node : Serving(g)}}
Store == INSTANCE StoreChoice WITH founded <- Founded
ImplementsStore == Store!Spec

=============================================================================

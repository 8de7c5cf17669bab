-------------------------- MODULE DeploymentProofs --------------------------
(***************************************************************************)
(* Theorems about Deployment, for any hosts, any response files to begin   *)
(* with and any edits of them.                                             *)
(***************************************************************************)
EXTENDS Deployment, FiniteSetTheorems, TLAPS

-----------------------------------------------------------------------------
(***************************************************************************)
(* What a valid response is.                                               *)
(***************************************************************************)

\* The tags of a section and of a text.
LEMMA SectionTags ==
  ASSUME NEW f \in Section
  PROVE  f \in Field /\ Tags(f) = {"absent", "null", "zero", "empty", "other", "map"}
BY DEF Field, Section, Text, Flag, Number, Items, Cidrs, Tags

LEMMA TextTags ==
  ASSUME NEW f \in Text
  PROVE  f \in Field /\ Tags(f) = {"absent", "null", "wrong", "empty", "bad", "good"}
BY DEF Field, Section, Text, Flag, Number, Items, Cidrs, Tags

\* A document has a tag of the field in each field, and nothing in what is no section.
LEMMA DocumentTags ==
  ASSUME NEW r \in Responses
  PROVE  /\ \A f \in Field : r.doc[f] \in Tags(f)
         /\ \A s \in Section : r.doc[s] # "map" => \A f \in Keys(s) : r.doc[f] = "absent"
         /\ r.nodes \in Nodes
BY DEF Responses, Document

\* The profile and the mode are known.
LEMMA ValidChoices ==
  ASSUME NEW r, Valid(r)
  PROVE  /\ r.doc["profile"] \in {"spof", "ha", "aio"}
         /\ Mode(r.doc) \in {"self_hosted", "external_push", "external_pull"}
BY DEF Valid, ValidMonitoring

\* The tags that decide what the roles make of the databases and of the certificate.
LEMMA RoleTags ==
  ASSUME NEW r \in Responses, Valid(r)
  PROVE  /\ ListOf(r.doc, "postgres.hba_rules") \in Tags("postgres.hba_rules")
         /\ ListOf(r.doc, "postgres.databases") \in Tags("postgres.databases")
         /\ ListOf(r.doc, "postgres.users") \in Tags("postgres.users")
         /\ {"empty", r.doc["vip_manager.interface"]} \subseteq Tags("vip_manager.interface")
         /\ r.doc["user_facing.mode"] \in Tags("user_facing.mode")
<1> DEFINE d == r.doc
<1>1. /\ "postgres.hba_rules" \in Field /\ "postgres.databases" \in Field
      /\ "postgres.users" \in Field /\ "user_facing.mode" \in Field
  BY DEF Field, Items
<1>2. "vip_manager.interface" \in Text
  BY DEF Text
<1>3. /\ d["postgres.hba_rules"] \in Tags("postgres.hba_rules")
      /\ d["postgres.databases"] \in Tags("postgres.databases")
      /\ d["postgres.users"] \in Tags("postgres.users")
      /\ d["user_facing.mode"] \in Tags("user_facing.mode")
  BY <1>1, DocumentTags
<1>4. {"empty", d["vip_manager.interface"]} \subseteq Tags("vip_manager.interface")
  BY <1>2, DocumentTags, TextTags
<1>5. "empty" \in Tags("postgres.hba_rules")
  BY DEF Tags, Section, Text, Flag, Number, Items, Cidrs
<1>6. "empty" \in Tags("postgres.databases")
  BY DEF Tags, Section, Text, Flag, Number, Items, Cidrs
<1>7. "empty" \in Tags("postgres.users")
  BY DEF Tags, Section, Text, Flag, Number, Items, Cidrs
<1> QED
  BY <1>3, <1>4, <1>5, <1>6, <1>7 DEF ListOf

\* The files that are generated have their types.
LEMMA GeneratedTypes ==
  ASSUME NEW r \in Responses, Valid(r)
  PROVE  Inventory(r) \in Inventories /\ Vars(r.doc) \in Variables /\ Guide(r) \in Guides
<1>1. Inventory(r) \in Inventories
  BY DEF Inventory, Inventories, MonitorHosts, BackupHosts, EtcdHosts, PostgresHosts, WithRole
<1>2. Vars(r.doc) \in Variables
  BY ValidChoices, RoleTags DEF Vars, VarsOf, Variables
<1>3. Guide(r) \in Guides
  BY ValidChoices DEF Guide, Guides, Secret, PostgresHosts, WithRole, Declared
<1> QED
  BY <1>1, <1>2, <1>3

-----------------------------------------------------------------------------
(***************************************************************************)
(* Types.                                                                  *)
(***************************************************************************)

\* What was loaded is valid.
TypeInv == TypeOK /\ Valid(source)

LEMMA InitType == Init => TypeInv
<1> SUFFICES ASSUME Init PROVE TypeInv
  OBVIOUS
<1>1. response \in Responses /\ Valid(response) /\ source = response
  BY StartAssumption DEF Init
<1>2. inventory \in Inventories /\ vars \in Variables /\ guide \in Guides
  BY <1>1, GeneratedTypes DEF Init
<1> QED
  BY <1>1, <1>2 DEF Init, TypeInv, TypeOK, Secret

\* The play after one is a play, or the end.
LEMMA NextPlayType ==
  ASSUME step \in Plays
  PROVE  NextPlay \in Plays \cup {"idle"}
BY DEF NextPlay, AfterBackup, Plays

LEMMA AfterFilesType == AfterFiles \in Plays \cup {"vault"}
BY DEF AfterFiles, Plays

\* Every step keeps the types.
LEMMA TypeStep == TypeInv /\ [Next]_allVars => TypeInv'
<1> SUFFICES ASSUME TypeInv, [Next]_allVars PROVE TypeInv'
  OBVIOUS
<1> USE DEF TypeInv, TypeOK, files, operator, Finish
<1>1. CASE Edit
  BY <1>1 DEF Edit
<1>2. CASE AddSecrets
  BY <1>2 DEF AddSecrets
<1>3. CASE Load
  BY <1>3 DEF Load, Files
<1>4. CASE WriteInventory
  <2>1. inventory' \in Inventories
    BY <1>4, GeneratedTypes DEF WriteInventory
  <2> QED
    BY <1>4, <2>1 DEF WriteInventory, Files
<1>5. CASE WriteVars
  <2>1. vars' \in Variables
    BY <1>5, GeneratedTypes DEF WriteVars
  <2>2. step' \in {"idle", "vault"} \cup Files \cup Plays
    BY <1>5, AfterFilesType DEF WriteVars, Files
  <2> QED
    BY <1>5, <2>1, <2>2 DEF WriteVars
<1>6. CASE WriteGuide
  <2>1. guide' \in Guides
    BY <1>6, GeneratedTypes DEF WriteGuide
  <2> QED
    BY <1>6, <2>1, AfterFilesType DEF WriteGuide
<1>7. CASE CheckVault
  BY <1>7 DEF CheckVault
<1>8. CASE PlayEtcd
  <2>1. /\ step' \in Plays \cup {"idle"} /\ outcome' \in {outcome, "failed"}
        /\ refounded' \in BOOLEAN
        /\ UNCHANGED <<operator, source, files, deploying, checked>>
    BY <1>8, NextPlayType DEF PlayEtcd, Plays
  <2>2. store' \in [Node -> SUBSET Node]
    BY <1>8 DEF PlayEtcd, InitialCluster, Inventories
  <2> QED
    BY <2>1, <2>2
<1>9. CASE Play
  BY <1>9, NextPlayType DEF Play
<1>10. CASE PlayRefused
  BY <1>10 DEF PlayRefused
<1>11. CASE PlayFails
  BY <1>11 DEF PlayFails
<1>12. CASE UNCHANGED allVars
  BY <1>12 DEF allVars
<1> QED
  BY <1>1, <1>2, <1>3, <1>4, <1>5, <1>6, <1>7, <1>8, <1>9, <1>10, <1>11, <1>12 DEF Next

LEMMA TypeAlways == Spec => []TypeInv
BY InitType, TypeStep, PTL DEF Spec

\* Type correctness of the response, the files and the hosts.
THEOREM TypeCorrect == Spec => []TypeOK
<1>1. TypeInv => TypeOK
  BY DEF TypeInv
<1> QED
  BY <1>1, TypeAlways, PTL

-----------------------------------------------------------------------------
(***************************************************************************)
(* The files.                                                              *)
(***************************************************************************)

\* How far a run is says which files are those of the response it loaded.
Written ==
  /\ inventory = Inventory(source)
  /\ vars = Vars(source.doc)
  /\ Mode(source.doc) # "self_hosted" => guide = Guide(source)
FilesInv ==
  /\ step = "vars" => inventory = Inventory(source)
  /\ step = "guide" => inventory = Inventory(source) /\ vars = Vars(source.doc)
  /\ step \in {"guide", "vault"} \cup Plays => GeneratesVars(source.doc)
  /\ outcome = "crashed" => ~GeneratesVars(source.doc)
  /\ FilesAgree

LEMMA FilesStep == TypeInv /\ FilesInv /\ [Next]_allVars => FilesInv'
<1> SUFFICES ASSUME TypeInv, FilesInv, [Next]_allVars PROVE FilesInv'
  OBVIOUS
<1> USE DEF FilesInv, FilesAgree, Files, Plays, files, operator, Finish
<1>1. CASE UNCHANGED <<source, files, step, outcome>>
  BY <1>1
<1>2. CASE Load
  BY <1>2 DEF Load
<1>3. CASE WriteInventory
  BY <1>3 DEF WriteInventory
<1>4. CASE WriteVars
  <2>1. CASE GeneratesVars(source.doc)
    BY <1>4, <2>1, AfterFilesType DEF WriteVars
  <2>2. CASE ~GeneratesVars(source.doc)
    BY <1>4, <2>2 DEF WriteVars
  <2> QED
    BY <2>1, <2>2
<1>5. CASE WriteGuide
  BY <1>5, AfterFilesType DEF WriteGuide
<1>6. CASE CheckVault
  BY <1>6 DEF CheckVault
<1>7. CASE PlayEtcd \/ Play \/ PlayRefused \/ PlayFails
  <2>1. /\ step \in Plays /\ step' \in Plays \cup {"idle"}
        /\ outcome' \in {outcome, "assertion", "failed", "deployed"}
        /\ UNCHANGED <<source, files>>
    BY <1>7, NextPlayType DEF PlayEtcd, Play, PlayRefused, PlayFails
  <2> QED
    BY <2>1
<1> QED
  BY <1>1, <1>2, <1>3, <1>4, <1>5, <1>6, <1>7 DEF Next, Edit, AddSecrets, allVars

LEMMA FilesAlways == Spec => []FilesInv
<1>1. Init => FilesInv
  BY DEF Init, FilesInv, FilesAgree, Plays
<1> QED
  BY <1>1, FilesStep, TypeAlways, PTL DEF Spec

\* The files a run has left are all of the response it loaded, whatever was edited
\* meanwhile and however the runs before it ended.
THEOREM FilesFit == Spec => []FilesAgree
<1>1. FilesInv => FilesAgree
  BY DEF FilesInv
<1> QED
  BY <1>1, FilesAlways, PTL

\* A valid response without odd values can be generated from.
LEMMA PlainGenerates ==
  ASSUME NEW r \in Responses, Valid(r),
         \A f \in Section \cup {"schedule.full", "schedule.differential"} :
           r.doc[f] \notin {"null", "zero", "empty", "other"}
  PROVE  GeneratesVars(r.doc)
<1> DEFINE d == r.doc
<1>1. \A s \in Section : d[s] \in {"absent", "map"}
  BY DocumentTags, SectionTags
<1>2. \A s \in Section : Gettable(d, s) /\ Searchable(d, s)
  BY <1>1 DEF Gettable, Searchable
<1>3. d["backup.enabled"] = "true" => d["schedule"] = "absent" \/ ValidSchedule(d)
  <2>1. d["backup"] = "absent" => d["backup.enabled"] = "absent"
    BY DocumentTags DEF Section, Keys
  <2>2. d["backup"] \in {"absent", "map"}
    BY <1>1 DEF Section
  <2> QED
    BY <2>1, <2>2 DEF Valid, ValidBackup, IsNone
<1>4. d["backup.enabled"] = "true"
        => Splittable(d, "schedule.full") /\ Splittable(d, "schedule.differential")
  <2>1. d["schedule"] = "absent"
          => d["schedule.full"] = "absent" /\ d["schedule.differential"] = "absent"
    BY DocumentTags DEF Section, Keys
  <2>2. d["schedule"] \in {"absent", "map"}
    BY <1>1 DEF Section
  <2>3. d["schedule.full"] # "null" /\ d["schedule.differential"] # "null"
    OBVIOUS
  <2> QED
    BY <1>3, <2>1, <2>2, <2>3 DEF ValidSchedule, ValidCron, Falsy, Splittable
<1> QED
  BY <1>2, <1>4 DEF GeneratesVars, FlattensBackup, Section

\* Only a response with a value of an odd type stops the generators.
THEOREM PlainOnes == Spec => []PlainResponsesGenerate
<1>1. TypeInv /\ FilesInv => PlainResponsesGenerate
  BY PlainGenerates DEF TypeInv, TypeOK, FilesInv, PlainResponsesGenerate
<1> QED
  BY <1>1, TypeAlways, FilesAlways, PTL

-----------------------------------------------------------------------------
(***************************************************************************)
(* The secrets and the guide.                                              *)
(***************************************************************************)

\* The agents dereference what the validated response asks for.
LEMMA AgentsDemand ==
  ASSUME Valid(source), vars = Vars(source.doc)
  PROVE  Demanded("agents") = RequiredSecrets(source.doc)
<1>1. CASE Mode(source.doc) = "self_hosted"
  BY <1>1 DEF Demanded, RequiredSecrets, Vars, VarsOf
<1>2. CASE Mode(source.doc) = "external_pull"
  BY <1>2 DEF Demanded, RequiredSecrets, Vars, VarsOf
<1>3. CASE Mode(source.doc) = "external_push"
  BY <1>3 DEF Demanded, RequiredSecrets, Vars, VarsOf
<1> QED
  BY <1>1, <1>2, <1>3, ValidChoices

\* The vault is not called checked while the variables are not those of the inventory.
CheckedInv == CheckedSecretsSuffice /\ (checked => step \notin {"vars", "guide", "vault"})

LEMMA CheckedStep == TypeInv /\ FilesInv /\ CheckedInv /\ [Next]_allVars => CheckedInv'
<1> SUFFICES ASSUME TypeInv, FilesInv, CheckedInv, [Next]_allVars PROVE CheckedInv'
  OBVIOUS
<1> USE DEF CheckedInv, CheckedSecretsSuffice, Demanded, files, operator, Finish
<1>1. CASE UNCHANGED <<vars, vault, step, checked>>
  BY <1>1
<1>2. CASE AddSecrets
  BY <1>2 DEF AddSecrets, TypeInv, TypeOK, Secret
<1>3. CASE Load
  BY <1>3 DEF Load
<1>4. CASE WriteInventory
  BY <1>4 DEF WriteInventory
<1>5. CASE WriteVars
  BY <1>5 DEF WriteVars
<1>6. CASE WriteGuide
  BY <1>6 DEF WriteGuide
<1>7. CASE CheckVault
  <2>1. Demanded("agents") = RequiredSecrets(source.doc)
    BY <1>7, AgentsDemand DEF CheckVault, TypeInv, FilesInv, FilesAgree, Files
  <2>2. /\ checked' = (RequiredSecrets(source.doc) \subseteq vault) /\ step' = "idle"
        /\ UNCHANGED <<vars, vault>>
    BY <1>7 DEF CheckVault
  <2> QED
    BY <2>1, <2>2
<1>8. CASE PlayEtcd \/ Play \/ PlayRefused \/ PlayFails
  <2>1. step' \in Plays \cup {"idle"} /\ UNCHANGED <<vars, vault, checked>>
    BY <1>8, NextPlayType DEF PlayEtcd, Play, PlayRefused, PlayFails, Plays
  <2> QED
    BY <2>1 DEF Plays
<1> QED
  BY <1>1, <1>2, <1>3, <1>4, <1>5, <1>6, <1>7, <1>8 DEF Next, Edit, allVars

\* Once ./configure has accepted the vault for the files, the agents find their
\* secrets, whatever is edited and however late they run.
THEOREM SecretsSuffice == Spec => []CheckedSecretsSuffice
<1>1. Init => CheckedInv
  BY DEF Init, CheckedInv, CheckedSecretsSuffice
<1>2. CheckedInv => CheckedSecretsSuffice
  BY DEF CheckedInv
<1> QED
  BY <1>1, <1>2, CheckedStep, TypeAlways, FilesAlways, PTL DEF Spec

\* In the external modes every declared host is in a group.
LEMMA HostsDeclared ==
  ASSUME NEW r \in Responses, Valid(r), Mode(r.doc) # "self_hosted"
  PROVE  Declared(r.nodes) = MonitorHosts(r) \cup BackupHosts(r) \cup PostgresHosts(r)
<1>1. \A n \in Declared(r.nodes) : r.nodes[n].role \in NodeRole
  BY DEF Valid, ValidNodes
<1>2. \A n \in Node : n \in Declared(r.nodes) <=> r.nodes[n].role \in NodeRole
  BY <1>1 DEF Declared, NodeRole
<1>3. MonitorHosts(r) = WithRole(r.nodes, "monitor")
  BY DEF MonitorHosts
<1>4. BackupHosts(r) \in {WithRole(r.nodes, role) : role \in NodeRole}
      /\ WithRole(r.nodes, "backup_store") \subseteq BackupHosts(r)
  BY <1>3 DEF BackupHosts, NodeRole
<1> QED
  BY <1>2, <1>3, <1>4 DEF PostgresHosts, WithRole, NodeRole, Declared

\* The guide names exactly the secrets the agents use and every host they run on.
THEOREM GuideFits == Spec => []GuideFitsDeployment
<1>1. TypeInv /\ FilesInv => GuideFitsDeployment
  <2> SUFFICES ASSUME TypeInv, FilesInv, step \notin Files, GeneratesVars(source.doc),
                      vars.mode # "self_hosted"
               PROVE  /\ guide.secrets = Demanded("agents")
                      /\ vars.mode = "external_pull" =>
                           /\ guide.hosts = inventory.monitor \cup inventory.backup_server
                                              \cup inventory.postgres
                           /\ guide.databases = inventory.postgres
    BY DEF GuideFitsDeployment
  <2>1. inventory = Inventory(source) /\ vars = Vars(source.doc)
    BY DEF FilesInv, FilesAgree
  <2>2. vars.mode = Mode(source.doc)
    BY <2>1 DEF Vars, VarsOf
  <2>3. guide = Guide(source) /\ vars.mode \in {"external_push", "external_pull"}
        /\ source \in Responses /\ Valid(source)
    BY <2>2, ValidChoices DEF FilesInv, FilesAgree, TypeInv, TypeOK
  <2>4. guide.secrets = Demanded("agents")
    BY <2>1, <2>2, <2>3 DEF Guide, Demanded, Vars, VarsOf
  <2>5. CASE vars.mode = "external_pull"
    <3>1. Declared(source.nodes) =
            MonitorHosts(source) \cup BackupHosts(source) \cup PostgresHosts(source)
      BY <2>2, <2>3, <2>5, HostsDeclared
    <3>2. guide.hosts = Declared(source.nodes) /\ guide.databases = PostgresHosts(source)
      BY <2>2, <2>3, <2>5 DEF Guide
    <3> QED
      BY <2>1, <2>4, <3>1, <3>2 DEF Inventory
  <2> QED
    BY <2>4, <2>5
<1> QED
  BY <1>1, TypeAlways, FilesAlways, PTL

-----------------------------------------------------------------------------
(***************************************************************************)
(* The assertions of the roles.                                            *)
(***************************************************************************)

\* The plays that import the monitoring server run where there is one.
MonitorInv == step \in {"server", "grafana", "proxy"} => inventory.monitor # {}

LEMMA MonitorStep == TypeInv /\ MonitorInv /\ [Next]_allVars => MonitorInv'
<1> SUFFICES ASSUME TypeInv, MonitorInv, [Next]_allVars PROVE MonitorInv'
  OBVIOUS
<1> USE DEF MonitorInv, files, operator, Finish
<1>1. CASE UNCHANGED <<inventory, step>>
  BY <1>1
<1>2. CASE Load \/ WriteInventory \/ WriteVars \/ WriteGuide \/ CheckVault
  BY <1>2 DEF Load, WriteInventory, WriteVars, WriteGuide, CheckVault, AfterFiles
<1>3. CASE PlayEtcd \/ Play
  <2>1. step \in Plays /\ step' \in {NextPlay, "idle"} /\ UNCHANGED inventory
    BY <1>3 DEF PlayEtcd, Play, Plays
  <2>2. NextPlay \in {"server", "grafana", "proxy"} => inventory.monitor # {}
    BY <2>1 DEF NextPlay, AfterBackup, Plays
  <2> QED
    BY <2>1, <2>2
<1>4. CASE PlayRefused \/ PlayFails
  BY <1>4 DEF PlayRefused, PlayFails
<1> QED
  BY <1>1, <1>2, <1>3, <1>4 DEF Next, Edit, AddSecrets, allVars

\* A valid response names one primary, and one monitoring host where it is needed.
LEMMA ValidCounts ==
  ASSUME NEW r \in Responses, Valid(r)
  PROVE  /\ Cardinality(WithRole(r.nodes, "pg_primary")) = 1
         /\ WithRole(r.nodes, "pg_primary") # {}
         /\ MonitorHosts(r) # {} => Cardinality(MonitorHosts(r)) = 1
         /\ Mode(r.doc) = "self_hosted" => MonitorHosts(r) # {}
<1>1. \A role : IsFiniteSet(WithRole(r.nodes, role))
  BY NodeAssumption, FS_Subset DEF WithRole
<1>2. \A role : Cardinality(WithRole(r.nodes, role)) \in Nat
                /\ (Cardinality(WithRole(r.nodes, role)) = 0 <=> WithRole(r.nodes, role) = {})
  BY <1>1, FS_CardinalityType, FS_EmptySet
<1>3. CASE r.doc["profile"] = "aio"
  <2>1. PICK n \in Node : Declared(r.nodes) = {n} /\ r.nodes[n].role = "pg_primary"
    BY <1>3 DEF Valid, ValidNodes
  <2>2. WithRole(r.nodes, "pg_primary") = {n} /\ WithRole(r.nodes, "monitor") = {}
    BY <2>1 DEF WithRole, Declared
  <2> QED
    BY <1>3, <2>2, FS_Singleton DEF MonitorHosts
<1>4. CASE r.doc["profile"] # "aio"
  <2>1. /\ Cardinality(WithRole(r.nodes, "pg_primary")) = 1
        /\ Mode(r.doc) = "self_hosted" => Cardinality(WithRole(r.nodes, "monitor")) = 1
        /\ Mode(r.doc) # "self_hosted" => Cardinality(WithRole(r.nodes, "monitor")) <= 1
    BY <1>4 DEF Valid, ValidNodes
  <2>2. MonitorHosts(r) = WithRole(r.nodes, "monitor")
    BY <1>4 DEF MonitorHosts
  <2> QED
    BY <1>2, <2>1, <2>2
<1> QED
  BY <1>3, <1>4

\* A valid response has one database host, or three or more.
LEMMA DatabaseCounts ==
  ASSUME NEW r \in Responses, Valid(r)
  PROVE  Cardinality(PostgresHosts(r)) \in Nat \ {0, 2}
<1> DEFINE replicas == WithRole(r.nodes, "pg_replica")
           primary == WithRole(r.nodes, "pg_primary")
<1>1. IsFiniteSet(replicas) /\ IsFiniteSet(primary)
  BY NodeAssumption, FS_Subset DEF WithRole
<1>2. Cardinality(replicas) \in Nat /\ Cardinality(primary) = 1
      /\ (Cardinality(replicas) = 0 <=> replicas = {})
  BY <1>1, ValidCounts, FS_CardinalityType, FS_EmptySet
<1>3. PostgresHosts(r) = primary \cup replicas /\ primary \cap replicas = {}
  BY DEF PostgresHosts, WithRole
<1>4. Cardinality(PostgresHosts(r)) = 1 + Cardinality(replicas)
  <2>1. Cardinality(primary \cup replicas)
          = Cardinality(primary) + Cardinality(replicas) - Cardinality(primary \cap replicas)
    BY <1>1, FS_Union
  <2>2. Cardinality(primary \cap replicas) = 0
    BY <1>3, FS_EmptySet
  <2>3. Cardinality(primary) \in Nat
    BY <1>2
  <2> HIDE DEF primary, replicas
  <2> QED
    BY <1>2, <1>3, <2>1, <2>2, <2>3
<1>5. CASE r.doc["profile"] = "aio"
  <2>1. PICK n \in Node : Declared(r.nodes) = {n} /\ r.nodes[n].role = "pg_primary"
    BY <1>5 DEF Valid, ValidNodes
  <2>2. replicas = {}
    BY <2>1 DEF WithRole, Declared
  <2> QED
    BY <1>2, <1>4, <2>2
<1>6. CASE r.doc["profile"] \in {"spof", "ha"}
  BY <1>2, <1>4, <1>6 DEF Valid, ValidNodes
<1> QED
  BY <1>5, <1>6 DEF Valid

\* The backup repository is on a database host only when it is on the primary.
LEMMA BackupBesideDatabase ==
  ASSUME NEW r \in Responses, Valid(r), PostgresHosts(r) \cap BackupHosts(r) # {},
         Cardinality(PostgresHosts(r)) # 1
  PROVE  BackupHosts(r) = WithRole(r.nodes, "pg_primary")
<1>1. r.doc["profile"] # "aio"
  <2>1. SUFFICES ASSUME r.doc["profile"] = "aio" PROVE FALSE
    OBVIOUS
  <2>2. PICK n \in Node : Declared(r.nodes) = {n} /\ r.nodes[n].role = "pg_primary"
    BY <2>1 DEF Valid, ValidNodes
  <2>3. PostgresHosts(r) = {n}
    BY <2>2 DEF PostgresHosts, WithRole, Declared
  <2> QED
    BY <2>3, FS_Singleton
<1>2. MonitorHosts(r) = WithRole(r.nodes, "monitor")
  BY <1>1 DEF MonitorHosts
<1>3. /\ PostgresHosts(r) \cap WithRole(r.nodes, "monitor") = {}
      /\ PostgresHosts(r) \cap WithRole(r.nodes, "backup_store") = {}
  BY DEF PostgresHosts, WithRole
<1> QED
  BY <1>2, <1>3 DEF BackupHosts

\* The agents of a valid response have at most one way to authenticate.
LEMMA OneAuthentication ==
  ASSUME NEW r \in Responses, Valid(r)
  PROVE  ~(Vars(r.doc).username /\ Vars(r.doc).bearer)
<1> DEFINE d == r.doc
<1>1. SUFFICES ASSUME Mode(d) = "external_push",
                      d["auth.username"] \in {"bad", "good"}, d["auth.bearer"] = "true"
               PROVE  FALSE
  BY DEF Vars, VarsOf, Mode
<1>2. ValidAuth(d)
  BY <1>1 DEF Valid, ValidMonitoring, ValidMonitoringPush
<1>3. d["auth"] # "map" => d["auth.bearer"] = "absent"
  BY DocumentTags DEF Section, Keys
<1> QED
  BY <1>1, <1>2, <1>3 DEF ValidAuth, IsNone

\* What the roles assert about inventory and variables refuses a validated response
\* exactly if it has more than three database hosts, an incomplete rule of pg_hba.conf,
\* a virtual address on an interface that is not there, a database whose owner is no
\* user, its backups on the primary of several hosts or the operator's own certificate.
THEOREM RefusalsKnown == Spec => []OnlyKnownRefusals
<1>1. Init => MonitorInv
  BY DEF Init, MonitorInv
<1>2. TypeInv /\ FilesInv /\ MonitorInv => OnlyKnownRefusals
  <2> DEFINE d == source.doc
             hosts == Cardinality(PostgresHosts(source))
             AtPrimary == BackupHosts(source) = WithRole(source.nodes, "pg_primary")
  <2> SUFFICES ASSUME TypeInv, FilesInv, MonitorInv, step \in Plays
               PROVE  OnlyKnownRefusals
    BY DEF OnlyKnownRefusals
  <2>1. source \in Responses /\ Valid(source)
    BY DEF TypeInv, TypeOK
  <2>2. inventory = Inventory(source) /\ vars = Vars(source.doc)
    BY DEF FilesInv, FilesAgree, Files, Plays
  <2>3. /\ inventory.monitor = MonitorHosts(source)
        /\ inventory.backup_server = BackupHosts(source)
        /\ inventory.etcd = PostgresHosts(source) /\ inventory.postgres = PostgresHosts(source)
        /\ inventory.primary = WithRole(source.nodes, "pg_primary")
    BY <2>2 DEF Inventory, EtcdHosts
  <2>4. /\ vars.mode = Mode(d)
        /\ vars.vip = (d["vip_manager.enabled"] = "true")
        /\ vars.vip => vars.interface = d["vip_manager.interface"]
        /\ vars.tls = d["user_facing.mode"]
    BY <2>2 DEF Vars, VarsOf
  <2>5. /\ vars.hba = "broken" <=> d["postgres.hba_rules"] = "broken"
        /\ \A tag \in {"owned", "stray"} :
             vars.databases = tag <=> d["postgres.databases"] = tag
        /\ vars.users = "good" <=> d["postgres.users"] = "good"
    BY <2>2 DEF Vars, VarsOf, ListOf
  <2>6. CASE step = "etcd"
    BY <2>1, <2>3, <2>6, DatabaseCounts DEF OnlyKnownRefusals, Assertions, EtcdAssertions
  <2>7. CASE step = "database"
    <3>1. inventory.etcd # {} /\ inventory.postgres # {} /\ Cardinality(inventory.primary) = 1
      BY <2>1, <2>3, ValidCounts DEF PostgresHosts
    <3> QED
      BY <2>5, <2>7, <3>1 DEF OnlyKnownRefusals, Assertions, DatabaseAssertions
  <2>8. CASE step = "vip"
    BY <2>4, <2>8 DEF OnlyKnownRefusals, Assertions, VipAssertions
  <2>9. CASE step = "provision"
    BY <2>5, <2>9 DEF OnlyKnownRefusals, Assertions, ProvisionAssertions
  <2>10. CASE step = "backup"
    <3>1. hosts \in Nat \ {0, 2}
      BY <2>1, DatabaseCounts
    <3>2. AtPrimary => inventory.postgres \cap inventory.backup_server # {}
      BY <2>1, <2>3, ValidCounts DEF PostgresHosts
    <3>3. inventory.postgres \cap inventory.backup_server # {} /\ hosts # 1 => AtPrimary
      BY <2>1, <2>3, BackupBesideDatabase
    <3>4. Assertions(step) <=> ~(hosts > 1 /\ AtPrimary)
      BY <2>3, <2>10, <3>1, <3>2, <3>3 DEF Assertions, BackupAssertions
    <3> QED
      BY <2>10, <3>4 DEF OnlyKnownRefusals
  <2>11. CASE step \in {"server", "grafana", "proxy"}
    <3>1. MonitorAssertions
      BY <2>1, <2>3, <2>11, ValidCounts DEF MonitorAssertions, MonitorInv
    <3> QED
      BY <2>4, <2>11, <3>1 DEF OnlyKnownRefusals, Assertions, ProxyAssertions
  <2>12. CASE step = "agents"
    <3>1. ~(vars.username /\ vars.bearer)
      BY <2>1, <2>2, OneAuthentication
    <3>2. vars.mode = "self_hosted" => inventory.monitor # {}
      BY <2>1, <2>3, <2>4, ValidCounts
    <3> QED
      BY <2>12, <3>1, <3>2 DEF OnlyKnownRefusals, Assertions, AgentsAssertions
  <2> QED
    BY <2>6, <2>7, <2>8, <2>9, <2>10, <2>11, <2>12 DEF Plays
<1> QED
  BY <1>1, <1>2, MonitorStep, TypeAlways, FilesAlways, PTL DEF Spec

-----------------------------------------------------------------------------
(***************************************************************************)
(* The etcd clusters.                                                      *)
(***************************************************************************)

\* Of every membership but one, the hosts that have its data or may still get it are
\* no majority.
Claimants(members) == {m \in members : store[m] \in {{}, members}}
Minority(members) == 2 * Cardinality(Claimants(members)) <= Cardinality(members)
StoreInv ==
  ~refounded =>
    \E first \in SUBSET Node : \A h \in Node : store[h] \notin {{}, first} => Minority(store[h])

\* Hosts that have data keep it, so that the claimants of another membership get fewer.
LEMMA MinorityStays ==
  ASSUME TypeOK, NEW started \in SUBSET Fresh, NEW members \in SUBSET Node,
         store' = [h \in Node |-> IF h \in started THEN inventory.etcd ELSE store[h]],
         Minority(members)
  PROVE  Minority(members)'
<1>1. IsFiniteSet(Claimants(members)) /\ IsFiniteSet(Claimants(members)')
  BY NodeAssumption, FS_Subset DEF Claimants
<1>2. Claimants(members)' \subseteq Claimants(members)
  BY DEF Claimants, Fresh
<1>3. Cardinality(Claimants(members)') <= Cardinality(Claimants(members))
  BY <1>1, <1>2, FS_Subset
<1>4. Cardinality(Claimants(members)') \in Nat /\ Cardinality(Claimants(members)) \in Nat
      /\ IsFiniteSet(members)
  BY <1>1, NodeAssumption, FS_CardinalityType, FS_Subset
<1>5. Cardinality(members) \in Nat
  BY <1>4, FS_CardinalityType
<1> QED
  BY <1>3, <1>4, <1>5 DEF Minority

\* The etcd play founds no second cluster beside a majority.
LEMMA EtcdStep == TypeInv /\ StoreInv /\ PlayEtcd => StoreInv'
<1> SUFFICES ASSUME TypeInv, StoreInv, PlayEtcd, ~refounded' PROVE StoreInv'
  BY DEF StoreInv
<1> SUFFICES \E first \in SUBSET Node :
               \A h \in Node, m \in SUBSET Node :
                 m = store'[h] /\ m \notin {{}, first} => Minority(m)'
  <2>1. \A h \in Node : store'[h] \in SUBSET Node
    BY TypeStep DEF Next, TypeInv, TypeOK
  <2> QED
    BY <2>1 DEF StoreInv, Minority, Claimants
<1> DEFINE members == inventory.etcd
<1>1. PICK started \in SUBSET Fresh :
        store' = [h \in Node |-> IF h \in started THEN members ELSE store[h]]
  BY DEF PlayEtcd, InitialCluster
<1>2. ~refounded /\ ~Refounds
  <2>1. refounded' = (refounded \/ Refounds)
    BY DEF PlayEtcd
  <2> QED
    BY <2>1
<1>3. TypeOK /\ members \in SUBSET Node
  BY DEF TypeInv, TypeOK, Inventories
<1>4. \A h \in Node : store'[h] \in {store[h], members}
  BY <1>1, <1>3 DEF TypeOK
<1>5. CASE \A h \in Node : store[h] \in {{}, members}
  <2>1. \A h \in Node : store'[h] \in {{}, members}
    BY <1>4, <1>5
  <2> QED
    BY <1>3, <2>1
<1>6. CASE \E h \in Node : store[h] \notin {{}, members}
  <2>1. PICK first \in SUBSET Node :
          \A h \in Node : store[h] \notin {{}, first} => Minority(store[h])
    BY <1>2 DEF StoreInv
  <2>2. ~(2 * Cardinality(Fresh) > Cardinality(members))
    BY <1>2, <1>6 DEF Refounds
  <2>3. ASSUME members # first, \A h \in Node : store[h] # members PROVE Minority(members)
    <3>1. Claimants(members) = Fresh
      BY <1>3, <2>3 DEF Claimants, Fresh
    <3>2. IsFiniteSet(Fresh) /\ IsFiniteSet(members)
      BY <1>3, NodeAssumption, FS_Subset DEF Fresh
    <3>3. Cardinality(Fresh) \in Nat /\ Cardinality(members) \in Nat
      BY <3>2, FS_CardinalityType
    <3> QED
      BY <2>2, <3>1, <3>3 DEF Minority
  <2>4. ASSUME members \notin {{}, first} PROVE Minority(members)
    BY <2>1, <2>3, <2>4
  <2>5. ASSUME NEW h \in Node, NEW m \in SUBSET Node, m = store'[h], m \notin {{}, first}
        PROVE  Minority(m)'
    <3>1. Minority(m)
      BY <1>4, <2>1, <2>4, <2>5
    <3> QED
      BY <1>1, <1>3, <3>1, MinorityStays
  <2> QED
    BY <2>5
<1> QED
  BY <1>5, <1>6

LEMMA StoreAlways == Spec => []StoreInv
<1>1. Init => StoreInv
  BY DEF Init, StoreInv
<1>2. TypeInv /\ StoreInv /\ [Next]_allVars => StoreInv'
  <2>1. ASSUME UNCHANGED <<store, refounded>>, StoreInv PROVE StoreInv'
    BY <2>1 DEF StoreInv, Minority, Claimants
  <2> QED
    BY <2>1, EtcdStep
    DEF Next, Edit, AddSecrets, Load, WriteInventory, WriteVars, WriteGuide, CheckVault, Play,
        PlayRefused, PlayFails, allVars, operator, files
<1> QED
  BY <1>1, <1>2, TypeAlways, PTL DEF Spec

\* A membership that serves has the data on a majority of its hosts.
LEMMA ServingClaims ==
  ASSUME TypeOK, NEW h \in Node, Serving(h)
  PROVE  store[h] # {} /\ ~Minority(store[h])
<1> DEFINE live == {m \in store[h] : store[m] = store[h] /\ m \notin {}}
<1>1. 2 * Cardinality(live) > Cardinality(store[h]) /\ store[h] # {}
  BY DEF Serving, HasQuorum
<1>2. live \subseteq Claimants(store[h]) /\ store[h] \in SUBSET Node
  BY DEF Claimants, TypeOK
<1>3. IsFiniteSet(Claimants(store[h])) /\ IsFiniteSet(store[h])
  BY <1>2, NodeAssumption, FS_Subset DEF Claimants
<1>4. IsFiniteSet(live) /\ Cardinality(live) <= Cardinality(Claimants(store[h]))
  BY <1>2, <1>3, FS_Subset
<1>5. /\ Cardinality(live) \in Nat /\ Cardinality(Claimants(store[h])) \in Nat
      /\ Cardinality(store[h]) \in Nat
  BY <1>3, <1>4, FS_CardinalityType
<1> HIDE DEF live
<1> QED
  BY <1>1, <1>4, <1>5 DEF Minority

LEMMA OneServes == TypeInv /\ StoreInv => OneStoreUnlessRefounded
BY ServingClaims DEF TypeInv, StoreInv, OneStoreUnlessRefounded

\* There are never two etcd clusters that can serve, unless a play refounds one.
THEOREM OneStore == Spec => []OneStoreUnlessRefounded
BY OneServes, TypeAlways, StoreAlways, PTL

-----------------------------------------------------------------------------
(***************************************************************************)
(* The hosts implement StoreChoice.                                        *)
(***************************************************************************)

\* A step leaves the data of a host that has some, so that what serves goes on.
LEMMA DataStays ==
  ASSUME TypeInv, [Next]_allVars, NEW h \in Node, store[h] # {}
  PROVE  store'[h] = store[h]
<1>1. CASE PlayEtcd
  BY <1>1 DEF PlayEtcd, Fresh, TypeInv, TypeOK
<1>2. CASE UNCHANGED store
  BY <1>2
<1> QED
  BY <1>1, <1>2
  DEF Next, Edit, AddSecrets, Load, WriteInventory, WriteVars, WriteGuide, CheckVault, Play,
      PlayRefused, PlayFails, allVars

LEMMA ServingStays ==
  ASSUME TypeInv, [Next]_allVars, NEW h \in Node, Serving(h)
  PROVE  Serving(h)' /\ store'[h] = store[h]
<1> DEFINE live == {m \in store[h] : store[m] = store[h] /\ m \notin {}}
           live2 == {m \in store[h] : store'[m] = store[h] /\ m \notin {}}
<1>1. store[h] # {} /\ store[h] \in SUBSET Node /\ 2 * Cardinality(live) > Cardinality(store[h])
  BY DEF Serving, HasQuorum, TypeInv, TypeOK
<1>2. store'[h] = store[h] /\ live \subseteq live2
  BY <1>1, DataStays
<1>3. IsFiniteSet(store[h])
  BY <1>1, NodeAssumption, FS_Subset
<1>4. IsFiniteSet(live2) /\ IsFiniteSet(live)
  BY <1>3, FS_Subset
<1>5. /\ Cardinality(live) <= Cardinality(live2)
      /\ Cardinality(live) \in Nat /\ Cardinality(live2) \in Nat /\ Cardinality(store[h]) \in Nat
  BY <1>2, <1>3, <1>4, FS_Subset, FS_CardinalityType
<1>6. 2 * Cardinality(live2) > Cardinality(store[h])
  <2> HIDE DEF live, live2
  <2> QED
    BY <1>1, <1>5
<1> QED
  BY <1>1, <1>2, <1>6 DEF Serving, HasQuorum

\* What was founded can serve for good, and more is founded only by refounding.
LEMMA FoundedGrows ==
  ASSUME TypeInv, StoreInv, TypeInv', StoreInv', [Next]_allVars
  PROVE  /\ Founded \subseteq Founded' /\ Founded' \subseteq SUBSET Node
         /\ refounded => refounded'
         /\ ~refounded' => \A m1, m2 \in Founded' : m1 = m2
<1>1. Founded \subseteq Founded'
  BY ServingStays DEF Founded
<1>2. Founded' \subseteq SUBSET Node
  BY DEF Founded, TypeInv, TypeOK
<1>3. refounded => refounded'
  BY DEF Next, Edit, AddSecrets, Load, WriteInventory, WriteVars, WriteGuide, CheckVault, Play,
         PlayEtcd, PlayRefused, PlayFails, allVars
<1>4. OneStoreUnlessRefounded'
  BY OneServes, PTL
<1>5. ~refounded' => \A m1, m2 \in Founded' : m1 = m2
  BY <1>4 DEF Founded, OneStoreUnlessRefounded
<1> QED
  BY <1>1, <1>2, <1>3, <1>5

\* Whatever is deployed over them, and however the deployments end, the hosts found
\* one etcd cluster at most and keep it, until one of the deployments refounds it.
THEOREM Refinement == Spec => ImplementsStore
<1>1. Init => Store!Init
  BY DEF Init, Store!Init, Founded, Serving
<1>2. TypeInv /\ StoreInv /\ (TypeInv /\ StoreInv)' /\ [Next]_allVars
        => [Store!Next]_(Store!storeVars)
  <2> SUFFICES ASSUME TypeInv, StoreInv, TypeInv', StoreInv', [Next]_allVars
               PROVE  Store!Next \/ UNCHANGED <<Founded, refounded>>
    BY DEF Store!storeVars
  <2>1. CASE refounded'
    <3>1. Store!Refound
      BY <2>1, FoundedGrows DEF Store!Refound
    <3> QED
      BY <3>1 DEF Store!Next
  <2>2. CASE ~refounded' /\ Founded' # {}
    <3>1. PICK members \in Founded' : Founded' = {members}
      BY <2>2, FoundedGrows
    <3>2. Founded = {} \/ Founded = {members}
      BY <3>1, FoundedGrows
    <3>3. UNCHANGED refounded /\ members \in SUBSET Node
      BY <2>2, <3>1, FoundedGrows DEF TypeInv, TypeOK
    <3>4. CASE Founded = {}
      <4>1. Store!Found(members)
        BY <3>1, <3>3, <3>4 DEF Store!Found
      <4> QED
        BY <3>3, <4>1 DEF Store!Next
    <3> QED
      BY <3>1, <3>2, <3>3, <3>4
  <2>3. CASE ~refounded' /\ Founded' = {}
    BY <2>3, FoundedGrows DEF TypeInv, TypeOK
  <2> QED
    BY <2>1, <2>2, <2>3
<1> QED
  BY <1>1, <1>2, TypeAlways, StoreAlways, PTL DEF Spec, ImplementsStore, Store!Spec

\* A membership that can serve is there for good: no play replaces a member's data, and
\* a host that joins under another membership takes none of its votes away.
THEOREM ClustersStay == Spec => [][Founded \subseteq Founded']_allVars
<1>1. TypeInv /\ StoreInv /\ (TypeInv /\ StoreInv)' /\ [Next]_allVars
        => Founded \subseteq Founded'
  BY FoundedGrows
<1> QED
  BY <1>1, TypeAlways, StoreAlways, PTL DEF Spec

=============================================================================

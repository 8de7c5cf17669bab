----------------------------- MODULE Derivation -----------------------------
(***************************************************************************)
(* What is derived from a response that validated: bin/_generate_*.py and  *)
(* the secrets that bin/_passwords.py asks for.                            *)
(***************************************************************************)
EXTENDS Response

-----------------------------------------------------------------------------
(***************************************************************************)
(* inventory/site.yml.  Groups are sets: the order of the hosts and their  *)
(* ordinals, postgres_seq and etcd_seq, are read by no role.               *)
(***************************************************************************)

MonitorHosts(r) ==
  IF r.doc["profile"] = "aio" /\ Mode(r.doc) = "self_hosted"
    THEN WithRole(r.nodes, "pg_primary") ELSE WithRole(r.nodes, "monitor")

BackupHosts(r) ==
  IF WithRole(r.nodes, "backup_store") # {} THEN WithRole(r.nodes, "backup_store")
  ELSE IF MonitorHosts(r) # {} THEN MonitorHosts(r)
  ELSE WithRole(r.nodes, "pg_primary")

PostgresHosts(r) == WithRole(r.nodes, "pg_primary") \cup WithRole(r.nodes, "pg_replica")

\* Every PostgreSQL node is an etcd member too.
EtcdHosts(r) == PostgresHosts(r)

Inventory(r) ==
  [monitor |-> MonitorHosts(r), backup_server |-> BackupHosts(r), etcd |-> EtcdHosts(r),
   postgres |-> PostgresHosts(r), primary |-> WithRole(r.nodes, "pg_primary")]

-----------------------------------------------------------------------------
(***************************************************************************)
(* inventory/group_vars/all/response.yml, and where generating it raises.  *)
(***************************************************************************)

\* d.get(f, {}).get(...) and `key in d.get(f, {})`: a default only stands in
\* for a key that is absent.
Gettable(d, f) == d[f] \in {"absent", "map"}
Searchable(d, f) == d[f] \in {"absent", "empty", "map"}

\* _cron_to_oncalendar splits whatever is there.
Splittable(d, f) == d[f] \in {"absent", "good"}

\* _flatten_backup.
FlattensBackup(d) ==
  /\ Gettable(d, "backup")
  /\ d["backup.enabled"] = "true" =>
       /\ Searchable(d, "schedule")
       /\ Splittable(d, "schedule.full")
       /\ Splittable(d, "schedule.differential")
       /\ Searchable(d, "retention")
       /\ Gettable(d, "secondary_store")

GeneratesVars(d) ==
  /\ Gettable(d, "repos") /\ Gettable(d, "pigsty")
  /\ Gettable(d, "network")
  /\ Gettable(d, "access")
  /\ Gettable(d, "preload_libraries")
  /\ Gettable(d, "minor_upgrade")
  /\ Mode(d) = "self_hosted" => Gettable(d, "alertmanager")
  /\ FlattensBackup(d)

\* A list that is not there is an empty one.
ListOf(d, f) == IF d[f] = "absent" THEN "empty" ELSE d[f]

\* The variables that decide what the plays do.  The virtual address has its own only
\* where it is enabled.
VarsOf(d, mode) ==
  LET push == mode = "external_push"
      vip == d["vip_manager.enabled"] = "true"
  IN [profile |-> d["profile"],
      mode |-> mode,
      username |-> push /\ d["auth.username"] \in {"bad", "good"},
      bearer |-> push /\ d["auth.bearer"] = "true",
      backup |-> d["backup.enabled"] = "true",
      secondary |-> d["backup.enabled"] = "true" /\ d["secondary_store.enabled"] = "true",
      hba |-> ListOf(d, "postgres.hba_rules"),
      databases |-> ListOf(d, "postgres.databases"),
      users |-> ListOf(d, "postgres.users"),
      vip |-> vip,
      interface |-> IF vip THEN d["vip_manager.interface"] ELSE "empty",
      tls |-> d["user_facing.mode"]]

\* Mutant: the mode has no default.
VarsNoDefault(d) == VarsOf(d, d["monitoring.mode"])

Vars(d) == VarsOf(d, Mode(d))

-----------------------------------------------------------------------------
(***************************************************************************)
(* responses/external-monitoring.md and the secrets.                       *)
(***************************************************************************)

\* Mutant: the node job scrapes the database hosts only.
GuideDatabases(r) ==
  LET d == r.doc
      pull == Mode(d) = "external_pull"
  IN [mode |-> Mode(d),
      secrets |->
        IF pull THEN {"pull_token"}
        ELSE (IF d["auth.username"] \in {"bad", "good"} THEN {"external_password"} ELSE {})
               \cup (IF d["auth.bearer"] = "true" THEN {"external_bearer_token"} ELSE {}),
      hosts |-> IF pull THEN PostgresHosts(r) ELSE {},
      databases |-> IF pull THEN PostgresHosts(r) ELSE {}]

\* What the guide tells the operator of the external service: the vault keys with
\* the credentials and the hosts to scrape.  It is written in the external modes
\* only.
Guide(r) ==
  LET d == r.doc
      pull == Mode(d) = "external_pull"
  IN [mode |-> Mode(d),
      secrets |->
        IF pull THEN {"pull_token"}
        ELSE (IF d["auth.username"] \in {"bad", "good"} THEN {"external_password"} ELSE {})
               \cup (IF d["auth.bearer"] = "true" THEN {"external_bearer_token"} ELSE {}),
      hosts |-> IF pull THEN Declared(r.nodes) ELSE {},
      databases |-> IF pull THEN PostgresHosts(r) ELSE {}]

\* Mutant: the password of basic authentication is not asked for.
RequiredSecretsBearer(d) ==
  CASE Mode(d) = "self_hosted" -> {}
    [] Mode(d) = "external_pull" -> {"pull_token"}
    [] Mode(d) = "external_push" ->
         IF d["auth.bearer"] = "true" THEN {"external_bearer_token"} ELSE {}

\* required_human_secrets without the base one, as the silent run asks for it.
RequiredSecrets(d) ==
  CASE Mode(d) = "self_hosted" -> {}
    [] Mode(d) = "external_pull" -> {"pull_token"}
    [] Mode(d) = "external_push" ->
         {k \in {"external_password", "external_bearer_token"} :
            \/ k = "external_password" /\ d["auth.username"] \in {"bad", "good"}
            \/ k = "external_bearer_token" /\ d["auth.bearer"] = "true"}

=============================================================================

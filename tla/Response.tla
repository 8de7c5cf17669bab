------------------------------ MODULE Response ------------------------------
(***************************************************************************)
(* The response file and bin/_response_schema.py, which validates it.      *)
(*                                                                         *)
(* A response is a document and the nodes it lists.  The document is a     *)
(* function from field names, "section.key", to tags that say what YAML    *)
(* has there as far as Python can tell it apart:                           *)
(*                                                                         *)
(*   a section  "absent", "null", "zero" (0 or false), "empty" ([] or ""), *)
(*              "other" (neither falsy nor a mapping), "map"               *)
(*   a text     "absent", "null", "wrong" (not a string), "empty", "bad"   *)
(*              (a string that its pattern or choice refuses), "good"      *)
(*   a flag     "absent", "null", "wrong", "false", "true"                 *)
(*   a number   "absent", "null", "wrong", "low", "good", "high" (in and   *)
(*              out of the range that is checked)                          *)
(*   a list     "absent", "null", "wrong", "empty", "bad" (one element is  *)
(*              refused), "good"                                           *)
(*   addresses  as a list or a text, their family instead of "good"        *)
(*                                                                         *)
(* Some fields that pass have tags of their own for what the roles tell    *)
(* apart later: "broken" rules of pg_hba.conf, with a source that is fine  *)
(* and without a database, say; databases that have an owner, "owned" when *)
(* it is among the users that "postgres.users" lists and "stray" when it   *)
(* is not; "byo" for the certificate of the operator's own.  A "bad"       *)
(* interface is one that the hosts do not have.                            *)
(*                                                                         *)
(* A validator is a predicate: it holds when the function of that name     *)
(* returns and fails when it raises.                                       *)
(***************************************************************************)
EXTENDS Naturals, FiniteSets

CONSTANT Node   \* names that nodes can have in the response file

Section ==
  {"network", "access", "cluster", "monitoring", "external_push", "auth", "external_pull",
   "alertmanager", "postgres", "preload_libraries", "minor_upgrade", "tls", "user_facing",
   "firewall", "backup", "retention", "schedule", "secondary_store", "db_routing", "haproxy",
   "vip_manager", "repos", "pigsty"}
Text ==
  {"access.ansible_user", "cluster.name", "cluster.domain", "monitoring.vmsingle_retention",
   "monitoring.vlsingle_retention", "monitoring.scrape_interval", "external_push.metrics_url",
   "external_push.logs_url", "auth.username", "auth.unknown", "postgres.tune",
   "preload_libraries.unknown", "tls.internal_ca", "backup.tool", "schedule.full",
   "schedule.differential", "secondary_store.type", "secondary_store.bucket",
   "secondary_store.endpoint", "secondary_store.region", "secondary_store.path",
   "haproxy.rto_profile", "haproxy.backend_target", "vip_manager.interface"}
Flag ==
  {"auth.bearer", "external_push.tls_skip_verify", "external_pull.tls", "backup.enabled",
   "secondary_store.enabled", "vip_manager.enabled"}
Number ==
  {"external_pull.metrics_port", "postgres.version", "postgres.port",
   "postgres.shared_buffer_ratio", "minor_upgrade.hours", "retention.full"}
Items ==
  {"alertmanager.receivers", "postgres.users", "postgres.extensions",
   "postgres.extension_packages", "preload_libraries.prepend", "preload_libraries.append"}
Cidrs ==
  {"external_pull.source_cidrs", "firewall.operator_cidrs", "firewall.postgres_client_cidrs"}
Field ==
  Section \cup Text \cup Flag \cup Number \cup Items \cup Cidrs
    \cup {"profile", "monitoring.mode", "network.ip_version", "postgres.hba_rules",
          "postgres.databases", "user_facing.mode", "vip_manager.vip_cidr"}

\* The keys a section may have; the other fields are top-level keys.
Keys(s) ==
  CASE s = "network" -> {"network.ip_version"}
    [] s = "access" -> {"access.ansible_user"}
    [] s = "cluster" -> {"cluster.name", "cluster.domain"}
    [] s = "monitoring" ->
         {"monitoring.mode", "monitoring.vmsingle_retention", "monitoring.vlsingle_retention",
          "monitoring.scrape_interval", "external_push", "external_pull", "alertmanager"}
    [] s = "external_push" ->
         {"external_push.metrics_url", "external_push.logs_url", "auth",
          "external_push.tls_skip_verify"}
    [] s = "auth" -> {"auth.username", "auth.bearer", "auth.unknown"}
    [] s = "external_pull" ->
         {"external_pull.metrics_port", "external_pull.source_cidrs", "external_pull.tls"}
    [] s = "alertmanager" -> {"alertmanager.receivers"}
    [] s = "postgres" ->
         {"postgres.version", "postgres.port", "postgres.tune", "postgres.shared_buffer_ratio",
          "postgres.hba_rules", "postgres.users", "postgres.databases", "postgres.extensions",
          "postgres.extension_packages", "preload_libraries", "minor_upgrade"}
    [] s = "preload_libraries" ->
         {"preload_libraries.prepend", "preload_libraries.append", "preload_libraries.unknown"}
    [] s = "minor_upgrade" -> {"minor_upgrade.hours"}
    [] s = "tls" -> {"tls.internal_ca", "user_facing"}
    [] s = "user_facing" -> {"user_facing.mode"}
    [] s = "firewall" -> {"firewall.operator_cidrs", "firewall.postgres_client_cidrs"}
    [] s = "backup" ->
         {"backup.enabled", "backup.tool", "retention", "schedule", "secondary_store"}
    [] s = "retention" -> {"retention.full"}
    [] s = "schedule" -> {"schedule.full", "schedule.differential"}
    [] s = "secondary_store" ->
         {"secondary_store.enabled", "secondary_store.type", "secondary_store.bucket",
          "secondary_store.endpoint", "secondary_store.region", "secondary_store.path"}
    [] s = "db_routing" -> {"haproxy", "vip_manager"}
    [] s = "haproxy" -> {"haproxy.rto_profile", "haproxy.backend_target"}
    [] s = "vip_manager" ->
         {"vip_manager.enabled", "vip_manager.vip_cidr", "vip_manager.interface"}
    [] s = "repos" -> {"pigsty"}
    [] s = "pigsty" -> {}

Tags(f) ==
  CASE f \in Section -> {"absent", "null", "zero", "empty", "other", "map"}
    [] f \in Text -> {"absent", "null", "wrong", "empty", "bad", "good"}
    [] f \in Flag -> {"absent", "null", "wrong", "false", "true"}
    [] f \in Number -> {"absent", "null", "wrong", "low", "good", "high"}
    [] f \in Items -> {"absent", "null", "wrong", "empty", "bad", "good"}
    [] f \in Cidrs -> {"absent", "null", "wrong", "empty", "bad", "v4", "v6", "mixed"}
    [] f = "postgres.hba_rules" ->
         {"absent", "null", "wrong", "empty", "bad", "v4", "v6", "mixed", "good", "broken"}
    [] f = "postgres.databases" ->
         {"absent", "null", "wrong", "empty", "bad", "good", "owned", "stray"}
    [] f = "user_facing.mode" -> {"absent", "null", "wrong", "empty", "bad", "good", "byo"}
    [] f = "vip_manager.vip_cidr" -> {"absent", "null", "wrong", "empty", "bad", "v4", "v6"}
    [] f = "profile" -> {"absent", "wrong", "bad", "spof", "ha", "aio"}
    [] f = "monitoring.mode" ->
         {"absent", "null", "wrong", "bad", "self_hosted", "external_push", "external_pull"}
    [] f = "network.ip_version" -> {"absent", "null", "wrong", "bad", "dual", "ipv4", "ipv6"}

AnyTag == UNION {Tags(f) : f \in Field}
Document ==
  {d \in [Field -> AnyTag] :
     /\ \A f \in Field : d[f] \in Tags(f)
     /\ \A s \in Section : d[s] # "map" => \A f \in Keys(s) : d[f] = "absent"}

\* nodes: a name the mapping does not have is "none"; "bad" is what is not a
\* role or not an address.
NodeRole == {"monitor", "backup_store", "pg_primary", "pg_replica"}
Nodes == [Node -> [role : NodeRole \cup {"none", "bad"}, ip : {"bad", "v4", "v6"}]]

Responses == [doc : Document, nodes : Nodes]

WithRole(nodes, role) == {n \in Node : nodes[n].role = role}
Declared(nodes) == {n \in Node : nodes[n].role # "none"}

-----------------------------------------------------------------------------
(***************************************************************************)
(* The helpers of the validators.                                          *)
(***************************************************************************)

\* _require_str: a string, of whatever content.
RequiredStr(d, f) == d[f] \in {"empty", "bad", "good"}

\* `x is None` of d.get(f).
IsNone(d, f) == d[f] \in {"absent", "null"}

\* Truth of d.get(f) for a section; an empty mapping is a "map" without keys.
Falsy(d, f) == d[f] \in {"absent", "null", "zero", "empty"}

\* d.get(f, default) checked with isinstance: the key is absent or has the type.
OptionalMap(d, f) == d[f] \in {"absent", "map"}
OptionalFlag(d, f) == d[f] \in {"absent", "false", "true"}
OptionalItems(d, f) == d[f] \in {"absent", "empty", "good"}

\* _validate_network: the version it returns, and whether it returns.
IpVersion(d) == IF d["network.ip_version"] \in {"ipv4", "ipv6"} THEN d["network.ip_version"] ELSE "dual"

ValidNetwork(d) ==
  \/ IsNone(d, "network")
  \/ d["network"] = "map" /\ d["network.ip_version"] \in {"absent", "dual", "ipv4", "ipv6"}

\* _check_ip and _check_cidr: an address of the family that is asked for.
Fits(d, tag) ==
  CASE IpVersion(d) = "dual" -> tag \in {"v4", "v6", "mixed"}
    [] IpVersion(d) = "ipv4" -> tag = "v4"
    [] IpVersion(d) = "ipv6" -> tag = "v6"

ValidAccess(d) ==
  \/ IsNone(d, "access")
  \/ d["access"] = "map" /\ d["access.ansible_user"] \in {"absent", "bad", "good"}

-----------------------------------------------------------------------------
(***************************************************************************)
(* nodes.                                                                  *)
(***************************************************************************)

Mode(d) == IF d["monitoring.mode"] = "absent" THEN "self_hosted" ELSE d["monitoring.mode"]

ValidNodes(r) ==
  LET count(role) == Cardinality(WithRole(r.nodes, role))
      declared == Declared(r.nodes)
  IN /\ declared # {}
     /\ \A n \in declared : r.nodes[n].role \in NodeRole /\ Fits(r.doc, r.nodes[n].ip)
     /\ IF r.doc["profile"] = "aio"
          THEN \E n \in Node : declared = {n} /\ r.nodes[n].role = "pg_primary"
          ELSE /\ IF Mode(r.doc) = "self_hosted" THEN count("monitor") = 1 ELSE count("monitor") <= 1
               /\ count("pg_primary") = 1
               /\ r.doc["profile"] = "spof" => count("pg_replica") = 0
               /\ r.doc["profile"] = "ha" => count("pg_replica") >= 2

-----------------------------------------------------------------------------
(***************************************************************************)
(* postgres.                                                               *)
(***************************************************************************)

\* _validate_hba_rules and _check_hba_source: keywords and host names are "good".  Of
\* a rule only the source is looked at.
ValidHbaRules(d) ==
  \/ d["postgres.hba_rules"] \in {"absent", "empty", "good", "broken"}
  \/ Fits(d, d["postgres.hba_rules"])

ValidUsers(d) == OptionalItems(d, "postgres.users")

\* The owner of a database is not looked at.
ValidDatabases(d) == d["postgres.databases"] \in {"absent", "empty", "good", "owned", "stray"}
ValidExtensions(d) == OptionalItems(d, "postgres.extensions")
ValidExtensionPackages(d) == OptionalItems(d, "postgres.extension_packages")

ValidPreloadLibraries(d) ==
  \/ d["preload_libraries"] = "absent"
  \/ /\ d["preload_libraries"] = "map"
     /\ d["preload_libraries.unknown"] = "absent"
     /\ OptionalItems(d, "preload_libraries.prepend")
     /\ OptionalItems(d, "preload_libraries.append")

ValidMinorUpgrade(d) ==
  \/ IsNone(d, "minor_upgrade")
  \/ d["minor_upgrade"] = "map" /\ d["minor_upgrade.hours"] \in {"absent", "null", "good", "high"}

ValidPostgres(d) ==
  /\ d["postgres"] = "map"
  /\ d["postgres.version"] = "good"
  /\ d["postgres.port"] = "good"
  /\ d["postgres.tune"] = "good"
  /\ d["postgres.shared_buffer_ratio"] \in {"absent", "good"}
  /\ ValidHbaRules(d)
  /\ ValidUsers(d)
  /\ ValidDatabases(d)
  /\ ValidExtensionPackages(d)
  /\ ValidExtensions(d)
  /\ ValidPreloadLibraries(d)
  /\ ValidMinorUpgrade(d)

-----------------------------------------------------------------------------
(***************************************************************************)
(* tls, firewall, db_routing.                                              *)
(***************************************************************************)

ValidTls(d) ==
  /\ d["tls"] = "map" /\ d["tls.internal_ca"] = "good"
  /\ d["user_facing"] = "map" /\ d["user_facing.mode"] \in {"good", "byo"}

ValidFirewall(d) ==
  /\ d["firewall"] = "map"
  /\ Fits(d, d["firewall.operator_cidrs"])
  /\ Fits(d, d["firewall.postgres_client_cidrs"])

ValidDbRouting(d) ==
  \/ IsNone(d, "db_routing")
  \/ /\ d["db_routing"] = "map"
     /\ OptionalMap(d, "haproxy")
     /\ d["haproxy.rto_profile"] \in {"absent", "good"}
     /\ d["haproxy.backend_target"] \in {"absent", "good"}
     /\ OptionalMap(d, "vip_manager")
     /\ OptionalFlag(d, "vip_manager.enabled")
     /\ d["vip_manager.enabled"] = "true"
          => Fits(d, d["vip_manager.vip_cidr"]) /\ d["vip_manager.interface"] \in {"bad", "good"}

-----------------------------------------------------------------------------
(***************************************************************************)
(* monitoring.                                                             *)
(***************************************************************************)

\* Mutant: both methods of authentication are accepted.
ValidAuthBoth(d) ==
  \/ IsNone(d, "auth")
  \/ /\ d["auth"] = "map"
     /\ d["auth.unknown"] = "absent"
     /\ d["auth.username"] # "wrong"
     /\ d["auth.bearer"] # "wrong"

\* The agents take one method of authentication.
ValidAuth(d) ==
  \/ IsNone(d, "auth")
  \/ /\ d["auth"] = "map"
     /\ d["auth.unknown"] = "absent"
     /\ d["auth.username"] # "wrong"
     /\ d["auth.bearer"] # "wrong"
     /\ ~(d["auth.username"] \in {"bad", "good"} /\ d["auth.bearer"] = "true")

ValidMonitoringPush(d) ==
  /\ d["external_pull"] = "absent"
  /\ d["external_push"] = "map"
  /\ d["external_push.metrics_url"] = "good"
  /\ d["external_push.logs_url"] = "good"
  /\ ValidAuth(d)
  /\ OptionalFlag(d, "external_push.tls_skip_verify")

ValidMonitoringPull(d) ==
  /\ d["external_push"] = "absent"
  /\ d["external_pull"] = "map"
  /\ d["external_pull.metrics_port"] = "good"
  /\ Fits(d, d["external_pull.source_cidrs"])
  /\ OptionalFlag(d, "external_pull.tls")

ValidMonitoringSelf(d) ==
  /\ d["monitoring.vmsingle_retention"] = "good"
  /\ d["monitoring.vlsingle_retention"] = "good"
  /\ d["external_push"] = "absent"
  /\ d["external_pull"] = "absent"

ValidAlertmanager(d) ==
  \/ IsNone(d, "alertmanager")
  \/ d["alertmanager"] = "map" /\ OptionalItems(d, "alertmanager.receivers")

ValidMonitoring(d) ==
  /\ d["monitoring"] = "map"
  /\ \/ Mode(d) = "self_hosted" /\ ValidMonitoringSelf(d)
     \/ Mode(d) = "external_push" /\ ValidMonitoringPush(d)
     \/ Mode(d) = "external_pull" /\ ValidMonitoringPull(d)
  /\ ValidAlertmanager(d)
  /\ d["monitoring.scrape_interval"] \in {"absent", "null", "good"}

-----------------------------------------------------------------------------
(***************************************************************************)
(* backup.                                                                 *)
(***************************************************************************)

\* _validate_backup_cron, or no value at all.
ValidCron(d, f) == d[f] \in {"absent", "null", "good"}

ValidRetention(d) ==
  \/ Falsy(d, "retention")
  \/ d["retention"] = "map" /\ d["retention.full"] \in {"absent", "null", "good", "high"}

\* Mutant: only the schedule of full backups is looked at.
ValidScheduleFull(d) ==
  \/ Falsy(d, "schedule")
  \/ d["schedule"] = "map" /\ ValidCron(d, "schedule.full")

ValidSchedule(d) ==
  \/ Falsy(d, "schedule")
  \/ /\ d["schedule"] = "map"
     /\ ValidCron(d, "schedule.full")
     /\ ValidCron(d, "schedule.differential")

ValidSecondaryStore(d) ==
  \/ Falsy(d, "secondary_store")
  \/ /\ d["secondary_store"] = "map"
     /\ OptionalFlag(d, "secondary_store.enabled")
     /\ d["secondary_store.enabled"] = "true" =>
          /\ d["secondary_store.type"] = "good"
          /\ \A f \in {"secondary_store.bucket", "secondary_store.endpoint"} :
               d[f] \in {"wrong", "bad", "good"}
          /\ \A f \in {"secondary_store.region", "secondary_store.path"} :
               d[f] \in {"absent", "empty", "bad", "good"}

\* Nothing else is looked at in a section that is not enabled.
ValidBackup(d) ==
  \/ IsNone(d, "backup")
  \/ /\ d["backup"] = "map"
     /\ OptionalFlag(d, "backup.enabled")
     /\ d["backup.enabled"] = "true" =>
          /\ d["backup.tool"] \in {"absent", "good"}
          /\ ValidRetention(d)
          /\ ValidSchedule(d)
          /\ ValidSecondaryStore(d)

-----------------------------------------------------------------------------
\* validate().
Valid(r) ==
  LET d == r.doc IN
  /\ d["profile"] \in {"spof", "ha", "aio"}
  /\ ValidNetwork(d)
  /\ ValidAccess(d)
  /\ d["cluster"] = "map"
  /\ RequiredStr(d, "cluster.name") /\ RequiredStr(d, "cluster.domain")
  /\ ValidMonitoring(d)
  /\ ValidNodes(r)
  /\ ValidPostgres(d)
  /\ ValidTls(d)
  /\ ValidFirewall(d)
  /\ ValidBackup(d)
  /\ ValidDbRouting(d)
  /\ ~(d["profile"] = "aio" /\ d["vip_manager.enabled"] = "true")

=============================================================================

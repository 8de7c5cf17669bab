---------------------------- MODULE MCDeployment ----------------------------
(***************************************************************************)
(* Deployment for TLC.  There are two families of response files.  On one  *)
(* database host, every field of a full response takes every tag there is, *)
(* in each monitoring mode.  On several database hosts, hosts are added,   *)
(* removed and given other roles, and the profile and the mode change.     *)
(***************************************************************************)
EXTENDS Deployment, TLC

CONSTANT Database   \* hosts that may be database hosts; the other one is not

\* A document with another tag in one field; what is inside a section goes with it.
Inside(sections) == UNION {Keys(s) : s \in sections \cap Section}
Within ==
  [f \in Field |-> Inside({f}) \cup Inside(Inside({f})) \cup Inside(Inside(Inside({f})))]
With(d, f, tag) ==
  [g \in Field |->
     IF g = f THEN tag ELSE IF tag # "map" /\ g \in Within[f] THEN "absent" ELSE d[g]]

Full ==
  [f \in Field |->
     CASE f \in Section -> "map"
       [] f \in {"auth.unknown", "preload_libraries.unknown"} -> "absent"
       [] f \in Text \cup Number \cup Items -> "good"
       [] f \in {"backup.enabled", "secondary_store.enabled", "vip_manager.enabled"} -> "true"
       [] f \in Flag -> "false"
       [] f \in Cidrs \cup {"postgres.hba_rules", "vip_manager.vip_cidr"} -> "v4"
       [] f = "postgres.databases" -> "owned"
       [] f = "user_facing.mode" -> "good"
       [] f = "profile" -> "spof"
       [] f = "network.ip_version" -> "dual"
       [] OTHER -> "self_hosted"]

SelfHosted == With(With(Full, "external_push", "absent"), "external_pull", "absent")
Push == [With(Full, "external_pull", "absent") EXCEPT !["monitoring.mode"] = "external_push"]
Pull == [With(Full, "external_push", "absent") EXCEPT !["monitoring.mode"] = "external_pull"]
Whole == {SelfHosted, Push, Pull}

\* The database hosts of a topology, one of which is the primary, all with IPv4
\* addresses; the host that is no database host has the role `other`.
Primary(databases) == CHOOSE p \in databases : TRUE
Topology(other, databases) ==
  [n \in Node |->
     [ip |-> "v4",
      role |-> IF n = Primary(databases) THEN "pg_primary"
               ELSE IF n \in databases THEN "pg_replica"
               ELSE IF n \in Database THEN "none" ELSE other]]
OneHost == Topology("monitor", {Primary(Database)})

\* Valid responses without the sections that do not matter here, in every topology.
Lean(d, profile) ==
  [With(With(d, "secondary_store", "absent"), "db_routing", "absent") EXCEPT !["profile"] = profile]
Shaped(d, profile, other) ==
  {r \in {[doc |-> Lean(d, profile), nodes |-> Topology(other, databases)] :
            databases \in (SUBSET Database) \ {{}}} :
     Valid(r)}
HostEdits == Shaped(SelfHosted, "spof", "monitor") \cup Shaped(SelfHosted, "ha", "monitor")

\* What one edit makes of a whole response: one field has another tag, or the mode
\* is another one.  Of the edits that the validation refuses, all of which end the
\* run alike, two are kept.
OneField(d) == {With(d, f, tag) : <<f, tag>> \in UNION {{f} \X Tags(f) : f \in Field}}
FieldEdits ==
  [d \in Whole |->
     {e \in OneField(d) \cap Document : Valid([doc |-> e, nodes |-> OneHost])}
       \cup {With(d, "profile", "bad"), With(d, "cluster", "other")}
       \cup {Lean(e, "spof") : e \in {Push, Pull}}]

Starts ==
  {[doc |-> d, nodes |-> OneHost] : d \in Whole}
    \cup {r \in HostEdits : Primary(Database) \in PostgresHosts(r) /\ Cardinality(PostgresHosts(r)) \in {1, 3}}
    \cup Shaped(SelfHosted, "aio", "none")
    \cup Shaped(Pull, "ha", "backup_store") \cup Shaped(Pull, "ha", "none")
Edits(r) ==
  IF r.doc \in Whole THEN {[r EXCEPT !.doc = d] : d \in FieldEdits[r.doc]}
  ELSE IF r \in HostEdits THEN HostEdits
  ELSE IF GeneratesVars(r.doc) THEN {} ELSE {[r EXCEPT !.doc = SelfHosted]}
=============================================================================

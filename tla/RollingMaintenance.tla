------------------------- MODULE RollingMaintenance -------------------------
(***************************************************************************)
(* What a rolling upgrade promises, whoever performs it and in which order:*)
(* members are taken out of service one at a time, only while automatic    *)
(* failover is suspended, packages are replaced only on the member that is *)
(* out, and failover is not resumed before that member is back.  It may be *)
(* abandoned at any point (the playbook header: "done one node at a time   *)
(* to keep the cluster available").                                        *)
(***************************************************************************)
CONSTANT Node

VARIABLES suspended, out, upgraded

maintenanceVars == <<suspended, out, upgraded>>

Init == suspended = FALSE /\ out = {} /\ upgraded = {}

Suspend == /\ out = {}
           /\ suspended' = TRUE
           /\ UNCHANGED <<out, upgraded>>

TakeOut(n) == /\ suspended
              /\ out = {}
              /\ out' = {n}
              /\ UNCHANGED <<suspended, upgraded>>

Replace(n) == /\ suspended
              /\ n \in out
              /\ upgraded' = upgraded \cup {n}
              /\ UNCHANGED <<suspended, out>>

PutBack(n) == /\ suspended
              /\ out = {n}
              /\ out' = {}
              /\ UNCHANGED <<suspended, upgraded>>

Release == /\ suspended
           /\ out = {}
           /\ suspended' = FALSE
           /\ UNCHANGED <<out, upgraded>>

Next == \/ Suspend \/ Release
        \/ \E n \in Node : TakeOut(n) \/ Replace(n) \/ PutBack(n)

Spec == Init /\ [][Next]_maintenanceVars

=============================================================================

----------------------------- MODULE StoreChoice -----------------------------
(***************************************************************************)
(* What the etcd hosts promise to whoever keeps data in them: at most one  *)
(* membership is ever founded that can serve, and once founded it is there *)
(* for good: no deployment, on whatever inventory and however it ends,     *)
(* takes it away or founds another beside it.  Only when the operator has  *)
(* refounded the cluster on hosts most of which are new may there be more. *)
(* A membership is the set of hosts that a cluster was bootstrapped with.  *)
(***************************************************************************)
CONSTANT Node

VARIABLES founded, refounded

storeVars == <<founded, refounded>>

Init == founded = {} /\ refounded = FALSE

Found(members) == /\ founded = {}
                  /\ founded' = {members}
                  /\ UNCHANGED refounded

\* A deployment on hosts most of which are new, and any after it.
Refound == /\ founded \subseteq founded'
           /\ founded' \subseteq SUBSET Node
           /\ refounded' = TRUE

Next == Refound \/ \E members \in SUBSET Node : Found(members)

Spec == Init /\ [][Next]_storeVars

=============================================================================

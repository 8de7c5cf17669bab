------------------------- MODULE PasswordSyncProofs -------------------------
(***************************************************************************)
(* Theorems about PasswordSync, for any hosts, any loop of roles and any   *)
(* number of runs, rotations and failovers.                                *)
(***************************************************************************)
EXTENDS PasswordSync, TLAPS

\* The loop has items, all of which are roles.
LEMMA RolesType == /\ Len(Roles) \in Nat \ {0}
                   /\ \A i \in 1 .. Len(Roles) : Roles[i] \in Role
                   /\ \A role \in Role : \E i \in 1 .. Len(Roles) : role = Roles[i]
<1>1. Len(Roles) \in Nat /\ "rewind" \in Role
  BY RolesAssumption
<1> QED
  BY <1>1 DEF Role

\* A deployed cluster has the right types.
LEMMA InitType == Init => TypeOK
<1> SUFFICES ASSUME Init PROVE TypeOK
  OBVIOUS
<1>1. PICK first \in [Role -> {0}] :
        /\ vault = first /\ planned = first /\ deployed = first
        /\ rendered = [n \in Node |-> first]
        /\ running = [n \in Node |-> first]
        /\ catalog = [n \in Node |-> first]
        /\ values = [r \in Run |-> first]
  BY DEF Init
<1>2. first \in Passwords
  BY <1>1, BoundAssumption DEF Passwords
<1>3. leader = FirstLeader /\ FirstLeader \in Node /\ 1 \in 1 .. Len(Roles)
  BY RolesType, NodeAssumption DEF Init
<1>4. /\ attached = Node \ {leader} /\ diverged = {}
      /\ down = {}
      /\ task = "none" /\ hosts = Node /\ active = {} /\ notified = {}
      /\ pc = [r \in Run |-> "start"] /\ item = [r \in Run |-> 1]
      /\ good = [r \in Run |-> TRUE] /\ target = [r \in Run |-> leader]
      /\ missed = {} /\ spoiled = {} /\ rotations = 0 /\ failures = 0
  BY DEF Init
<1> QED
  BY <1>1, <1>2, <1>3, <1>4, BoundAssumption DEF TypeOK

\* The end of an item keeps the types of what it changes.
LEMMA NextItemType ==
  ASSUME TypeOK, NEW r \in Run, NEW ok \in BOOLEAN, NextItem(r, ok)
  PROVE  /\ pc' \in [Run -> {"start", "alter", "done", "failed"}]
         /\ item' \in [Run -> 1 .. Len(Roles)]
         /\ good' \in [Run -> BOOLEAN]
<1>1. CASE item[r] < Len(Roles)
  <2>1. item[r] + 1 \in 1 .. Len(Roles)
    BY <1>1, RolesType DEF TypeOK
  <2> QED
    BY <1>1, <2>1 DEF TypeOK, NextItem
<1>2. CASE ~(item[r] < Len(Roles))
  <2>1. 1 \in 1 .. Len(Roles)
    BY RolesType
  <2> QED
    BY <1>2, <2>1 DEF TypeOK, NextItem
<1> QED
  BY <1>1, <1>2

\* A password that is put into the catalog is one.
LEMMA AlterType ==
  ASSUME TypeOK, NEW r \in Run, AlterUser(r)
  PROVE  catalog' \in [Node -> Passwords]
<1>1. Current(r) \in Role
  BY RolesType DEF Current, TypeOK
<1>2. values[r][Current(r)] \in 0 .. MaxRotations
  BY <1>1 DEF TypeOK, Passwords
<1>3. [catalog[leader] EXCEPT ![Current(r)] = values[r][Current(r)]] \in Passwords
  BY <1>1, <1>2 DEF TypeOK, Passwords
<1>4. catalog' = [catalog EXCEPT ![leader] =
                    [catalog[leader] EXCEPT ![Current(r)] = values[r][Current(r)]]]
  BY DEF AlterUser, TypeOK
<1> QED
  BY <1>3, <1>4 DEF TypeOK

\* Every step keeps the types.
LEMMA TypeStep == TypeOK /\ [Next]_vars => TypeOK'
<1> SUFFICES ASSUME TypeOK, [Next]_vars PROVE TypeOK'
  OBVIOUS
<1> USE DEF cluster, daemons, play, runs
<1>1. ASSUME NEW role \in Role, Rotate(role) PROVE TypeOK'
  <2>1. rotations + 1 \in 0 .. MaxRotations
    BY <1>1, BoundAssumption DEF Rotate, TypeOK
  <2>2. vault' \in Passwords
    BY <1>1, <2>1 DEF Rotate, TypeOK, Passwords
  <2> QED
    BY <1>1, <2>1, <2>2 DEF Rotate, TypeOK
<1>2. ASSUME NEW n \in Node, Move(n) PROVE TypeOK'
  BY <1>2, BoundAssumption DEF Move, TypeOK
<1>3. ASSUME NEW n \in Node, Detach(n) PROVE TypeOK'
  BY <1>3 DEF Detach, TypeOK
<1>4. ASSUME NEW n \in Node, Reattach(n) PROVE TypeOK'
  BY <1>4 DEF Reattach, TypeOK
<1>5. ASSUME NEW n \in Node, Replicate(n) PROVE TypeOK'
  BY <1>5 DEF Replicate, TypeOK
<1>6. ASSUME NEW n \in Node, Crash(n) PROVE TypeOK'
  BY <1>6, BoundAssumption DEF Crash, TypeOK
<1>7. ASSUME NEW n \in Node, Start(n) PROVE TypeOK'
  BY <1>7 DEF Start, StartOn, TypeOK
<1>8. CASE Deploy \/ Record
  BY <1>8 DEF Deploy, Record, TypeOK
<1>9. CASE Render
  BY <1>9 DEF Render, RenderOn, TypeOK
<1>10. CASE AwaitCluster
  BY <1>10 DEF AwaitCluster, StartOn, TypeOK
<1>11. CASE Reload
  BY <1>11 DEF Reload, EndPlay, StartOn, TypeOK
<1>12. ASSUME NEW r \in Run, Locate(r) PROVE TypeOK'
  BY <1>12 DEF Locate, TypeOK
<1>13. ASSUME NEW r \in Run, Abort(r) PROVE TypeOK'
  BY <1>13 DEF Abort, TypeOK
<1>14. ASSUME NEW r \in Run, AlterNothing(r) PROVE TypeOK'
  <2>1. NextItem(r, TRUE)
    BY <1>14 DEF AlterNothing
  <2> QED
    BY <1>14, <2>1, NextItemType DEF AlterNothing, NextItem, TypeOK
<1>15. ASSUME NEW r \in Run, AlterUser(r) PROVE TypeOK'
  <2>1. NextItem(r, TRUE)
    BY <1>15 DEF AlterUser
  <2>2. spoiled' \subseteq Run
    BY <1>15 DEF AlterUser, TypeOK
  <2> QED
    BY <1>15, <2>1, <2>2, NextItemType, AlterType DEF NextItem, TypeOK
<1>16. ASSUME NEW r \in Run, AlterFails(r) PROVE TypeOK'
  <2>1. NextItem(r, FALSE)
    BY <1>16 DEF AlterFails
  <2> QED
    BY <1>16, <2>1, NextItemType DEF AlterFails, NextItem, TypeOK
<1>17. CASE UNCHANGED vars
  BY <1>17 DEF vars, TypeOK
<1> QED
  BY <1>1, <1>2, <1>3, <1>4, <1>5, <1>6, <1>7, <1>8, <1>9, <1>10, <1>11, <1>12, <1>13, <1>14,
     <1>15, <1>16, <1>17 DEF Next, Cluster, Play, Rotation

\* Type correctness of the three places, the play and the runs.
THEOREM TypeCorrect == Spec => []TypeOK
<1> QED
  BY InitType, TypeStep, PTL DEF Spec

-----------------------------------------------------------------------------
(***************************************************************************)
(* The files and what Patroni has read.                                    *)
(***************************************************************************)

\* Before the template is rendered no host has left and nothing is notified.  A Patroni
\* that runs and has read something else is to be reloaded, or has missed a reload.
NotifiedInv ==
  /\ task \in {"none", "record", "render"} => notified = {} /\ hosts = Node
  /\ \A n \in Node \ down :
       running[n] # rendered[n] => n \in (notified \cap active) \cup missed

\* No step leaves a Patroni behind that no reload and no history accounts for.
LEMMA NotifiedStep == TypeOK /\ NotifiedInv /\ [Next]_vars => NotifiedInv'
<1> SUFFICES ASSUME TypeOK, NotifiedInv, [Next]_vars PROVE NotifiedInv'
  OBVIOUS
<1> USE DEF NotifiedInv, cluster, daemons, play, runs
<1>1. CASE UNCHANGED <<rendered, running, down, task, hosts, active, notified, missed>>
  BY <1>1
<1>2. ASSUME NEW n \in Node, Crash(n) PROVE NotifiedInv'
  BY <1>2 DEF Crash
<1>3. ASSUME NEW n \in Node, Start(n) PROVE NotifiedInv'
  BY <1>3 DEF Start, StartOn, TypeOK
<1>4. CASE Deploy \/ Record
  BY <1>4 DEF Deploy, Record
<1>5. CASE Render
  <2>1. PICK up \in SUBSET hosts : RenderOn(up, {n \in up : rendered[n] # planned})
    BY <1>5 DEF Render
  <2>2. /\ task' = "wait" /\ notified = {} /\ UNCHANGED <<running, down, active>>
        /\ notified' = {n \in up : rendered[n] # planned}
        /\ rendered' = [n \in Node |-> IF n \in up THEN planned ELSE rendered[n]]
        /\ missed' = missed \cup (notified' \ (active \cup down))
    BY <2>1 DEF RenderOn
  <2>3. ASSUME NEW n \in Node \ down, running[n] # rendered'[n]
        PROVE  n \in (notified' \cap active) \cup missed'
    <3>1. CASE n \in up /\ rendered[n] # planned
      BY <2>2, <3>1
    <3>2. CASE ~(n \in up /\ rendered[n] # planned)
      BY <2>2, <2>3, <3>2
    <3> QED
      BY <3>1, <3>2
  <2> QED
    BY <2>2, <2>3
<1>6. CASE AwaitCluster
  <2>1. PICK up \in SUBSET hosts :
          /\ StartOn(up \cap down)
          /\ notified' = notified \cap up
          /\ missed' = (missed \ (up \cap down)) \cup ((notified \cap active) \ up)
    BY <1>6 DEF AwaitCluster
  <2>2. task' = "handlers" /\ UNCHANGED <<rendered, active>>
    BY <1>6 DEF AwaitCluster
  <2> QED
    BY <2>1, <2>2 DEF StartOn
<1>7. CASE Reload
  <2>1. PICK failing \in SUBSET (notified \cap active) :
          /\ EndPlay(hosts \ failing, (notified \cap active) \ failing)
          /\ StartOn((notified \cap active) \ failing)
    BY <1>7 DEF Reload
  <2>2. notified \subseteq hosts
    BY DEF TypeOK
  <2> QED
    BY <2>1, <2>2 DEF EndPlay, StartOn
<1> QED
  BY <1>1, <1>2, <1>3, <1>4, <1>5, <1>6, <1>7
  DEF Next, Cluster, Play, Rotation, Rotate, Move, Detach, Reattach, Replicate, Locate, Abort,
      AlterNothing, AlterUser, AlterFails, NextItem, vars

LEMMA NotifiedAlways == Spec => []NotifiedInv
<1>1. Init => NotifiedInv
  BY DEF Init, NotifiedInv
<1> QED
  BY <1>1, NotifiedStep, TypeCorrect, PTL DEF Spec

\* A Patroni that runs has read what is on its host, but during a play or when it
\* missed a reload.
THEOREM StaleExplained == Spec => []StaleOnlyIfReloadMissed
<1>1. NotifiedInv => StaleOnlyIfReloadMissed
  BY DEF NotifiedInv, StaleOnlyIfReloadMissed
<1> QED
  BY <1>1, NotifiedAlways, PTL

\* Passwords are numbered as they are made, so that a rotation makes a vault that is
\* nowhere else yet.
Issued == [Role -> 0 .. rotations]
IssuedInv == vault \in Issued /\ planned \in Issued /\ deployed \in Issued

LEMMA IssuedStep == TypeOK /\ IssuedInv /\ [Next]_vars => IssuedInv'
<1> SUFFICES ASSUME TypeOK, IssuedInv, [Next]_vars PROVE IssuedInv'
  OBVIOUS
<1> USE DEF IssuedInv, Issued, cluster, daemons, play, runs
<1>1. ASSUME NEW role \in Role, Rotate(role) PROVE IssuedInv'
  <2>1. rotations \in Nat /\ rotations' = rotations + 1
    BY <1>1 DEF Rotate, TypeOK
  <2>2. 0 .. rotations \subseteq 0 .. rotations' /\ rotations' \in 0 .. rotations'
    BY <2>1
  <2> QED
    BY <1>1, <2>1, <2>2 DEF Rotate
<1>2. CASE Deploy
  BY <1>2 DEF Deploy
<1>3. CASE Reload
  BY <1>3 DEF Reload, EndPlay
<1>4. CASE UNCHANGED <<vault, planned, deployed, rotations>>
  BY <1>4
<1> QED
  BY <1>1, <1>2, <1>3, <1>4
  DEF Next, Cluster, Play, Rotation, Move, Detach, Reattach, Replicate, Crash, Start, Record,
      Render, RenderOn, AwaitCluster, Locate, Abort, AlterNothing, AlterUser, AlterFails, NextItem, vars

\* A play that no host has left has rendered what it planned; once the vault's
\* passwords were deployed, they are in every file, nothing is notified and a further
\* play plans the same.
DeployedInv ==
  /\ hosts = Node /\ task \in {"wait", "handlers"} => \A n \in Node : rendered[n] = planned
  /\ deployed = vault =>
       /\ \A n \in Node : rendered[n] = vault
       /\ notified = {}
       /\ task # "none" => planned = vault

LEMMA DeployedStep ==
  TypeOK /\ IssuedInv /\ DeployedInv /\ [Next]_vars => DeployedInv'
<1> SUFFICES ASSUME TypeOK, IssuedInv, DeployedInv, [Next]_vars PROVE DeployedInv'
  OBVIOUS
<1> USE DEF DeployedInv, cluster, daemons, play, runs
<1>1. ASSUME NEW role \in Role, Rotate(role) PROVE DeployedInv'
  <2>1. vault'[role] = rotations + 1 /\ deployed' = deployed
    BY <1>1 DEF Rotate, TypeOK, Passwords
  <2>2. deployed[role] \in 0 .. rotations /\ rotations \in Nat
    BY DEF IssuedInv, Issued, TypeOK
  <2>3. deployed' # vault'
    BY <2>1, <2>2
  <2> QED
    BY <1>1, <2>3 DEF Rotate
<1>2. CASE Deploy \/ Record
  BY <1>2 DEF Deploy, Record
<1>3. CASE Render
  <2>1. PICK up \in SUBSET hosts : RenderOn(up, {n \in up : rendered[n] # planned})
    BY <1>3 DEF Render
  <2>2. /\ hosts' = up
        /\ notified' = {n \in up : rendered[n] # planned}
        /\ rendered' = [n \in Node |-> IF n \in up THEN planned ELSE rendered[n]]
        /\ task = "render" /\ task' = "wait"
        /\ UNCHANGED <<vault, planned, deployed>>
    BY <2>1 DEF RenderOn
  <2> QED
    BY <2>1, <2>2 DEF TypeOK
<1>4. CASE AwaitCluster
  <2>1. PICK up \in SUBSET hosts : hosts' = up /\ notified' = notified \cap up
    BY <1>4 DEF AwaitCluster
  <2>2. hosts \subseteq Node
    BY DEF TypeOK
  <2> QED
    BY <1>4, <2>1, <2>2 DEF AwaitCluster
<1>5. CASE Reload
  <2>1. PICK failing \in SUBSET (notified \cap active) :
          EndPlay(hosts \ failing, (notified \cap active) \ failing)
    BY <1>5 DEF Reload
  <2>2. hosts \ failing = Node => hosts = Node
    BY DEF TypeOK
  <2> QED
    BY <2>1, <2>2 DEF EndPlay
<1>6. CASE UNCHANGED <<vault, rendered, hosts, task, notified, planned, deployed>>
  BY <1>6
<1> QED
  BY <1>1, <1>2, <1>3, <1>4, <1>5, <1>6
  DEF Next, Cluster, Play, Rotation, Move, Detach, Reattach, Replicate, Crash, Start, Locate,
      Abort, AlterNothing, AlterUser, AlterFails, NextItem, vars

-----------------------------------------------------------------------------
(***************************************************************************)
(* Runs of rotate_passwords.yml.                                           *)
(***************************************************************************)

\* For a run that is not spoiled: what the located host has of its passwords, the
\* leader has; as long as no item failed, the leader has those of the items before.
RunInv(r) ==
  r \notin spoiled =>
    /\ pc[r] = "alter" => \A role \in Role :
         catalog[target[r]][role] = values[r][role] => catalog[leader][role] = values[r][role]
    /\ pc[r] = "alter" /\ good[r] => \A j \in 1 .. item[r] - 1 :
         catalog[leader][Roles[j]] = values[r][Roles[j]]
    /\ pc[r] = "done" => catalog[leader] = values[r]
RunsInv ==
  /\ \A r \in Run : RunInv(r)
  /\ \A r \in Run : pc[r] = "start" => item[r] = 1

\* The run itself gets one item further, or to its end.
LEMMA NextItemKeeps ==
  ASSUME TypeOK, TypeOK', NEW r \in Run, NEW ok \in BOOLEAN, NextItem(r, ok), pc[r] = "alter",
         r \notin spoiled', leader' = leader,
         \A role \in Role :
           catalog'[target[r]][role] = values[r][role] => catalog'[leader][role] = values[r][role],
         good[r] => \A j \in 1 .. item[r] - 1 :
           catalog'[leader][Roles[j]] = values[r][Roles[j]],
         ok => catalog'[leader][Current(r)] = values[r][Current(r)]
  PROVE  RunInv(r)'
<1>1. target' = target /\ values' = values
  BY DEF NextItem
<1>2. item[r] \in Nat /\ Len(Roles) \in Nat /\ item[r] \in 1 .. Len(Roles)
  BY RolesType DEF TypeOK
<1>3. CASE item[r] < Len(Roles)
  <2>1. item'[r] = item[r] + 1 /\ good'[r] = (good[r] /\ ok) /\ pc'[r] = "alter"
    BY <1>3 DEF NextItem, TypeOK
  <2>2. ASSUME good'[r], NEW j \in 1 .. item'[r] - 1
        PROVE  catalog'[leader][Roles[j]] = values[r][Roles[j]]
    <3>1. j \in 1 .. item[r] - 1 \/ j = item[r]
      BY <1>2, <2>1, <2>2
    <3> QED
      BY <2>1, <2>2, <3>1 DEF Current
  <2> QED
    BY <1>1, <2>1, <2>2 DEF RunInv
<1>4. CASE ~(item[r] < Len(Roles))
  <2>1. item[r] = Len(Roles) /\ pc'[r] \in {"done", "failed"}
        /\ (pc'[r] = "done" => good[r] /\ ok)
    BY <1>2, <1>4 DEF NextItem, TypeOK
  <2>2. ASSUME pc'[r] = "done", NEW role \in Role
        PROVE  catalog'[leader][role] = values[r][role]
    <3>1. PICK i \in 1 .. Len(Roles) : role = Roles[i]
      BY RolesType
    <3>2. i \in 1 .. item[r] - 1 \/ i = item[r]
      BY <1>2, <2>1
    <3> QED
      BY <2>1, <2>2, <3>1, <3>2 DEF Current
  <2>3. catalog'[leader] \in Passwords /\ values[r] \in Passwords
    BY DEF TypeOK
  <2>4. pc'[r] = "done" => catalog'[leader] = values[r]
    BY <2>2, <2>3 DEF Passwords
  <2> QED
    BY <1>1, <2>1, <2>4 DEF RunInv
<1> QED
  BY <1>3, <1>4

\* The other runs stand still.
LEMMA NextItemOthers ==
  ASSUME TypeOK, NEW r \in Run, NEW ok \in BOOLEAN, NextItem(r, ok), NEW q \in Run, q # r
  PROVE  /\ pc'[q] = pc[q] /\ item'[q] = item[q] /\ good'[q] = good[q]
         /\ target' = target /\ values' = values /\ leader' = leader
BY DEF NextItem, TypeOK, cluster

\* So they keep what they have when the item changes nothing in the catalog.
LEMMA IdleItemOthers ==
  ASSUME TypeOK, RunsInv, NEW r \in Run, NEW ok \in BOOLEAN, NextItem(r, ok),
         UNCHANGED <<catalog, spoiled>>, NEW q \in Run, q # r
  PROVE  RunInv(q)' /\ (pc'[q] = "start" => item'[q] = 1)
<1>1. /\ pc'[q] = pc[q] /\ item'[q] = item[q] /\ good'[q] = good[q]
      /\ target' = target /\ values' = values /\ leader' = leader
  BY NextItemOthers
<1>2. RunInv(q) /\ (pc[q] = "start" => item[q] = 1)
  BY DEF RunsInv
<1> QED
  BY <1>1, <1>2 DEF RunInv

\* No step makes a run that is not spoiled fall back.
LEMMA RunsStep == TypeOK /\ TypeOK' /\ RunsInv /\ [Next]_vars => RunsInv'
<1> SUFFICES ASSUME TypeOK, TypeOK', RunsInv, [Next]_vars PROVE RunsInv'
  OBVIOUS
<1> USE DEF cluster, daemons, play, runs
<1>1. CASE UNCHANGED <<catalog, leader, pc, item, good, target, values, spoiled>>
  BY <1>1 DEF RunsInv, RunInv
<1>2. ASSUME NEW n \in Node, Move(n) PROVE RunsInv'
  <2>1. CASE catalog[n] = catalog[leader]
    BY <1>2, <2>1 DEF Move, RunsInv, RunInv
  <2>2. CASE catalog[n] # catalog[leader]
    <3>1. \A r \in Run \ spoiled' : pc'[r] \notin {"alter", "done"}
      BY <1>2, <2>2 DEF Move
    <3> QED
      BY <1>2, <3>1 DEF Move, RunsInv, RunInv
  <2> QED
    BY <2>1, <2>2
<1>3. ASSUME NEW n \in Node, Reattach(n) \/ Replicate(n) PROVE RunsInv'
  <2>1. /\ n # leader
        /\ catalog' \in {catalog, [catalog EXCEPT ![n] = catalog[leader]]}
        /\ UNCHANGED <<leader, pc, item, good, target, values, spoiled>>
    BY <1>3 DEF Reattach, Replicate, TypeOK
  <2>2. catalog'[leader] = catalog[leader]
    BY <2>1 DEF TypeOK
  <2>3. \A r \in Run : catalog'[target[r]] \in {catalog[target[r]], catalog[leader]}
    BY <2>1 DEF TypeOK
  <2> QED
    BY <2>1, <2>2, <2>3 DEF RunsInv, RunInv
<1>4. ASSUME NEW r \in Run, Locate(r) PROVE RunsInv'
  <2>1. /\ pc[r] = "start" /\ item[r] = 1 /\ item' = item
        /\ pc' = [pc EXCEPT ![r] = "alter"]
        /\ target' = [target EXCEPT ![r] = leader] /\ values' = [values EXCEPT ![r] = vault]
        /\ UNCHANGED <<catalog, leader, good, spoiled>>
    BY <1>4 DEF Locate, RunsInv
  <2>2. RunInv(r)'
    BY <2>1 DEF RunInv, TypeOK
  <2>3. \A q \in Run \ {r} : pc'[q] = pc[q] /\ target'[q] = target[q] /\ values'[q] = values[q]
    BY <2>1 DEF TypeOK
  <2>4. \A q \in Run \ {r} : RunInv(q)'
    BY <2>1, <2>3 DEF RunInv, RunsInv
  <2> QED
    BY <2>1, <2>2, <2>3, <2>4 DEF RunsInv, TypeOK
<1>5. ASSUME NEW r \in Run, Abort(r) PROVE RunsInv'
  BY <1>5 DEF Abort, RunsInv, RunInv, TypeOK
<1>6. ASSUME NEW r \in Run, AlterNothing(r) PROVE RunsInv'
  <2>1. /\ NextItem(r, TRUE) /\ pc[r] = "alter" /\ UNCHANGED <<catalog, spoiled, leader>>
        /\ catalog[target[r]][Current(r)] = values[r][Current(r)]
    BY <1>6 DEF AlterNothing, NextItem
  <2>2. Current(r) \in Role
    BY RolesType DEF Current, TypeOK
  <2>3. RunInv(r)'
    <3>1. CASE r \in spoiled
      BY <2>1, <3>1 DEF RunInv
    <3>2. CASE r \notin spoiled
      BY <2>1, <2>2, <3>2, NextItemKeeps DEF RunsInv, RunInv
    <3> QED
      BY <3>1, <3>2
  <2>4. \A q \in Run \ {r} : RunInv(q)' /\ (pc'[q] = "start" => item'[q] = 1)
    BY <2>1, IdleItemOthers
  <2>5. pc'[r] # "start"
    BY <2>1 DEF NextItem, TypeOK
  <2> QED
    BY <2>3, <2>4, <2>5 DEF RunsInv
<1>7. ASSUME NEW r \in Run, AlterUser(r) PROVE RunsInv'
  <2> DEFINE c == Current(r)
  <2>1. /\ NextItem(r, TRUE) /\ pc[r] = "alter" /\ leader' = leader /\ target[r] = leader
        /\ catalog' = [catalog EXCEPT ![leader][c] = values[r][c]]
        /\ spoiled' = spoiled
             \cup {q \in Run : pc[q] \in {"alter", "done"} /\ values[q] # values[r]}
    BY <1>7 DEF AlterUser, NextItem
  <2>2. c \in Role /\ leader \in Node /\ catalog[leader] \in Passwords
    BY RolesType DEF Current, TypeOK
  <2> HIDE DEF c
  <2>3. /\ \A role \in Role :
             catalog'[leader][role] = IF role = c THEN values[r][c] ELSE catalog[leader][role]
        /\ \A n \in Node \ {leader} : catalog'[n] = catalog[n]
    BY <2>1, <2>2 DEF TypeOK, Passwords
  <2>4. \A j \in 1 .. item[r] - 1 : Roles[j] \in Role
    BY RolesType DEF TypeOK
  <2>5. RunInv(r)'
    <3>1. CASE r \in spoiled
      BY <2>1, <3>1 DEF RunInv
    <3>2. CASE r \notin spoiled
      <4>1. r \notin spoiled'
        BY <2>1, <3>2
      <4>2. catalog'[leader][Current(r)] = values[r][Current(r)]
        BY <2>2, <2>3 DEF c
      <4>3. good[r] => \A j \in 1 .. item[r] - 1 :
              catalog'[leader][Roles[j]] = values[r][Roles[j]]
        BY <2>1, <2>3, <2>4, <3>2 DEF RunsInv, RunInv
      <4> QED
        BY <2>1, <4>1, <4>2, <4>3, NextItemKeeps
    <3> QED
      BY <3>1, <3>2
  <2>6. ASSUME NEW q \in Run, q # r PROVE RunInv(q)' /\ (pc'[q] = "start" => item'[q] = 1)
    <3>1. /\ pc'[q] = pc[q] /\ item'[q] = item[q] /\ good'[q] = good[q]
          /\ target' = target /\ values' = values
      BY <2>1, <2>6, NextItemOthers
    <3>2. CASE q \in spoiled' \/ pc[q] \notin {"alter", "done"}
      BY <3>1, <3>2 DEF RunInv, RunsInv
    <3>3. CASE q \notin spoiled' /\ pc[q] \in {"alter", "done"}
      <4>1. values[q] = values[r] /\ q \notin spoiled
        BY <2>1, <3>3
      <4>2. ASSUME NEW role \in Role
            PROVE  catalog[leader][role] = values[q][role]
                     => catalog'[leader][role] = values[q][role]
        BY <2>3, <4>1
      <4>3. pc[q] = "alter" => \A role \in Role :
              catalog'[target[q]][role] = values[q][role]
                => catalog'[leader][role] = values[q][role]
        <5>1. CASE target[q] = leader
          BY <5>1
        <5>2. CASE target[q] # leader
          <6>1. target[q] \in Node
            BY DEF TypeOK
          <6>2. catalog'[target[q]] = catalog[target[q]]
            BY <2>3, <5>2, <6>1
          <6>3. pc[q] = "alter" => \A role \in Role :
                  catalog[target[q]][role] = values[q][role]
                    => catalog[leader][role] = values[q][role]
            BY <4>1 DEF RunsInv, RunInv
          <6> QED
            BY <4>2, <6>2, <6>3
        <5> QED
          BY <5>1, <5>2
      <4>4. \A j \in 1 .. item[q] - 1 : Roles[j] \in Role
        BY RolesType DEF TypeOK
      <4>5. pc[q] = "alter" /\ good[q] => \A j \in 1 .. item[q] - 1 :
              catalog'[leader][Roles[j]] = values[q][Roles[j]]
        BY <4>1, <4>2, <4>4 DEF RunsInv, RunInv
      <4>6. pc[q] = "done" => catalog'[leader] = values[q]
        <5>1. catalog'[leader] \in Passwords /\ values[q] \in Passwords
          BY <2>1, <2>2 DEF TypeOK
        <5>2. pc[q] = "done" => \A role \in Role : catalog'[leader][role] = values[q][role]
          BY <4>1, <4>2 DEF RunsInv, RunInv
        <5> QED
          BY <5>1, <5>2 DEF Passwords
      <4> QED
        BY <2>1, <3>1, <4>3, <4>5, <4>6 DEF RunInv, RunsInv
    <3> QED
      BY <3>2, <3>3
  <2>7. pc'[r] # "start"
    BY <2>1 DEF NextItem, TypeOK
  <2> QED
    BY <2>5, <2>6, <2>7 DEF RunsInv
<1>8. ASSUME NEW r \in Run, AlterFails(r) PROVE RunsInv'
  <2>1. NextItem(r, FALSE) /\ pc[r] = "alter" /\ UNCHANGED <<catalog, spoiled, leader>>
    BY <1>8 DEF AlterFails, NextItem
  <2>2. RunInv(r)'
    <3>1. CASE r \in spoiled
      BY <2>1, <3>1 DEF RunInv
    <3>2. CASE r \notin spoiled
      BY <2>1, <3>2, NextItemKeeps DEF RunsInv, RunInv
    <3> QED
      BY <3>1, <3>2
  <2>3. \A q \in Run \ {r} : RunInv(q)' /\ (pc'[q] = "start" => item'[q] = 1)
    BY <2>1, IdleItemOthers
  <2>4. pc'[r] # "start"
    BY <2>1 DEF NextItem, TypeOK
  <2> QED
    BY <2>2, <2>3, <2>4 DEF RunsInv
<1> QED
  BY <1>1, <1>2, <1>3, <1>4, <1>5, <1>6, <1>7, <1>8
  DEF Next, Cluster, Play, Rotation, Rotate, Detach, Crash, Start, Deploy, Record, Render,
      RenderOn, AwaitCluster, Reload, EndPlay, vars

LEMMA RunsAlways == Spec => []RunsInv
<1>1. Init => RunsInv
  BY DEF Init, RunsInv, RunInv
<1> QED
  BY <1>1, RunsStep, TypeCorrect, PTL DEF Spec

\* A rotation that reports success has set the passwords it read on whoever leads,
\* unless a failover lost the change or a run with other passwords came after it.
THEOREM RotationHolds == Spec => []RotationTakesHold
<1>1. RunsInv => RotationTakesHold
  BY DEF RunsInv, RunInv, RotationTakesHold
<1> QED
  BY <1>1, RunsAlways, PTL

\* A deployment and a rotation, in any order and overlapping in any way with others,
\* bring the vault's passwords to every place.
THEOREM Synced == Spec => []SyncedAfterFullPass
<1>1. Init => IssuedInv /\ DeployedInv
  <2> SUFFICES ASSUME Init PROVE IssuedInv /\ DeployedInv
    OBVIOUS
  <2>1. PICK first \in [Role -> {0}] :
          /\ vault = first /\ planned = first /\ deployed = first
          /\ rendered = [n \in Node |-> first]
    BY DEF Init
  <2>2. rotations = 0 /\ task = "none" /\ notified = {}
    BY DEF Init
  <2> QED
    BY <2>1, <2>2 DEF IssuedInv, Issued, DeployedInv
<1>2. DeployedInv /\ StaleOnlyIfReloadMissed /\ RotationTakesHold => SyncedAfterFullPass
  BY DEF DeployedInv, StaleOnlyIfReloadMissed, RotationTakesHold, SyncedAfterFullPass, FullPass
<1> QED
  BY <1>1, <1>2, IssuedStep, DeployedStep, TypeCorrect, StaleExplained, RotationHolds, PTL
  DEF Spec

\* What a standby needs to come back: whoever leads, every member whose Patroni runs
\* authenticates to it with what that has read, for streaming and for pg_rewind.  It is
\* what makes Patroni's tries succeed in StandbysReturn.
THEOREM StandbysAuthenticate ==
  Spec => [](FullPass => \A n \in Node \ down, role \in {"replication", "rewind"} :
                           running[n][role] = catalog[leader][role])
<1>1. SyncedAfterFullPass
        => (FullPass => \A n \in Node \ down, role \in {"replication", "rewind"} :
                          running[n][role] = catalog[leader][role])
  BY DEF SyncedAfterFullPass
<1> QED
  BY <1>1, Synced, PTL

=============================================================================

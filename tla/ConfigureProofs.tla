--------------------------- MODULE ConfigureProofs ---------------------------
(***************************************************************************)
(* Theorems about Configure, for any set of overlapping runs, any machine  *)
(* secrets and any responses.                                              *)
(***************************************************************************)
EXTENDS Configure, TLAPS

\* A workspace as earlier runs leave it has the right types.
LEMMA InitType == Init => TypeOK
<1> SUFFICES ASSUME Init PROVE TypeOK
  OBVIOUS
<1>1. {0, 1} \subseteq 0..minted /\ minted \in Nat
  BY DEF Init
<1>2. vault \in Vault /\ NoSecrets \in Vault
  BY DEF Init, Vault, NoSecrets
<1>3. pc \in [Run -> Label]
  BY DEF Init, Label
<1> QED
  BY <1>1, <1>2, <1>3 DEF Init, TypeOK

\* The empty vault is a vault.
LEMMA NoSecretsType == NoSecrets \in Vault
  BY DEF NoSecrets, Vault

\* A run only ever wants a vault of the keys there are.
LEMMA WantedType ==
  ASSUME TypeOK, NEW r \in Run, NEW v \in Wanted(r)
  PROVE  v \in Vault
<1>1. minted + 1 \in Nat /\ vault \in Vault
  BY DEF TypeOK
<1>2. \A keys : \A u \in Vault : Fill(u, keys, minted + 1) \in Vault
  BY <1>1 DEF Fill, Vault
<1>3. op[r] \in {"silent", "wizard", "rotate"}
  BY DEF TypeOK
<1> QED
  BY <1>1, <1>2, <1>3 DEF Wanted, Vault

\* Every step keeps the types.
LEMMA TypeStep == TypeOK /\ [Next]_allVars => TypeOK'
<1> USE DEF TypeOK, Label, Goto
<1> SUFFICES ASSUME TypeOK, [Next]_allVars PROVE TypeOK'
  OBVIOUS
<1>1. ASSUME NEW r \in Run, Step(r) PROVE TypeOK'
  <2> USE DEF secrets, request, local, derived, history, VaultStep
  <2>1. CASE Load(r)
    BY <2>1 DEF Load
  <2>2. CASE WriteInventory(r)
    BY <2>2 DEF WriteInventory
  <2>3. CASE WriteVars(r)
    BY <2>3 DEF WriteVars
  <2>4. CASE WriteDoc(r)
    BY <2>4 DEF WriteDoc
  <2>5. CASE Answer(r)
    BY <2>5 DEF Answer
  <2>6. CASE WriteResponse(r)
    BY <2>6 DEF WriteResponse
  <2>7. CASE LookForPassphrase(r)
    BY <2>7 DEF LookForPassphrase
  <2>8. CASE WritePassphrase(r)
    BY <2>8 DEF WritePassphrase
  <2>9. CASE ProtectPassphrase(r)
    BY <2>9 DEF ProtectPassphrase
  <2>10. CASE ReadVault(r)
    BY <2>10, WantedType DEF ReadVault
  <2>11. CASE Refuse(r)
    BY <2>11 DEF Refuse
  <2>12. CASE WriteTemp(r)
    BY <2>12 DEF WriteTemp
  <2>13. CASE Encrypt(r)
    BY <2>13 DEF Encrypt
  <2>14. CASE EncryptFails(r)
    BY <2>14 DEF EncryptFails
  <2>15. CASE RemoveTemp(r)
    BY <2>15, NoSecretsType DEF RemoveTemp, Forget
  <2>16. CASE Kill(r)
    <3>1. CASE UNCHANGED <<vault, sealed, clobbered>>
      BY <2>16, <3>1, NoSecretsType DEF Kill, Forget
    <3>2. CASE vault' = NoSecrets /\ sealed' = 0 /\ clobbered' = TRUE
      BY <2>16, <3>2, NoSecretsType DEF Kill, Forget
    <3> QED
      BY <2>16, <3>1, <3>2 DEF Kill
  <2> QED
    BY <1>1, <2>1, <2>2, <2>3, <2>4, <2>5, <2>6, <2>7, <2>8, <2>9, <2>10, <2>11, <2>12,
       <2>13, <2>14, <2>15, <2>16 DEF Step
<1>2. CASE UNCHANGED allVars
  BY <1>2 DEF allVars, secrets, request, local, derived, history
<1> QED
  BY <1>1, <1>2 DEF Next

-----------------------------------------------------------------------------
(***************************************************************************)
(* Every secret is kept.                                                   *)
(***************************************************************************)

\* What a run is about to write differs from what it read only where something
\* was missing, or in the key it rotates.
CarriesForward ==
  \A r \in Run : pc[r] \in {"temp", "encrypt"} =>
    \A k \in Key : Has(held[r], k) /\ updated[r][k] # held[r][k]
                     => op[r] = "rotate" /\ rotated[r] = k

\* That is what each of the three commands makes of the vault it reads.
LEMMA WantedKeeps ==
  ASSUME TypeOK, NEW r \in Run, NEW v \in Wanted(r), NEW k \in Key,
         Has(vault, k), v[k] # vault[k]
  PROVE  op[r] = "rotate" /\ rotated[r] = k
<1>1. \A keys : \A u \in Vault : u[k] # 0 => Fill(u, keys, minted + 1)[k] = u[k]
  BY DEF Fill, Has
<1>2. \A keys : \A u \in Vault : Fill(u, keys, minted + 1) \in Vault
  BY DEF Fill, Vault, TypeOK
<1>3. vault \in Vault /\ op[r] \in {"silent", "wizard", "rotate"}
  BY DEF TypeOK
<1>4. op[r] = "rotate"
  BY <1>1, <1>2, <1>3 DEF Wanted, Has
<1>5. v = [vault EXCEPT ![rotated[r]] = minted + 1]
  BY <1>4 DEF Wanted
<1> QED
  BY <1>3, <1>4, <1>5 DEF Vault

\* Held and updated are set together, and stay until the run is over.
LEMMA CarryStep == TypeOK /\ CarriesForward /\ [Next]_allVars => CarriesForward'
<1> SUFFICES ASSUME TypeOK, CarriesForward, [Next]_allVars,
                    NEW q \in Run, pc'[q] \in {"temp", "encrypt"},
                    NEW k \in Key, Has(held'[q], k), updated'[q][k] # held'[q][k]
             PROVE  op'[q] = "rotate" /\ rotated'[q] = k
  BY DEF CarriesForward, Has
<1> USE DEF TypeOK
<1>1. UNCHANGED request
  BY DEF Next, Step, Load, WriteInventory, WriteVars, WriteDoc, Answer, WriteResponse,
         LookForPassphrase, WritePassphrase, ProtectPassphrase, ReadVault, Refuse, WriteTemp,
         Encrypt, EncryptFails, RemoveTemp, Kill, allVars
<1>2. CASE pc[q] \in {"temp", "encrypt"} /\ held'[q] = held[q] /\ updated'[q] = updated[q]
  BY <1>1, <1>2 DEF CarriesForward, request
<1>3. CASE ReadVault(q)
  <2>1. PICK v \in Wanted(q) : held'[q] = vault /\ updated'[q] = v
    BY <1>3 DEF ReadVault, Goto
  <2> QED
    BY <1>1, <2>1, WantedKeeps DEF request
<1>4. ASSUME NEW r \in Run, Step(r)
      PROVE  \/ pc[q] \in {"temp", "encrypt"} /\ held'[q] = held[q] /\ updated'[q] = updated[q]
             \/ ReadVault(q)
  BY <1>4 DEF Step, Load, WriteInventory, WriteVars, WriteDoc, Answer, WriteResponse,
         LookForPassphrase, WritePassphrase, ProtectPassphrase, ReadVault, Refuse, WriteTemp,
         Encrypt, EncryptFails, RemoveTemp, Kill, Forget, Goto, VaultStep, local
<1>5. CASE UNCHANGED allVars
  BY <1>2, <1>5 DEF allVars, local
<1> QED
  BY <1>2, <1>3, <1>4, <1>5 DEF Next

\* A rotation is about to write what it read but for one secret, which it has.
RotateInv ==
  \A r \in Run : op[r] = "rotate" /\ pc[r] \in {"temp", "encrypt"} =>
    \E v \in Nat \ {0} : updated[r] = [held[r] EXCEPT ![rotated[r]] = v]

LEMMA RotateStep == TypeOK /\ RotateInv /\ [Next]_allVars => RotateInv'
<1> SUFFICES ASSUME TypeOK, RotateInv, [Next]_allVars,
                    NEW q \in Run, op'[q] = "rotate", pc'[q] \in {"temp", "encrypt"}
             PROVE  \E v \in Nat \ {0} : updated'[q] = [held'[q] EXCEPT ![rotated'[q]] = v]
  BY DEF RotateInv
<1>1. op' = op /\ rotated' = rotated
  BY DEF Next, Step, Load, WriteInventory, WriteVars, WriteDoc, Answer, WriteResponse,
         LookForPassphrase, WritePassphrase, ProtectPassphrase, ReadVault, Refuse, WriteTemp,
         Encrypt, EncryptFails, RemoveTemp, Kill, allVars, request
<1>2. CASE pc[q] \in {"temp", "encrypt"} /\ held'[q] = held[q] /\ updated'[q] = updated[q]
  BY <1>1, <1>2 DEF RotateInv
<1>3. CASE ReadVault(q)
  <2>1. PICK v \in Wanted(q) : held'[q] = vault /\ updated'[q] = v
    BY <1>3 DEF ReadVault, Goto, TypeOK
  <2>2. v = [vault EXCEPT ![rotated[q]] = minted + 1]
    BY <1>1, <2>1 DEF Wanted
  <2>3. minted + 1 \in Nat \ {0}
    BY DEF TypeOK
  <2> QED
    BY <1>1, <2>1, <2>2, <2>3
<1>4. ASSUME NEW r \in Run, Step(r)
      PROVE  \/ pc[q] \in {"temp", "encrypt"} /\ held'[q] = held[q] /\ updated'[q] = updated[q]
             \/ ReadVault(q)
  BY <1>4 DEF Step, Load, WriteInventory, WriteVars, WriteDoc, Answer, WriteResponse,
         LookForPassphrase, WritePassphrase, ProtectPassphrase, ReadVault, Refuse, WriteTemp,
         Encrypt, EncryptFails, RemoveTemp, Kill, Forget, Goto, VaultStep, local, TypeOK
<1>5. CASE UNCHANGED allVars
  BY <1>2, <1>5 DEF allVars, local
<1> QED
  BY <1>2, <1>3, <1>4, <1>5 DEF Next

-----------------------------------------------------------------------------
(***************************************************************************)
(* The passphrase, and what is left on disk.                               *)
(***************************************************************************)

\* A wizard that is typing a passphrase found none; if there is one by now,
\* another wizard has typed it.
PassphraseInv ==
  /\ sealed # 0 => passphrase # 0
  /\ \A r \in Run : pc[r] = "type" => r \in bootstraps
  /\ \A r \in Run : pc[r] = "type" /\ passphrase # 0 => \E q \in bootstraps : q # r

Tidy == PassphraseInv /\ VaultReadable /\ NothingLeftBehind

\* Initially there is at most one passphrase, protected, and no temporary file.
LEMMA InitTidy == Init => Tidy
  BY DEF Init, Tidy, PassphraseInv, VaultReadable, NothingLeftBehind

\* Only WritePassphrase changes the passphrase, only Encrypt and Kill the seal.
LEMMA TidyStep == TypeOK /\ Tidy /\ [Next]_allVars => Tidy'
<1> SUFFICES ASSUME TypeOK, Tidy, [Next]_allVars PROVE Tidy'
  OBVIOUS
<1> USE DEF Tidy, PassphraseInv, VaultReadable, NothingLeftBehind
<1>1. ASSUME NEW r \in Run, Step(r) PROVE Tidy'
  <2> USE DEF TypeOK, secrets, local, history, Goto, VaultStep
  <2>1. CASE Load(r) \/ WriteInventory(r) \/ WriteVars(r) \/ WriteDoc(r) \/ Answer(r)
             \/ WriteResponse(r)
    BY <2>1 DEF Load, WriteInventory, WriteVars, WriteDoc, Answer, WriteResponse
  <2>2. CASE LookForPassphrase(r)
    BY <2>2 DEF LookForPassphrase
  <2>3. CASE WritePassphrase(r)
    BY <2>3 DEF WritePassphrase
  <2>4. CASE ProtectPassphrase(r)
    BY <2>4 DEF ProtectPassphrase
  <2>5. CASE ReadVault(r) \/ Refuse(r) \/ WriteTemp(r) \/ EncryptFails(r)
    BY <2>5 DEF ReadVault, Refuse, WriteTemp, EncryptFails
  <2>6. CASE Encrypt(r)
    BY <2>6 DEF Encrypt
  <2>7. CASE RemoveTemp(r)
    BY <2>7 DEF RemoveTemp
  <2>8. CASE Kill(r)
    BY <2>8 DEF Kill, Over
  <2> QED
    BY <1>1, <2>1, <2>2, <2>3, <2>4, <2>5, <2>6, <2>7, <2>8 DEF Step
<1>2. CASE UNCHANGED allVars
  BY <1>2 DEF allVars, secrets, local, history
<1> QED
  BY <1>1, <1>2 DEF Next

-----------------------------------------------------------------------------
(***************************************************************************)
(* The secrets that a silent run leaves.                                   *)
(***************************************************************************)

\* No run is about to remove a secret; a silent one is about to write, or has left,
\* those its response needs.  Which runs are at which steps is part of it.
Needed(r) == MachineSecret \cup Required(data[r])
CompleteInv ==
  /\ \A r \in Run : pc[r] \in {"temp", "encrypt"} =>
       \A k \in Key : Has(held[r], k) => Has(updated[r], k)
  /\ \A r \in Run : op[r] = "silent" /\ pc[r] \in {"temp", "encrypt"} =>
       \A k \in Needed(r) : Has(updated[r], k)
  /\ \A r \in Run : op[r] = "silent" /\ ~noVault[r] /\ ~clobbered /\ pc[r] \in {"unlink", "done"} =>
       \A k \in Needed(r) : Has(vault, k)
  /\ \A r \in Run : pc[r] \in {"load", "inventory", "vars", "doc"} => op[r] = "silent"
  /\ \A r \in Run : pc[r] = "answer" => op[r] = "wizard"

LEMMA NeededType ==
  ASSUME TypeOK, NEW r \in Run
  PROVE  Needed(r) \subseteq Key
BY DEF Needed, Key, TypeOK

\* What a run makes of the vault has all that the vault has and, after a silent run,
\* all that its response needs.
LEMMA WantedCompletes ==
  ASSUME TypeOK, NEW r \in Run, NEW v \in Wanted(r)
  PROVE  /\ \A k \in Key : Has(vault, k) => Has(v, k)
         /\ op[r] = "silent" => \A k \in Needed(r) : Has(v, k)
<1>1. vault \in Vault /\ minted + 1 \in Nat \ {0} /\ op[r] \in {"silent", "wizard", "rotate"}
  BY DEF TypeOK
<1>2. \A keys : \A u \in Vault :
        /\ Fill(u, keys, minted + 1) \in Vault
        /\ \A k \in Key : Has(u, k) \/ k \in keys => Has(Fill(u, keys, minted + 1), k)
  BY <1>1 DEF Fill, Has, Vault
<1>3. CASE op[r] = "silent"
  <2> DEFINE filled == Fill(vault, MachineSecret, minted + 1)
  <2>1. v = filled /\ Missing(filled, data[r]) = {}
    BY <1>3 DEF Wanted
  <2>2. \A k \in Required(data[r]) : Has(filled, k)
    BY <2>1 DEF Missing
  <2>3. MachineSecret \subseteq Key
    BY DEF Key
  <2> QED
    BY <1>1, <1>2, <2>1, <2>2, <2>3 DEF Needed
<1>4. CASE op[r] = "wizard"
  <2>1. PICK keys : v = Fill(Fill(vault, MachineSecret, minted + 1), keys, minted + 1)
    BY <1>4 DEF Wanted
  <2> QED
    BY <1>1, <1>2, <1>4, <2>1
<1>5. CASE op[r] = "rotate"
  BY <1>1, <1>5 DEF Wanted, Vault, Has, TypeOK
<1> QED
  BY <1>1, <1>3, <1>4, <1>5

LEMMA CompleteStep == TypeOK /\ CompleteInv /\ [Next]_allVars => CompleteInv'
<1> SUFFICES ASSUME TypeOK, CompleteInv, [Next]_allVars PROVE CompleteInv'
  OBVIOUS
<1>1. ASSUME NEW r \in Run, Step(r) PROVE CompleteInv'
  <2> USE DEF CompleteInv, Needed, Has, secrets, request, local, history, derived, Goto
  <2>1. CASE Load(r) \/ Answer(r)
    BY <2>1 DEF Load, Answer, TypeOK
  <2>2. CASE WriteInventory(r) \/ WriteVars(r) \/ WriteDoc(r) \/ WriteResponse(r)
    BY <2>2 DEF WriteInventory, WriteVars, WriteDoc, WriteResponse, VaultStep, TypeOK
  <2>3. CASE LookForPassphrase(r) \/ WritePassphrase(r) \/ ProtectPassphrase(r)
    BY <2>3 DEF LookForPassphrase, WritePassphrase, ProtectPassphrase, TypeOK
  <2>4. CASE ReadVault(r)
    <3>1. PICK v \in Wanted(r) :
            \/ updated' = [updated EXCEPT ![r] = v] /\ held' = [held EXCEPT ![r] = vault]
                 /\ pc' = [pc EXCEPT ![r] = "temp"]
            \/ v = vault /\ pc' = [pc EXCEPT ![r] = "done"] /\ UNCHANGED <<updated, held>>
      BY <2>4 DEF ReadVault
    <3>2. UNCHANGED <<vault, op, noVault, data, clobbered>>
      BY <2>4 DEF ReadVault
    <3>3. /\ \A k \in Key : Has(vault, k) => Has(v, k)
          /\ op[r] = "silent" => \A k \in Needed(r) : Has(v, k)
      BY WantedCompletes
    <3> QED
      BY <3>1, <3>2, <3>3 DEF TypeOK
  <2>5. CASE Refuse(r) \/ WriteTemp(r) \/ EncryptFails(r)
    BY <2>5 DEF Refuse, WriteTemp, EncryptFails, TypeOK
  <2>6. CASE Encrypt(r)
    <3>1. /\ vault' = updated[r] /\ clobbered' = (clobbered \/ held[r] # vault)
          /\ pc[r] = "encrypt" /\ pc' = [pc EXCEPT ![r] = "unlink"]
          /\ UNCHANGED <<op, noVault, data, held, updated>>
      BY <2>6 DEF Encrypt
    <3>2. ~clobbered' => \A k \in Key : Has(vault, k) => Has(vault', k)
      BY <3>1
    <3> QED
      BY <3>1, <3>2, NeededType DEF TypeOK
  <2>7. CASE RemoveTemp(r)
    BY <2>7 DEF RemoveTemp, Forget, TypeOK
  <2>8. CASE Kill(r)
    <3>1. /\ pc' = [pc EXCEPT ![r] = "killed"]
          /\ held' = [held EXCEPT ![r] = NoSecrets] /\ updated' = [updated EXCEPT ![r] = NoSecrets]
          /\ clobbered' \/ UNCHANGED <<vault, clobbered>>
          /\ UNCHANGED <<op, noVault, data>>
      BY <2>8 DEF Kill, Forget
    <3> QED
      BY <3>1 DEF TypeOK
  <2> QED
    BY <1>1, <2>1, <2>2, <2>3, <2>4, <2>5, <2>6, <2>7, <2>8 DEF Step
<1>2. CASE UNCHANGED allVars
  BY <1>2 DEF allVars, secrets, request, local, history, CompleteInv, Needed, Has
<1> QED
  BY <1>1, <1>2 DEF Next

-----------------------------------------------------------------------------
(***************************************************************************)
(* The derived files.                                                      *)
(***************************************************************************)

\* All silent runs that have loaded a response have loaded m, and none was killed.
Only(m) ==
  \A r \in Run : op[r] = "silent" =>
    (pc[r] = "load" \/ data[r] = m) /\ pc[r] # "killed"

\* Then each file is of m, unless a run is about to write it or none has written any.
DerivedInv ==
  \A m \in Response : Only(m) =>
    /\ inventory = m \/ (inventory = vars /\ doc = vars)
    /\ \A r \in Run : pc[r] \in {"vars", "doc"} => inventory = m
    /\ inventory = m /\ vars # m => \E r \in Run : pc[r] = "vars"
    /\ vars = m /\ m.mode # "self_hosted" /\ doc # m => \E r \in Run : pc[r] = "doc"

LEMMA DerivedStep ==
  TypeOK /\ CompleteInv /\ DerivedInv /\ [Next]_allVars => DerivedInv'
<1> SUFFICES ASSUME TypeOK, CompleteInv, DerivedInv, [Next]_allVars,
                    NEW m \in Response, Only(m)'
             PROVE  /\ inventory' = m \/ (inventory' = vars' /\ doc' = vars')
                    /\ \A r \in Run : pc'[r] \in {"vars", "doc"} => inventory' = m
                    /\ inventory' = m /\ vars' # m => \E r \in Run : pc'[r] = "vars"
                    /\ vars' = m /\ m.mode # "self_hosted" /\ doc' # m
                         => \E r \in Run : pc'[r] = "doc"
  BY DEF DerivedInv
<1>1. Only(m)
  <2>1. ASSUME NEW r \in Run, Step(r) PROVE Only(m)
    <3>1. \A q \in Run : q # r => pc'[q] = pc[q] /\ data'[q] = data[q]
      BY <2>1 DEF Step, Load, WriteInventory, WriteVars, WriteDoc, Answer, WriteResponse,
         LookForPassphrase, WritePassphrase, ProtectPassphrase, ReadVault, Refuse, WriteTemp,
         Encrypt, EncryptFails, RemoveTemp, Kill, Goto, VaultStep, local, TypeOK
    <3>2. op' = op /\ pc[r] # "killed" /\ pc'[r] # "load"
      BY <2>1 DEF Step, Load, WriteInventory, WriteVars, WriteDoc, Answer, WriteResponse,
         LookForPassphrase, WritePassphrase, ProtectPassphrase, ReadVault, Refuse, WriteTemp,
         Encrypt, EncryptFails, RemoveTemp, Kill, Goto, VaultStep, request, Over, TypeOK
    <3>3. op[r] = "silent" /\ pc[r] # "load" => data'[r] = data[r]
      <4>1. CASE Answer(r)
        BY <4>1 DEF Answer, CompleteInv
      <4> QED
        BY <2>1, <4>1 DEF Step, Load, WriteInventory, WriteVars, WriteDoc, WriteResponse,
         LookForPassphrase, WritePassphrase, ProtectPassphrase, ReadVault, Refuse, WriteTemp,
         Encrypt, EncryptFails, RemoveTemp, Kill, local
    <3> QED
      BY <3>1, <3>2, <3>3 DEF Only
  <2>2. CASE UNCHANGED allVars
    BY <2>2 DEF Only, allVars, request, local
  <2> QED
    BY <2>1, <2>2 DEF Next
<1>2. /\ inventory = m \/ (inventory = vars /\ doc = vars)
      /\ \A r \in Run : pc[r] \in {"vars", "doc"} => inventory = m
      /\ inventory = m /\ vars # m => \E r \in Run : pc[r] = "vars"
      /\ vars = m /\ m.mode # "self_hosted" /\ doc # m => \E r \in Run : pc[r] = "doc"
  BY <1>1 DEF DerivedInv
<1>3. \A r \in Run : pc[r] \in {"inventory", "vars", "doc"} => data[r] = m
  BY <1>1 DEF Only, CompleteInv
<1>4. ASSUME NEW r \in Run, WriteInventory(r) \/ WriteVars(r) \/ WriteDoc(r)
      PROVE  /\ inventory' = m \/ (inventory' = vars' /\ doc' = vars')
             /\ \A q \in Run : pc'[q] \in {"vars", "doc"} => inventory' = m
             /\ inventory' = m /\ vars' # m => \E q \in Run : pc'[q] = "vars"
             /\ vars' = m /\ m.mode # "self_hosted" /\ doc' # m
                  => \E q \in Run : pc'[q] = "doc"
  <2>1. CASE WriteInventory(r)
    BY <1>2, <1>3, <2>1 DEF WriteInventory, Goto, TypeOK
  <2>2. CASE WriteVars(r)
    BY <1>2, <1>3, <2>2 DEF WriteVars, Goto, VaultStep, TypeOK
  <2>3. CASE WriteDoc(r)
    BY <1>2, <1>3, <2>3 DEF WriteDoc, Goto, VaultStep, TypeOK
  <2> QED
    BY <1>4, <2>1, <2>2, <2>3
<1>5. ASSUME UNCHANGED derived,
             \A r \in Run : /\ pc[r] \in {"vars", "doc"} => pc'[r] = pc[r]
                            /\ pc'[r] \in {"vars", "doc"} => pc'[r] = pc[r]
      PROVE  /\ inventory' = m \/ (inventory' = vars' /\ doc' = vars')
             /\ \A r \in Run : pc'[r] \in {"vars", "doc"} => inventory' = m
             /\ inventory' = m /\ vars' # m => \E r \in Run : pc'[r] = "vars"
             /\ vars' = m /\ m.mode # "self_hosted" /\ doc' # m
                  => \E r \in Run : pc'[r] = "doc"
  BY <1>2, <1>5 DEF derived
<1>6. ASSUME NEW r \in Run, Step(r), ~(WriteInventory(r) \/ WriteVars(r) \/ WriteDoc(r))
      PROVE  /\ UNCHANGED derived
             /\ \A q \in Run : /\ pc[q] \in {"vars", "doc"} => pc'[q] = pc[q]
                               /\ pc'[q] \in {"vars", "doc"} => pc'[q] = pc[q]
  <2>1. CASE Kill(r)
    <3>1. pc' = [pc EXCEPT ![r] = "killed"] /\ UNCHANGED <<derived, op>>
      BY <2>1 DEF Kill, Goto, request
    <3>2. pc[r] \notin {"vars", "doc"}
      BY <3>1 DEF Only, CompleteInv, TypeOK
    <3> QED
      BY <3>1, <3>2 DEF TypeOK
  <2> QED
    BY <1>6, <2>1 DEF Step, Load, Answer, WriteResponse,
       LookForPassphrase, WritePassphrase, ProtectPassphrase, ReadVault, Refuse, WriteTemp,
       Encrypt, EncryptFails, RemoveTemp, Goto, VaultStep, TypeOK
<1>7. CASE UNCHANGED allVars
  BY <1>5, <1>7 DEF allVars
<1> QED
  BY <1>4, <1>5, <1>6, <1>7 DEF Next

-----------------------------------------------------------------------------
(***************************************************************************)
(* The theorems.                                                           *)
(***************************************************************************)

ConfigureInv == TypeOK /\ CarriesForward /\ RotateInv /\ Tidy

\* The four parts are inductive together.
LEMMA Invariant == Spec => []ConfigureInv
<1>1. Init => ConfigureInv
  BY InitType, InitTidy DEF Init, ConfigureInv, CarriesForward, RotateInv
<1>2. ConfigureInv /\ [Next]_allVars => ConfigureInv'
  BY TypeStep, CarryStep, RotateStep, TidyStep DEF ConfigureInv
<1> QED
  BY <1>1, <1>2, PTL DEF Spec

\* Type correctness of ./configure and its files.
THEOREM TypeCorrect == Spec => []TypeOK
<1>1. ConfigureInv => TypeOK
  BY DEF ConfigureInv
<1> QED
  BY <1>1, Invariant, PTL

\* The vault opens with the passphrase on disk unless two wizards both set one.
THEOREM Readable == Spec => []VaultReadable
<1>1. ConfigureInv => VaultReadable
  BY DEF ConfigureInv, Tidy
<1> QED
  BY <1>1, Invariant, PTL

\* No plaintext and no unprotected passphrase outlives a run that is not killed.
THEOREM NothingLeft == Spec => []NothingLeftBehind
<1>1. ConfigureInv => NothingLeftBehind
  BY DEF ConfigureInv, Tidy
<1> QED
  BY <1>1, Invariant, PTL

\* The vault is the only file with secrets, and only two steps write it: the one that
\* encrypts, and a kill in the middle of that.
LEMMA VaultWriters ==
  ASSUME [Next]_allVars, ~(UNCHANGED <<vault, clobbered>>)
  PROVE  \E r \in Run : Encrypt(r) \/ (Kill(r) /\ clobbered' /\ vault' = NoSecrets)
BY DEF Next, Step, Load, WriteInventory, WriteVars, WriteDoc, Answer, WriteResponse,
       LookForPassphrase, WritePassphrase, ProtectPassphrase, ReadVault, Refuse, WriteTemp,
       Encrypt, EncryptFails, RemoveTemp, Kill, secrets, history, allVars

\* The vault implements SecretStore, for any number of runs, responses and secrets: a
\* stored secret changes only by its rotation, by a run that overwrites a vault it has
\* not seen, or by one that is killed while it writes.
THEOREM Refinement == Spec => ImplementsSecretStore
<1>1. Init => Secrets!Init
  <2> SUFFICES ASSUME Init PROVE Secrets!Init
    OBVIOUS
  <2>1. TypeOK
    BY InitType
  <2>2. Rotating = {}
    BY DEF Init, Rotating
  <2> QED
    BY <2>1, <2>2 DEF Init, Secrets!Init, TypeOK, Vault
<1>2. ConfigureInv /\ ConfigureInv' /\ [Next]_allVars => [Secrets!Next]_(Secrets!storeVars)
  <2> SUFFICES ASSUME ConfigureInv, ConfigureInv', [Next]_allVars
               PROVE  Secrets!Next
    OBVIOUS
  <2>1. /\ vault \in [Key -> Nat] /\ vault' \in [Key -> Nat]
        /\ {rotated'[r] : r \in Rotating'} \subseteq Key
    BY DEF ConfigureInv, TypeOK, Vault, Rotating
  <2>2. CASE UNCHANGED <<vault, clobbered>>
    <3>1. Secrets!Add
      BY <2>1, <2>2 DEF Secrets!Add
    <3> QED
      BY <2>1, <3>1 DEF Secrets!Next
  <2>3. CASE clobbered'
    <3>1. Secrets!Lose
      BY <2>1, <2>3 DEF Secrets!Lose, ConfigureInv, TypeOK
    <3> QED
      BY <2>1, <3>1 DEF Secrets!Next
  <2>4. ASSUME NEW r \in Run, Encrypt(r), ~clobbered' PROVE Secrets!Next
    <3>1. /\ pc[r] = "encrypt" /\ vault' = updated[r] /\ held[r] = vault
          /\ UNCHANGED clobbered
      BY <2>4 DEF Encrypt, ConfigureInv, TypeOK
    <3>2. CASE op[r] = "rotate"
      <4>1. PICK v \in Nat \ {0} : vault' = [vault EXCEPT ![rotated[r]] = v]
        BY <3>1, <3>2 DEF ConfigureInv, RotateInv
      <4>2. rotated[r] \in Key /\ rotated[r] \in {rotated[q] : q \in Rotating}
        BY <3>1, <3>2 DEF ConfigureInv, TypeOK, Rotating
      <4>3. vault'[rotated[r]] = v
        BY <2>1, <4>1, <4>2
      <4>4. Secrets!Renew(rotated[r])
        BY <3>1, <4>1, <4>2, <4>3 DEF Secrets!Renew
      <4> QED
        BY <2>1, <4>2, <4>4 DEF Secrets!Next
    <3>3. CASE op[r] # "rotate"
      <4>1. \A k \in Key : vault[k] # 0 => vault'[k] = vault[k]
        BY <3>1, <3>3 DEF ConfigureInv, CarriesForward, Has
      <4>2. Secrets!Add
        BY <2>1, <3>1, <4>1 DEF Secrets!Add
      <4> QED
        BY <2>1, <4>2 DEF Secrets!Next
    <3> QED
      BY <3>2, <3>3
  <2> QED
    BY <2>2, <2>3, <2>4, VaultWriters
<1> QED
  BY <1>1, <1>2, Invariant, PTL DEF Spec, ImplementsSecretStore, Secrets!Spec

LEMMA CompleteAlways == Spec => []CompleteInv
<1>1. Init => CompleteInv
  BY DEF Init, CompleteInv
<1> QED
  BY <1>1, CompleteStep, TypeCorrect, PTL DEF Spec

\* A silent run that reports success has left every secret its response needs in the
\* vault, and no later run takes one away.
THEOREM SuccessComplete == Spec => []SuccessHasSecrets
<1>1. CompleteInv => SuccessHasSecrets
  BY DEF CompleteInv, Needed, SuccessHasSecrets
<1> QED
  BY <1>1, CompleteAlways, PTL

\* The derived files are of one response as soon as no silent run is between its
\* writes, however many overlap, unless they loaded different ones.
THEOREM Agree == Spec => []DerivedAgree
<1>1. Init => DerivedInv
  BY DEF Init, DerivedInv
<1>2. TypeOK /\ CompleteInv /\ DerivedInv => DerivedAgree
  <2> SUFFICES ASSUME TypeOK, CompleteInv, DerivedInv,
                      \A q, r \in {r \in Run : op[r] = "silent"} :
                        data[q] = data[r] /\ pc[r] \notin {"vars", "doc", "killed"}
               PROVE  inventory = vars /\ (vars.mode # "self_hosted" => doc = vars)
    BY DEF DerivedAgree
  <2>1. PICK m \in Response : Only(m) /\ (~(\E r \in Run : op[r] = "silent") => m = inventory)
    <3>1. CASE \E r \in Run : op[r] = "silent"
      BY <3>1 DEF Only, TypeOK
    <3>2. CASE ~(\E r \in Run : op[r] = "silent")
      BY <3>2 DEF Only, TypeOK
    <3> QED
      BY <3>1, <3>2
  <2>2. \A r \in Run : pc[r] \notin {"vars", "doc"}
    BY DEF CompleteInv
  <2> QED
    BY <2>1, <2>2 DEF DerivedInv
<1> QED
  BY <1>1, <1>2, DerivedStep, CompleteAlways, TypeCorrect, PTL DEF Spec

=============================================================================

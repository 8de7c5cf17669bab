----------------------------- MODULE Configure -----------------------------
(***************************************************************************)
(* ./configure and the files it keeps: the response file, what is derived  *)
(* from it, the vault passphrase and the vault.  Each run of the command   *)
(* is a process; runs may overlap (a wizard waits at its prompts) and may  *)
(* be killed between any two of their writes.  Nothing locks the files.    *)
(*                                                                         *)
(* Values are numbers: 0 is absent (or empty), every password generated    *)
(* or typed is a new one.                                                  *)
(*                                                                         *)
(*   response    .rsp.yml: the monitoring section, all that secrets and    *)
(*               the derived files need to be told apart                   *)
(*   inventory, vars, doc   what inventory/site.yml, response.yml and      *)
(*               external-monitoring.md were last generated from           *)
(*   passphrase  content of .pigsty/vault-pass, 0 if there is no file      *)
(*   private     whether its mode is 0600                                  *)
(*   vault       the secrets in vault.yml                                  *)
(*   sealed      the passphrase that encrypts it, 0 if there is no file    *)
(*   temps       runs whose plaintext temporary file is on disk            *)
(*   minted      how many new values there have been                       *)
(*   op, noVault, rotated   what each run was asked to do                  *)
(*   pc, data, held, updated   its next step, its response, the vault it   *)
(*               read and the one it will write                            *)
(*   bootstraps  history: runs that found no passphrase and asked for one  *)
(*   clobbered   history: a vault was overwritten that had changed since   *)
(*               the run read it, or lost to a kill                        *)
(***************************************************************************)
EXTENDS Naturals, FiniteSets

CONSTANTS
  Run,            \* invocations of ./configure
  MachineSecret,  \* MACHINE_SECRETS
  Response        \* response files that pass validation, see ResponseAssumption

\* `monitoring` as cmd_silent and _passwords.py read it; the schema admits one
\* method of authentication at most.
Auth == {{}, {"username"}, {"bearer"}}
AnyResponse == [mode : {"self_hosted", "external_push", "external_pull"}, auth : Auth]

HumanSecret == {"grafana_admin"}
ConditionalSecret == {"external_password", "external_bearer_token", "pull_token"}
\* required_human_secrets, beside the base one.
Required(m) ==
  {k \in ConditionalSecret :
     \/ k = "external_password" /\ m.mode = "external_push" /\ "username" \in m.auth
     \/ k = "external_bearer_token" /\ m.mode = "external_push" /\ "bearer" \in m.auth
     \/ k = "pull_token" /\ m.mode = "external_pull"}

\* The conditional secrets no response asks for are left out.
Key == MachineSecret \cup HumanSecret \cup UNION {Required(m) : m \in Response}

ASSUME SecretAssumption == MachineSecret \cap (HumanSecret \cup ConditionalSecret) = {}
ASSUME ResponseAssumption == Response \subseteq AnyResponse /\ Response # {}

VARIABLES response, inventory, vars, doc, passphrase, private, vault, sealed, temps,
          minted, op, noVault, rotated, pc, data, held, updated, bootstraps, clobbered

history == <<bootstraps, clobbered>>
derived == <<inventory, vars, doc>>
secrets == <<passphrase, private, vault, sealed, temps, minted>>
request == <<op, noVault, rotated>>
local == <<data, held, updated>>
allVars == <<response, derived, secrets, request, pc, local, history>>

NoSecrets == [k \in Key |-> 0]
Vault == [Key -> Nat]
Has(v, k) == v[k] # 0

Label == {"load", "answer", "inventory", "vars", "doc", "response", "passphrase", "type",
          "protect", "read", "temp", "encrypt", "unlink", "abort",
          "done", "failed", "killed"}
Over == {"done", "failed", "killed"}

TypeOK ==
  /\ response \in Response
  /\ {inventory, vars, doc} \subseteq Response
  /\ passphrase \in 0..minted
  /\ private \in BOOLEAN
  /\ vault \in Vault
  /\ sealed \in 0..minted
  /\ temps \in SUBSET Run
  /\ minted \in Nat
  /\ op \in [Run -> {"silent", "wizard", "rotate"}]
  /\ noVault \in [Run -> BOOLEAN]
  /\ rotated \in [Run -> Key]
  /\ pc \in [Run -> Label]
  /\ data \in [Run -> Response]
  /\ held \in [Run -> Vault]
  /\ updated \in [Run -> Vault]
  /\ bootstraps \in SUBSET Run
  /\ clobbered \in BOOLEAN

-----------------------------------------------------------------------------
(***************************************************************************)
(* bin/_passwords.py                                                       *)
(***************************************************************************)

\* Mutant: every secret asked for is new.
FillAnew(v, keys, value) == [k \in Key |-> IF k \in keys THEN value ELSE v[k]]

\* ensure_machine_secrets and ensure_human_secrets: fill in what is missing.
Fill(v, keys, value) == [k \in Key |-> IF k \in keys /\ ~Has(v, k) THEN value ELSE v[k]]

\* Mutant: the monitoring section does not get here.
MissingBase(v, m) == {k \in Required([m EXCEPT !.mode = "self_hosted"]) : ~Has(v, k)}

\* missing_human_secrets; silent mode does not ask for the base one.
Missing(v, m) == {k \in Required(m) : ~Has(v, k)}

-----------------------------------------------------------------------------
\* A workspace as earlier runs leave it: files derived from any response, no
\* vault or one with any of the secrets (a release may add some).
Init ==
  /\ response \in Response
  /\ inventory \in Response /\ vars = inventory /\ doc = inventory
  /\ minted = 1
  /\ passphrase \in {0, 1}
  /\ private = TRUE
  /\ sealed \in {0, passphrase}
  /\ vault \in IF sealed = 0 THEN {NoSecrets} ELSE [Key -> {0, 1}]
  /\ temps = {}
  /\ op \in [Run -> {"silent", "wizard", "rotate"}]
  /\ noVault \in [Run -> BOOLEAN]
  /\ rotated \in [Run -> Key]
  /\ \A r \in Run : \/ op[r] = "rotate" /\ ~noVault[r]
                    \/ op[r] # "rotate" /\ rotated[r] = CHOOSE k \in Key : TRUE
  /\ pc = [r \in Run |-> CASE op[r] = "silent" -> "load"
                           [] op[r] = "wizard" -> "answer"
                           [] op[r] = "rotate" -> "read"]
  /\ data = [r \in Run |-> response]
  /\ held = [r \in Run |-> NoSecrets]
  /\ updated = [r \in Run |-> NoSecrets]
  /\ bootstraps = {}
  /\ clobbered = FALSE

Goto(r, l) == pc' = [pc EXCEPT ![r] = l]

-----------------------------------------------------------------------------
(***************************************************************************)
(* The response file and the files derived from it.                        *)
(***************************************************************************)

\* Mutant: a mode that does not exist gets past the validation.
LoadAnything(r) ==
  /\ pc[r] = "load"
  /\ Goto(r, "inventory")
  /\ data' = [data EXCEPT ![r].mode = "external"]
  /\ UNCHANGED <<response, derived, secrets, request, held, updated, history>>

\* cmd_silent: load the response file; one that does not validate ends the run.
Load(r) ==
  /\ pc[r] = "load"
  /\ \/ Goto(r, "inventory") /\ data' = [data EXCEPT ![r] = response]
     \/ Goto(r, "failed") /\ UNCHANGED data
  /\ UNCHANGED <<response, derived, secrets, request, held, updated, history>>

WriteInventory(r) ==
  /\ pc[r] = "inventory"
  /\ inventory' = data[r]
  /\ Goto(r, "vars")
  /\ UNCHANGED <<response, vars, doc, secrets, request, local, history>>

\* What a process has read dies with it.
Forget(r) == /\ held' = [held EXCEPT ![r] = NoSecrets]
             /\ updated' = [updated EXCEPT ![r] = NoSecrets]

\* The step after the derived files: the vault, unless --no-vault.
VaultStep(r, l) == Goto(r, IF noVault[r] THEN "done" ELSE l)

\* Mutant: external-monitoring.md is never written again.
WriteVarsOnly(r) ==
  /\ pc[r] = "vars"
  /\ vars' = data[r]
  /\ VaultStep(r, "read")
  /\ UNCHANGED <<response, inventory, doc, secrets, request, local, history>>

WriteVars(r) ==
  /\ pc[r] = "vars"
  /\ vars' = data[r]
  /\ IF data[r].mode = "self_hosted" THEN VaultStep(r, "read") ELSE Goto(r, "doc")
  /\ UNCHANGED <<response, inventory, doc, secrets, request, local, history>>

WriteDoc(r) ==
  /\ pc[r] = "doc"
  /\ doc' = data[r]
  /\ VaultStep(r, "read")
  /\ UNCHANGED <<response, inventory, vars, secrets, request, local, history>>

\* cmd_interactive: the answers, which may not validate, and the file they go to.
Answer(r) ==
  /\ pc[r] = "answer"
  /\ \/ Goto(r, "response") /\ \E m \in Response : data' = [data EXCEPT ![r] = m]
     \/ Goto(r, "failed") /\ UNCHANGED data
  /\ UNCHANGED <<response, derived, secrets, request, held, updated, history>>

WriteResponse(r) ==
  /\ pc[r] = "response"
  /\ response' = data[r]
  /\ VaultStep(r, "passphrase")
  /\ UNCHANGED <<derived, secrets, request, local, history>>

-----------------------------------------------------------------------------
(***************************************************************************)
(* The passphrase.                                                         *)
(***************************************************************************)

\* Mutant: the wizard asks for a passphrase also when there is one.
AlwaysAsk(r) ==
  /\ pc[r] = "passphrase"
  /\ Goto(r, "type")
  /\ bootstraps' = IF passphrase = 0 THEN bootstraps \cup {r} ELSE bootstraps
  /\ UNCHANGED <<response, derived, secrets, request, local, clobbered>>

\* _ensure_vault_interactive asks for a passphrase when there is none ...
LookForPassphrase(r) ==
  /\ pc[r] = "passphrase"
  /\ IF passphrase = 0
       THEN Goto(r, "type") /\ bootstraps' = bootstraps \cup {r}
       ELSE Goto(r, "read") /\ UNCHANGED bootstraps
  /\ UNCHANGED <<response, derived, secrets, request, local, clobbered>>

\* ... writes what was typed, over whatever is there by then ...
WritePassphrase(r) ==
  /\ pc[r] = "type"
  /\ minted' = minted + 1
  /\ passphrase' = minted'
  /\ private' = (private /\ passphrase # 0)
  /\ Goto(r, "protect")
  /\ UNCHANGED <<response, derived, vault, sealed, temps, request, local, history>>

\* ... and only then restricts the file's mode.
ProtectPassphrase(r) ==
  /\ pc[r] = "protect"
  /\ private' = TRUE
  /\ Goto(r, "read")
  /\ UNCHANGED <<response, derived, passphrase, vault, sealed, temps, minted, request, local,
                 history>>

-----------------------------------------------------------------------------
(***************************************************************************)
(* The vault: read, decide what to write, write it through a temporary file.*)
(***************************************************************************)

\* vault_read fails when the passphrase is not the one the vault is sealed with.
CanRead == sealed \in {0, passphrase}

\* What a run makes of the vault it has read.  The silent run refuses when a
\* conditional secret is missing; the wizard prompts, and takes an empty answer.
Wanted(r) ==
  LET filled == Fill(vault, MachineSecret, minted + 1)
      asked(answered) == Fill(filled, answered, minted + 1)
  IN CASE op[r] = "silent" -> IF Missing(filled, data[r]) = {} THEN {filled} ELSE {}
       [] op[r] = "wizard" -> {asked(a) : a \in SUBSET (HumanSecret \cup Required(data[r]))}
       [] op[r] = "rotate" -> IF sealed = 0 THEN {}
                              ELSE {[vault EXCEPT ![rotated[r]] = minted + 1]}

\* A wizard that asks for a secret the vault has no entry for writes even an
\* empty answer.
MayRewrite(r) ==
  op[r] = "wizard" /\ \E k \in HumanSecret \cup Required(data[r]) : ~Has(vault, k)

\* _ensure_vault_silent, _ensure_vault_interactive and cmd_rotate: a vault that
\* needs no change is not written.
ReadVault(r) ==
  /\ pc[r] = "read"
  /\ passphrase # 0 /\ CanRead
  /\ \E v \in Wanted(r) :
       \/ /\ v # vault \/ sealed = 0 \/ MayRewrite(r)
          /\ updated' = [updated EXCEPT ![r] = v]
          /\ held' = [held EXCEPT ![r] = vault]
          /\ minted' = minted + 1
          /\ Goto(r, "temp")
       \/ /\ v = vault /\ sealed # 0
          /\ Goto(r, "done")
          /\ UNCHANGED <<updated, held, minted>>
  /\ UNCHANGED <<response, derived, passphrase, private, vault, sealed, temps, request, data,
                 history>>

Refuse(r) ==
  /\ pc[r] = "read"
  /\ passphrase = 0 \/ ~CanRead \/ Wanted(r) = {}
  /\ Goto(r, "failed")
  /\ UNCHANGED <<response, derived, secrets, request, local, history>>

\* vault_write: the plaintext goes to a temporary file beside the vault ...
WriteTemp(r) ==
  /\ pc[r] = "temp"
  /\ temps' = temps \cup {r}
  /\ Goto(r, "encrypt")
  /\ UNCHANGED <<response, derived, passphrase, private, vault, sealed, minted, request, local,
                 history>>

\* ... ansible-vault encrypts it over the vault ...
Encrypt(r) ==
  /\ pc[r] = "encrypt"
  /\ passphrase # 0
  /\ vault' = updated[r]
  /\ sealed' = passphrase
  /\ clobbered' = (clobbered \/ held[r] # vault)
  /\ Goto(r, "unlink")
  /\ UNCHANGED <<response, derived, passphrase, private, temps, minted, request, local,
                 bootstraps>>

\* ... or fails ...
EncryptFails(r) ==
  /\ pc[r] = "encrypt"
  /\ Goto(r, "abort")
  /\ UNCHANGED <<response, derived, secrets, request, local, history>>

\* Mutant: the temporary file is removed only when the encryption succeeds.
RemoveTempOnSuccess(r) ==
  /\ pc[r] \in {"unlink", "abort"}
  /\ temps' = IF pc[r] = "unlink" THEN temps \ {r} ELSE temps
  /\ Goto(r, IF pc[r] = "unlink" THEN "done" ELSE "failed")
  /\ Forget(r)
  /\ UNCHANGED <<response, derived, passphrase, private, vault, sealed, minted, request, data,
                 history>>

\* ... and the temporary file is removed either way.
RemoveTemp(r) ==
  /\ pc[r] \in {"unlink", "abort"}
  /\ temps' = temps \ {r}
  /\ Goto(r, IF pc[r] = "unlink" THEN "done" ELSE "failed")
  /\ Forget(r)
  /\ UNCHANGED <<response, derived, passphrase, private, vault, sealed, minted, request, data,
                 history>>

-----------------------------------------------------------------------------
\* The process is killed.  ansible-vault removes the old vault before it creates
\* the new one, so that it may be gone.
Kill(r) ==
  /\ pc[r] \notin Over
  /\ Goto(r, "killed")
  /\ Forget(r)
  /\ \/ UNCHANGED <<vault, sealed, clobbered>>
     \/ pc[r] = "encrypt" /\ vault' = NoSecrets /\ sealed' = 0 /\ clobbered' = TRUE
  /\ UNCHANGED <<response, derived, passphrase, private, temps, minted, request, data,
                 bootstraps>>

Step(r) ==
  \/ Load(r) \/ WriteInventory(r) \/ WriteVars(r) \/ WriteDoc(r)
  \/ Answer(r) \/ WriteResponse(r)
  \/ LookForPassphrase(r) \/ WritePassphrase(r) \/ ProtectPassphrase(r)
  \/ ReadVault(r) \/ Refuse(r)
  \/ WriteTemp(r) \/ Encrypt(r) \/ EncryptFails(r) \/ RemoveTemp(r)
  \/ Kill(r)

Next == \E r \in Run : Step(r)

Spec == Init /\ [][Next]_allVars

-----------------------------------------------------------------------------
(***************************************************************************)
(* Properties.                                                             *)
(***************************************************************************)

\* The vault the runs leave is a SecretStore: a stored secret changes only when it is
\* rotated, and alone; filling in new ones, empty answers, refusals and failed writes
\* leave it alone, whatever overlaps, unless a run overwrites a vault that has changed
\* since it read it, or dies writing.
Rotating == {r \in Run : op[r] = "rotate" /\ pc[r] = "encrypt"}
Secrets == INSTANCE SecretStore WITH stored <- vault,
                                     asked  <- {rotated[r] : r \in Rotating},
                                     lost   <- clobbered
ImplementsSecretStore == Secrets!Spec

\* A silent run that reports success has left every secret its response needs in
\* the vault, and no later run takes one away.
SuccessHasSecrets ==
  \A r \in Run :
    op[r] = "silent" /\ pc[r] = "done" /\ ~noVault[r] /\ ~clobbered
      => \A k \in MachineSecret \cup Required(data[r]) : Has(vault, k)

\* The vault opens with the passphrase on disk, kills and overlaps included,
\* unless two wizards found none at the same time.
VaultReadable ==
  sealed # 0 /\ sealed # passphrase => \E q, r \in bootstraps : q # r

\* bin/_vault.py says "We never hold plaintext on disk", but every write of the vault
\* goes through a temporary file in plaintext.  What holds is that the plaintext, and a
\* passphrase that others may read, are there only while a run is busy with them or
\* after it was killed: success and failure alike remove them.
NothingLeftBehind ==
  /\ \A r \in temps : pc[r] \in {"encrypt", "unlink", "abort", "killed"}
  /\ passphrase # 0 /\ ~private => \E r \in Run : pc[r] \in {"protect", "killed"}

\* The derived files are of one response again as soon as no silent run is
\* between its writes, whether the runs succeed or stop at the vault: two that
\* overlap do no harm unless the response file changed in between.
DerivedAgree ==
  LET silent == {r \in Run : op[r] = "silent"}
  IN (\A q, r \in silent : data[q] = data[r] /\ pc[r] \notin {"vars", "doc", "killed"})
       => /\ inventory = vars
          /\ vars.mode # "self_hosted" => doc = vars

=============================================================================

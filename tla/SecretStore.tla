----------------------------- MODULE SecretStore -----------------------------
(***************************************************************************)
(* What the vault promises to whoever deploys from it.  A secret that is   *)
(* there stays as it is (_passwords.py fills in what is missing and will   *)
(* "pass through existing ones") until somebody asks for its rotation; a   *)
(* rotation renews that secret, and no other.  Once a vault has been       *)
(* overwritten unseen, or has gone with a killed process, nothing was      *)
(* promised of it.                                                         *)
(*                                                                         *)
(*   stored  the secrets, 0 for one that is not there                      *)
(*   asked   the secrets whose rotation somebody is about to write         *)
(*   lost    whether the vault was lost or overwritten unseen              *)
(***************************************************************************)
EXTENDS Naturals

CONSTANT Key

VARIABLES stored, asked, lost

storeVars == <<stored, asked, lost>>

Init == /\ stored \in [Key -> Nat]
        /\ asked = {}
        /\ lost = FALSE

Add == /\ stored' \in [Key -> Nat]
       /\ \A k \in Key : stored[k] # 0 => stored'[k] = stored[k]
       /\ UNCHANGED lost

Renew(k) == /\ k \in asked
            /\ stored'[k] \in Nat \ {0}
            /\ stored' = [stored EXCEPT ![k] = stored'[k]]
            /\ UNCHANGED lost

Lose == /\ stored' \in [Key -> Nat]
        /\ lost' = TRUE

\* Rotations are asked for, written and given up at any time.
Next == /\ Add \/ Lose \/ \E k \in Key : Renew(k)
        /\ asked' \subseteq Key

Spec == Init /\ [][Next]_storeVars

=============================================================================

-------------------------- MODULE CommissionAccount --------------------------
(***************************************************************************)
(* What an affiliate may rely on for the money of one commission: it is    *)
(* recorded with what it is worth, that is posted to the ledger once, and  *)
(* refunds take it back piece by piece, never more than it was worth.      *)
(***************************************************************************)
EXTENDS Naturals

CONSTANT Entries        \* identities of commissions

VARIABLES
    phase,              \* "none", "owed" once recorded, "posted" once credited
    worth               \* what is credited, or still owed, less what was clawed back

accountVars == <<phase, worth>>

AccountInit ==
    /\ phase = [k \in Entries |-> "none"]
    /\ worth = [k \in Entries |-> 0]

Earn(k) ==
    /\ phase[k] = "none"
    /\ phase' = [phase EXCEPT ![k] = "owed"]
    /\ worth'[k] > 0
    /\ worth' = [worth EXCEPT ![k] = worth'[k]]

Post(k) ==
    /\ phase[k] = "owed"
    /\ phase' = [phase EXCEPT ![k] = "posted"]
    /\ UNCHANGED worth

\* Refunds do not wait for the posting.
ClawBack(k) ==
    /\ phase[k] # "none"
    /\ worth'[k] \in 0..(worth[k] - 1)
    /\ worth' = [worth EXCEPT ![k] = worth'[k]]
    /\ UNCHANGED phase

AccountNext == \E k \in Entries : Earn(k) \/ Post(k) \/ ClawBack(k)

AccountSafety == AccountInit /\ [][AccountNext]_accountVars

AccountSpec ==
    /\ AccountSafety
    /\ \A k \in Entries : WF_accountVars(Post(k))
=============================================================================

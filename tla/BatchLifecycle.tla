--------------------------- MODULE BatchLifecycle ---------------------------
(***************************************************************************)
(* What a client of the payouts API may rely on about one payout batch:    *)
(* the statuses it can read and how one follows another, with no mention   *)
(* of ledger accounts, payout items or fraud reviews.  `busy' says that a  *)
(* processBatch call is between its first and its last write of the batch. *)
(*                                                                         *)
(* PayoutsService.cancelBatch has one guard only, "not COMPLETED", so a    *)
(* cancellation that falls inside a processBatch call is not final: the    *)
(* call still ends with the status it had in mind.  Outside such a call    *)
(* CANCELLED is final, and COMPLETED always is.                            *)
(***************************************************************************)
CONSTANT Batches

VARIABLES state, busy

lifecycleVars == <<state, busy>>

LifecycleStatus ==
    {"NONE", "DRAFT", "PROCESSING", "HELD", "COMPLETED", "CANCELLED"}

LifecycleInit ==
    /\ state = [b \in Batches |-> "NONE"]
    /\ busy = [b \in Batches |-> FALSE]

Become(b, s) == state' = [state EXCEPT ![b] = s]

Draft(b) ==
    /\ state[b] = "NONE"
    /\ Become(b, "DRAFT")
    /\ UNCHANGED busy

Begin(b) ==
    /\ state[b] = "DRAFT"
    /\ ~busy[b]
    /\ Become(b, "PROCESSING")
    /\ busy' = [busy EXCEPT ![b] = TRUE]

Finish(b) ==
    /\ busy[b]
    /\ \E s \in {"DRAFT", "HELD", "COMPLETED"} : Become(b, s)
    /\ busy' = [busy EXCEPT ![b] = FALSE]

Release(b) ==
    /\ state[b] = "HELD"
    /\ ~busy[b]
    /\ Become(b, "DRAFT")
    /\ UNCHANGED busy

Reject(b) ==
    /\ state[b] \in {"DRAFT", "HELD"}
    /\ ~busy[b]
    /\ Become(b, "CANCELLED")
    /\ UNCHANGED busy

Cancel(b) ==
    /\ state[b] \notin {"NONE", "COMPLETED"}
    /\ Become(b, "CANCELLED")
    /\ UNCHANGED busy

LifecycleNext ==
    \E b \in Batches :
        Draft(b) \/ Begin(b) \/ Finish(b) \/ Release(b) \/ Reject(b) \/ Cancel(b)

LifecycleSafety == LifecycleInit /\ [][LifecycleNext]_lifecycleVars

LifecycleSpec ==
    /\ LifecycleSafety
    /\ \A b \in Batches : WF_lifecycleVars(Finish(b))
=============================================================================

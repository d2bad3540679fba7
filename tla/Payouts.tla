------------------------------ MODULE Payouts ------------------------------
(***************************************************************************)
(* The money side of payouts in one organization: the EARNED ledger        *)
(* account of each affiliate, the payout batches and their items, the      *)
(* fraud reviews that gate a batch, and the operators who act on them      *)
(* (PayoutsService, FraudService, AdminPayoutsService, LedgerService).     *)
(*                                                                         *)
(* All state is the in-memory dbStore of one Node process.  A handler runs *)
(* to its next await on real I/O (a database write, Redis, a notification) *)
(* without interruption, so each action below is one such stretch; the     *)
(* awaits between two in-memory calls resume in the same turn and do not   *)
(* split an action.  processBatch is the one handler that changes state on *)
(* both sides of an I/O wait, so it is three actions and `run[b]' is where *)
(* its call for batch b stands.                                            *)
(*                                                                         *)
(* createBatch makes one item per eligible account, and getAccount keeps   *)
(* one EARNED account per affiliate, so an item is the pair <<b, a>>.      *)
(***************************************************************************)
EXTENDS Integers, Sequences, FiniteSets, Functions

CONSTANTS
    Affiliates,     \* affiliates of the organization
    Batches,        \* identities of payout batches, each drafted at most once
    MaxNet,         \* bound on the net commissions posted to one account
    MaxReviews,     \* bound on the fraud reviews opened for one batch
    MaxReturns      \* bound on how often one item is handed back

ASSUME PayoutsAssumption ==
    /\ IsFiniteSet(Batches)
    /\ MaxNet \in Nat
    /\ MaxReviews \in Nat
    /\ MaxReturns \in Nat

VARIABLES
    active,         \* affiliates whose status is ACTIVE
    balance,        \* ledgerAccounts[a].balance of the EARNED account
    net,            \* history: commissions credited less commissions reversed
    batch,          \* payoutBatches[b].status
    run,            \* where the processBatch call for b stands
    item,           \* payoutItems[i].status
    amount,         \* payoutItems[i].amount
    review,         \* statuses of the PAYOUT fraud reviews of b, oldest first
    disbursed,      \* PAYOUT_COMPLETED ledger entries that name item i
    returned,       \* history: times item i's amount went back to its account
    raced,          \* history: b was cancelled while PROCESSING or CANCELLED
    touched,        \* history: an operator acted on item i by itself
    early           \* history: a review of b was resolved before b was HELD

ledgerVars  == <<balance, net>>
batchVars   == <<batch, run>>
itemVars    == <<item, amount, disbursed, returned>>
historyVars == <<raced, touched, early>>
vars == <<active, ledgerVars, batchVars, itemVars, review, historyVars>>

Items == Batches \X Affiliates
ItemsOf(b) == {b} \X Affiliates

BatchStatus ==
    {"NONE", "DRAFT", "PROCESSING", "HELD", "COMPLETED", "CANCELLED"}
ItemStatus ==
    {"NONE", "DRAFT", "SCHEDULED", "PROCESSING", "HELD", "FAILED",
     "COMPLETED", "CANCELLED"}
ReviewStatus == {"PENDING", "IN_REVIEW", "ESCALATED", "APPROVED", "REJECTED"}
OpenReview   == {"PENDING", "IN_REVIEW", "ESCALATED"}

Init ==
    /\ active = Affiliates
    /\ balance = [a \in Affiliates |-> 0]
    /\ net = [a \in Affiliates |-> 0]
    /\ batch = [b \in Batches |-> "NONE"]
    /\ run = [b \in Batches |-> "idle"]
    /\ item = [i \in Items |-> "NONE"]
    /\ amount = [i \in Items |-> 0]
    /\ review = [b \in Batches |-> << >>]
    /\ disbursed = [i \in Items |-> 0]
    /\ returned = [i \in Items |-> 0]
    /\ raced = {}
    /\ touched = {}
    /\ early = {}

-----------------------------------------------------------------------------
(* The rest of the system: commissions posted to an account, affiliates    *)
(* activated and deactivated.                                              *)

\* LedgerService.recordTransaction without skipBalanceMutation: COMMISSION_*
\* entries credit the account, every other type debits it, below zero too.
PostCommission(a) ==
    /\ \E d \in {1, -1} :
          /\ net[a] + d \in (-MaxNet)..MaxNet
          /\ net' = [net EXCEPT ![a] = @ + d]
          /\ balance' = [balance EXCEPT ![a] = @ + d]
    /\ UNCHANGED <<active, batchVars, itemVars, review, historyVars>>

\* AffiliatesService.bulkUpdateAffiliates: ACTIVATE, or PAUSE / SUSPEND.
SetAffiliateStatus(a) ==
    /\ active' = (active \ {a}) \cup ({a} \ active)
    /\ UNCHANGED <<ledgerVars, batchVars, itemVars, review, historyVars>>

-----------------------------------------------------------------------------
(* PayoutsService.  An operator whose name has an underscore is the operator *)
(* before the underscore with a slip in it; no action uses it, it shows that *)
(* the properties below notice the slip.                                     *)

\* The guards on batch statuses, one per operation.
ProcessableBatch_Held == {"DRAFT", "HELD"}
ProcessableBatch == {"DRAFT"}

CancellableBatch == BatchStatus \ {"NONE", "COMPLETED"}

\* The accounts createBatch drafts from; `requested' is dto.affiliateIds.
EligibleAccounts(requested) ==
    {a \in requested \cap active : balance[a] > 0}

\* Move the balance of each of the accounts into a new item of batch b.
Draft(b, accounts) ==
    LET drafted == {b} \X accounts
    IN  /\ amount' = [i \in Items |->
                         IF i \in drafted THEN balance[i[2]] ELSE amount[i]]
        /\ item' = [i \in Items |-> IF i \in drafted THEN "DRAFT" ELSE item[i]]
Reserve_KeepsBalance(b, accounts) ==
    Draft(b, accounts) /\ balance' = balance
Reserve(b, accounts) ==
    /\ Draft(b, accounts)
    /\ balance' = [a \in Affiliates |-> IF a \in accounts THEN 0 ELSE balance[a]]

CreateBatch(b) ==
    /\ batch[b] = "NONE"
    /\ \E requested \in SUBSET Affiliates :
          /\ EligibleAccounts(requested) # {}
          /\ Reserve(b, EligibleAccounts(requested))
    /\ batch' = [batch EXCEPT ![b] = "DRAFT"]
    /\ UNCHANGED <<active, net, run, disbursed, returned, review, historyVars>>

\* processBatch up to its first I/O wait.
ProcessBatch(b) ==
    /\ batch[b] \in ProcessableBatch
    /\ batch' = [batch EXCEPT ![b] = "PROCESSING"]
    /\ run' = [run EXCEPT ![b] = "assessing"]
    /\ UNCHANGED <<active, ledgerVars, itemVars, review, historyVars>>

\* evaluatePayout threw: the batch goes back to DRAFT.
FraudCheckFails(b) ==
    /\ run[b] = "assessing"
    /\ batch' = [batch EXCEPT ![b] = "DRAFT"]
    /\ run' = [run EXCEPT ![b] = "idle"]
    /\ UNCHANGED <<active, ledgerVars, itemVars, review, historyVars>>

\* FraudEngineService.assess decided HOLD or REVIEW: it opens a review, then
\* waits for the notifications it sends.
FraudCheckFlags(b) ==
    /\ run[b] = "assessing"
    /\ Len(review[b]) < MaxReviews
    /\ \E s \in {"IN_REVIEW", "PENDING"} :
          review' = [review EXCEPT ![b] = Append(@, s)]
    /\ run' = [run EXCEPT ![b] = "flagged"]
    /\ UNCHANGED <<active, ledgerVars, batch, itemVars, historyVars>>

\* The notifications are out: processBatch puts the batch on hold and throws.
HoldBatch(b) ==
    /\ run[b] = "flagged"
    /\ batch' = [batch EXCEPT ![b] = "HELD"]
    /\ run' = [run EXCEPT ![b] = "idle"]
    /\ UNCHANGED <<active, ledgerVars, itemVars, review, historyVars>>

\* The assessment allowed the payout: the batch and every one of its items are
\* COMPLETED and posted to the ledger, whatever their status is by now.
DisburseBatch(b) ==
    LET paid == {i \in ItemsOf(b) : item[i] # "NONE"}
    IN  /\ run[b] = "assessing"
        /\ batch' = [batch EXCEPT ![b] = "COMPLETED"]
        /\ run' = [run EXCEPT ![b] = "idle"]
        /\ item' = [i \in Items |-> IF i \in paid THEN "COMPLETED" ELSE item[i]]
        /\ disbursed' = [i \in Items |->
                            IF i \in paid THEN disbursed[i] + 1 ELSE disbursed[i]]
        /\ UNCHANGED <<active, ledgerVars, amount, returned, review, historyVars>>

\* Hand the amounts of the given items of batch b back to their accounts.
Restore(b, handedBack) ==
    /\ item' = [i \in Items |-> IF i \in handedBack THEN "CANCELLED" ELSE item[i]]
    /\ balance' = [a \in Affiliates |->
                      IF <<b, a>> \in handedBack
                      THEN balance[a] + amount[<<b, a>>] ELSE balance[a]]
    /\ returned' = [i \in Items |->
                       IF i \in handedBack THEN returned[i] + 1 ELSE returned[i]]

CancelBatch(b) ==
    LET open == {i \in ItemsOf(b) : item[i] \notin {"NONE", "COMPLETED"}}
    IN  /\ batch[b] \in CancellableBatch
        /\ \A i \in open : returned[i] < MaxReturns
        /\ batch' = [batch EXCEPT ![b] = "CANCELLED"]
        /\ Restore(b, open)
        /\ raced' = IF batch[b] \in {"PROCESSING", "CANCELLED"}
                    THEN raced \cup {b} ELSE raced
        /\ UNCHANGED <<active, net, run, amount, disbursed, review, touched, early>>

\* retryFailedItem completes the item at once and posts it to the ledger.
RetryFailedItem(i) ==
    /\ item[i] \in {"FAILED", "HELD"}
    /\ item' = [item EXCEPT ![i] = "COMPLETED"]
    /\ disbursed' = [disbursed EXCEPT ![i] = @ + 1]
    /\ touched' = touched \cup {i}
    /\ UNCHANGED <<active, ledgerVars, batchVars, amount, returned, review,
                   raced, early>>

-----------------------------------------------------------------------------
(* FraudService: the reviews of payout batches *)

NoteEarly(b) ==
    early' = IF run[b] = "idle" THEN early ELSE early \cup {b}

\* What a review's APPROVED does to the status of its batch, and the statuses in
\* which REJECTED cancels it.
Released_Never(s) == s
Released(s) == IF s = "HELD" THEN "DRAFT" ELSE s

RejectableBatch_Processing == {"HELD", "DRAFT", "PROCESSING"}
RejectableBatch == {"HELD", "DRAFT"}

ResolveApproved(b, k) ==
    /\ review[b][k] \in OpenReview
    /\ review' = [review EXCEPT ![b][k] = "APPROVED"]
    /\ batch' = [batch EXCEPT ![b] = Released(@)]
    /\ NoteEarly(b)
    /\ UNCHANGED <<active, ledgerVars, run, itemVars, raced, touched>>

ResolveRejected(b, k) ==
    LET open == {i \in ItemsOf(b) : item[i] \notin {"NONE", "CANCELLED"}}
    IN  /\ review[b][k] \in OpenReview
        /\ \A i \in open : returned[i] < MaxReturns
        /\ review' = [review EXCEPT ![b][k] = "REJECTED"]
        /\ IF batch[b] \in RejectableBatch
           THEN /\ batch' = [batch EXCEPT ![b] = "CANCELLED"]
                /\ Restore(b, open)
           ELSE UNCHANGED <<batch, item, balance, returned>>
        /\ NoteEarly(b)
        /\ UNCHANGED <<active, net, run, amount, disbursed, raced, touched>>

ResolveEscalated(b, k) ==
    /\ review[b][k] \in OpenReview
    /\ review' = [review EXCEPT ![b][k] = "ESCALATED"]
    /\ UNCHANGED <<active, ledgerVars, batchVars, itemVars, historyVars>>

\* assignReview looks at no status: it also reopens a resolved review.
AssignReview(b, k) ==
    /\ review' = [review EXCEPT ![b][k] = "IN_REVIEW"]
    /\ UNCHANGED <<active, ledgerVars, batchVars, itemVars, historyVars>>

-----------------------------------------------------------------------------
(* AdminPayoutsService: a super admin acts on one item, never on its batch *)

\* approvePayout, holdPayout, retryPayout and cancelPayout set one status.
AdminSet(i, from, to) ==
    /\ item[i] \in from
    /\ item' = [item EXCEPT ![i] = to]
    /\ touched' = touched \cup {i}
    /\ UNCHANGED <<active, ledgerVars, batchVars, amount, disbursed, returned,
                   review, raced, early>>

NotCompleted == ItemStatus \ {"NONE", "COMPLETED"}

ApprovePayout(i) == AdminSet(i, NotCompleted, "SCHEDULED")
HoldPayout(i)    == AdminSet(i, NotCompleted, "HELD")
RetryPayout(i)   == AdminSet(i, {"FAILED", "HELD"}, "PROCESSING")
CancelPayout(i)  == AdminSet(i, NotCompleted, "CANCELLED")

-----------------------------------------------------------------------------
Merchant ==
    \/ \E b \in Batches : CreateBatch(b) \/ ProcessBatch(b) \/ CancelBatch(b)
    \/ \E i \in Items : RetryFailedItem(i)

Continue(b) ==
    FraudCheckFails(b) \/ FraudCheckFlags(b) \/ DisburseBatch(b) \/ HoldBatch(b)

Analyst ==
    \E b \in Batches : \E k \in DOMAIN review[b] :
        \/ ResolveApproved(b, k)
        \/ ResolveRejected(b, k)
        \/ ResolveEscalated(b, k)
        \/ AssignReview(b, k)

SuperAdmin ==
    \E i \in Items :
        ApprovePayout(i) \/ HoldPayout(i) \/ RetryPayout(i) \/ CancelPayout(i)

Environment ==
    \E a \in Affiliates : PostCommission(a) \/ SetAffiliateStatus(a)

Next ==
    \/ Merchant
    \/ \E b \in Batches : Continue(b)
    \/ Analyst
    \/ SuperAdmin
    \/ Environment

Safety == Init /\ [][Next]_vars

\* A started processBatch call is resumed by the event loop: its awaits settle,
\* a failed database write included (the store logs it and resolves).
Spec == Safety /\ \A b \in Batches : WF_vars(Continue(b))

-----------------------------------------------------------------------------
(* Properties *)

TypeOK ==
    /\ active \in SUBSET Affiliates
    /\ balance \in [Affiliates -> Int]
    /\ net \in [Affiliates -> Int]
    /\ batch \in [Batches -> BatchStatus]
    /\ run \in [Batches -> {"idle", "assessing", "flagged"}]
    /\ item \in [Items -> ItemStatus]
    /\ amount \in [Items -> Nat]
    /\ review \in [Batches -> Seq(ReviewStatus)]
    /\ disbursed \in [Items -> Nat]
    /\ returned \in [Items -> Nat]
    /\ raced \in SUBSET Batches
    /\ touched \in SUBSET Items
    /\ early \in SUBSET Batches

\* Nobody cancelled b in mid-flight or twice, and nobody handled i by itself.
Undisturbed(i) == i[1] \notin raced /\ i \notin touched

\* At most one processBatch call works on a batch: a batch is PROCESSING only
\* during a call, and during a call it can only be PROCESSING or, by
\* cancelBatch, CANCELLED, so the DRAFT guard keeps a second call out.
OneProcessingCall ==
    \A b \in Batches :
        /\ batch[b] = "PROCESSING" => run[b] # "idle"
        /\ run[b] # "idle" => batch[b] \in {"PROCESSING", "CANCELLED"}

\* The amount createBatch reserves for an item is settled exactly once, and the
\* item says how: paid with its batch, handed back with its batch, or still
\* reserved.  Holds for every item whose batch was not cancelled during a
\* processBatch call or a second time and that no operator handled by itself.
ReservationSettled ==
    \A i \in Items :
        (Undisturbed(i) /\ item[i] # "NONE") =>
            <<item[i], disbursed[i], returned[i]>> =
                CASE batch[i[1]] = "COMPLETED" -> <<"COMPLETED", 1, 0>>
                  [] batch[i[1]] = "CANCELLED" -> <<"CANCELLED", 0, 1>>
                  [] OTHER -> <<"DRAFT", 0, 0>>

\* What the batches drew from the account of a, and the batches that have not given it back.
Drawn(a) == [b \in Batches |-> amount[<<b, a>>]]
Live(a) == {b \in Batches : item[<<b, a>>] \notin {"NONE", "CANCELLED"}}

\* No money is created or lost between an affiliate's account and the payout
\* items drawn from it: balance, open reservations and paid items add up to the
\* commissions posted, while commissions go on being posted and reversed.
MoneyConserved ==
    \A a \in Affiliates :
        (\A b \in Batches : Undisturbed(<<b, a>>)) =>
            balance[a] + SumFunctionOnSet(Drawn(a), Live(a)) = net[a]

\* A batch on hold can be released: it has an unresolved fraud review, unless a
\* review was resolved before the hold took effect.
HeldCanBeReleased ==
    \A b \in Batches :
        (batch[b] = "HELD" /\ b \notin early) =>
            \E k \in DOMAIN review[b] : review[b][k] \in OpenReview

\* COMPLETED is final.  CANCELLED is final outside a processBatch call, so a
\* fraud review that REJECTS a batch cancels it permanently.
FinalStatus ==
    [][\A b \in Batches :
          /\ batch[b] = "COMPLETED" => batch'[b] = "COMPLETED"
          /\ (batch[b] = "CANCELLED" /\ run[b] = "idle") => batch'[b] = "CANCELLED"
      ]_vars

\* The batches as their clients see them.
Lifecycle == INSTANCE BatchLifecycle WITH
                 state <- batch,
                 busy <- [b \in Batches |-> run[b] # "idle"]

\* Payouts implements the lifecycle that clients rely on, its liveness included.
RefinesLifecycle == Lifecycle!LifecycleSpec
=============================================================================

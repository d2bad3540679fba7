--------------------------- MODULE InstantPayout ---------------------------
(***************************************************************************)
(* Earnings that an affiliate asks for at once (requestInstantPayout of    *)
(* the affiliate portal) beside the batches an admin drafts.  The instant  *)
(* payout works on the rows of the database under their locks; all other   *)
(* code works on memory and writes the rows behind it.  A batch is drafted *)
(* from the balance of the ledger account, an instant payout from the      *)
(* commissions themselves.                                                 *)
(*                                                                         *)
(* One affiliate in one organization, ACTIVE whenever a request or a draft *)
(* looks; every commission is one unit.  What a write carries and when it  *)
(* lands is the matter of Store: here it carries what memory holds when it *)
(* lands.  Refunds are left to Conversions.                                *)
(***************************************************************************)
EXTENDS Integers, FiniteSets

CONSTANTS
    Earnings,       \* commissions of the affiliate
    Asks,           \* requests for an instant payout
    MaxChanged      \* bound: approvals, notes and cancellations of a batch

ASSUME InstantAssumption == IsFiniteSet(Earnings) /\ MaxChanged \in Nat

VARIABLES
    held,           \* commissions[k].status in memory
    row,            \* the status column of its row
    unsaved,        \* commissions with a write under way
    posting,        \* commissions whose handler waits for it before it posts them
    account,        \* balance of the EARNED ledger account
    drafted,        \* what went from the account into batches
    ask,            \* where a request stands
    reserved,       \* the commissions a request has read and locked, then pays
    listed,         \* requests whose batch is in dbStore.payoutBatches
    changed,        \* of these so far
    recorded,       \* history: commissions that were recorded
    reset           \* history: those paid at once whose row a write set back

accountVars == <<account, drafted>>
askVars == <<ask, reserved, listed>>
instantVars == <<held, row, unsaved, posting, accountVars, askVars, changed,
                 recorded, reset>>

\* A commission begins APPROVED without an approvalStatus: that is EARNED here.
RowStatus == {"NONE", "EARNED", "APPROVED", "REJECTED", "PROCESSING"}

InstantInit ==
    /\ held = [k \in Earnings |-> "NONE"]
    /\ row = [k \in Earnings |-> "NONE"]
    /\ unsaved = {}
    /\ posting = {}
    /\ account = 0
    /\ drafted = 0
    /\ ask = [r \in Asks |-> "new"]
    /\ reserved = [r \in Asks |-> {}]
    /\ listed = {}
    /\ changed = 0
    /\ recorded = {}
    /\ reset = {}

-----------------------------------------------------------------------------
(* What the rest of the program does to commissions, in memory *)

\* calculateAndRecordCommission, up to awaitPersist.
Earn(k) ==
    /\ k \notin recorded
    /\ held' = [held EXCEPT ![k] = "EARNED"]
    /\ unsaved' = unsaved \cup {k}
    /\ posting' = posting \cup {k}
    /\ recorded' = recorded \cup {k}
    /\ UNCHANGED <<row, accountVars, askVars, changed, reset>>

\* The write has landed, or failed; the earning is posted.
Post(k) ==
    /\ k \in posting \ unsaved
    /\ posting' = posting \ {k}
    /\ account' = account + 1
    /\ UNCHANGED <<held, row, unsaved, drafted, askVars, changed, recorded, reset>>

Assigned(k) == unsaved' = unsaved \cup {k}
CountChange == changed < MaxChanged /\ changed' = changed + 1

\* rejectCommission, whatever the status; nothing is debited.
RejectCommission(k) ==
    /\ held[k] # "NONE"
    /\ held' = [held EXCEPT ![k] = "REJECTED"]
    /\ Assigned(k)
    /\ UNCHANGED <<row, posting, accountVars, askVars, changed, recorded, reset>>

\* approveCommission
ApproveCommission(k) ==
    /\ CountChange
    /\ held[k] \notin {"NONE", "APPROVED"}
    /\ held' = [held EXCEPT ![k] = "APPROVED"]
    /\ Assigned(k)
    /\ account' = account + 1
    /\ UNCHANGED <<row, posting, drafted, askVars, recorded, reset>>

\* A note, a dispute, a hold: the row is written with the status that memory holds.
Touch(k) ==
    /\ CountChange
    /\ held[k] # "NONE"
    /\ Assigned(k)
    /\ UNCHANGED <<held, row, posting, accountVars, askVars, recorded, reset>>

\* The rows under a request's lock.  An operator whose name has an underscore is the
\* operator before the underscore with a slip in it.
Locked_Never == {}
Locked == UNION {reserved[r] : r \in {q \in Asks : ask[q] = "reading"}}

\* A write lands; it waits for the lock of its row.
Save(k) ==
    /\ k \in unsaved \ Locked
    /\ row' = [row EXCEPT ![k] = held[k]]
    /\ unsaved' = unsaved \ {k}
    /\ reset' = IF row[k] = "PROCESSING" /\ held[k] # "PROCESSING"
                THEN reset \cup {k} ELSE reset
    /\ UNCHANGED <<held, posting, accountVars, askVars, changed, recorded>>

\* A write fails; whoever waits for it goes on.
SaveFails(k) ==
    /\ k \in unsaved
    /\ unsaved' = unsaved \ {k}
    /\ UNCHANGED <<held, row, posting, accountVars, askVars, changed, recorded, reset>>

\* createBatch takes the whole balance of the account and looks at no commission.
DraftBatch ==
    /\ account > 0
    /\ drafted' = drafted + account
    /\ account' = 0
    /\ UNCHANGED <<held, row, unsaved, posting, askVars, changed, recorded, reset>>

-----------------------------------------------------------------------------
(* requestInstantPayout *)

Payable == {k \in Earnings : row[k] \in {"EARNED", "APPROVED"}}

\* The affiliate is looked up in the database.
Ask(r) ==
    /\ ask[r] = "new"
    /\ ask' = [ask EXCEPT ![r] = "asking"]
    /\ UNCHANGED <<held, row, unsaved, posting, accountVars, reserved, listed,
                   changed, recorded, reset>>

\* SELECT ... FOR UPDATE of what can be paid; it waits while another request has a lock on
\* some of it, and the request is refused when there is nothing.
Select(r) ==
    /\ ask[r] = "asking"
    /\ Payable \cap Locked = {}
    /\ ask' = [ask EXCEPT ![r] = IF Payable = {} THEN "new" ELSE "reading"]
    /\ reserved' = [reserved EXCEPT ![r] = Payable]
    /\ UNCHANGED <<held, row, unsaved, posting, accountVars, listed, changed,
                   recorded, reset>>

\* The transaction commits: batch and item are PROCESSING, the commissions too, and the
\* item alone is put into memory.
Commit(r) ==
    /\ ask[r] = "reading"
    /\ ask' = [ask EXCEPT ![r] = "paid"]
    /\ row' = [k \in Earnings |-> IF k \in reserved[r] THEN "PROCESSING" ELSE row[k]]
    /\ UNCHANGED <<held, unsaved, posting, accountVars, reserved, listed, changed,
                   recorded, reset>>

\* It fails and is rolled back.
RollBack(r) ==
    /\ ask[r] = "reading"
    /\ ask' = [ask EXCEPT ![r] = "new"]
    /\ reserved' = [reserved EXCEPT ![r] = {}]
    /\ UNCHANGED <<held, row, unsaved, posting, accountVars, listed, changed,
                   recorded, reset>>

\* cancelBatch finds the batch once it is in memory, and puts the amount of its item back
\* into an account it was never taken from, each time it is called.
CancelInstant(r) ==
    /\ CountChange
    /\ ask[r] \in {"paid", "cancelled"} /\ r \in listed
    /\ ask' = [ask EXCEPT ![r] = "cancelled"]
    /\ account' = account + Cardinality(reserved[r])
    /\ UNCHANGED <<held, row, unsaved, posting, drafted, reserved, listed,
                   recorded, reset>>

\* The process restarts: memory is what the rows hold, and transactions are rolled back.
RestartPayouts ==
    /\ held' = row
    /\ unsaved' = {}
    /\ posting' = {}
    /\ listed' = {r \in Asks : ask[r] \in {"paid", "cancelled"}}
    /\ ask' = [r \in Asks |-> IF ask[r] \in {"asking", "reading"} THEN "new" ELSE ask[r]]
    /\ reserved' = [r \in Asks |-> IF ask[r] = "reading" THEN {} ELSE reserved[r]]
    /\ UNCHANGED <<row, accountVars, changed, recorded, reset>>

InstantNext ==
    \/ DraftBatch \/ RestartPayouts
    \/ \E k \in Earnings :
          \/ Earn(k) \/ Post(k) \/ RejectCommission(k) \/ ApproveCommission(k) \/ Touch(k)
          \/ Save(k) \/ SaveFails(k)
    \/ \E r \in Asks : Ask(r) \/ Select(r) \/ Commit(r) \/ RollBack(r) \/ CancelInstant(r)

InstantSafety == InstantInit /\ [][InstantNext]_instantVars
-----------------------------------------------------------------------------
(* Properties *)

\* What the variables hold.
InstantTypeOK ==
    /\ held \in [Earnings -> RowStatus] /\ row \in [Earnings -> RowStatus]
    /\ unsaved \subseteq Earnings /\ posting \subseteq Earnings
    /\ recorded \subseteq Earnings /\ reset \subseteq Earnings
    /\ account \in Int /\ drafted \in Nat
    /\ ask \in [Asks -> {"new", "asking", "reading", "paid", "cancelled"}]
    /\ reserved \in [Asks -> SUBSET Earnings]
    /\ listed \subseteq Asks
    /\ changed \in 0..MaxChanged

\* A commission is paid by one instant payout, however many are asked for at once and
\* whatever restarts or fails, unless a write from memory set its row back afterwards.
InstantOnce ==
    \A k \in Earnings \ reset : \A q, r \in Asks :
        k \in reserved[q] \cap reserved[r] => q = r

\* "Reserve the commissions against this batch so they can never be selected again by a
\* concurrent instant payout request or an admin payout batch draft": what is paid at once
\* and what is drafted together is no more than what was earned.
NeverSelectedAgain ==
    LET given == {u \in Asks \X Earnings : ask[u[1]] = "paid" /\ u[2] \in reserved[u[1]]}
    IN  drafted + Cardinality(given) <= Cardinality(recorded)
=============================================================================

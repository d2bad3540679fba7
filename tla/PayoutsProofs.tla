--------------------------- MODULE PayoutsProofs ---------------------------
(***************************************************************************)
(* What holds of Payouts for every set of affiliates and batches and every *)
(* bound.  The proofs rest on one inductive invariant, Inv: the type       *)
(* invariant, the three facts the properties state, and the four facts     *)
(* below that make them inductive.  Conservation of money adds up what     *)
(* the batches drew: a sum over a finite set, which well-founded induction *)
(* over the subsets of the set takes apart.                                *)
(***************************************************************************)
EXTENDS Payouts, FiniteSetTheorems, WellFoundedInduction, TLAPS

\* A batch that was not drafted has no items, and an item that was not drafted
\* was never settled.
NotDraftedYet ==
    \A i \in Items :
        /\ batch[i[1]] = "NONE" => item[i] = "NONE"
        /\ item[i] = "NONE" => disbursed[i] = 0 /\ returned[i] = 0

\* A batch that is CANCELLED while a processBatch call is under way was
\* cancelled during that call.
CancelledInFlight ==
    \A b \in Batches : (run[b] # "idle" /\ batch[b] = "CANCELLED") => b \in raced

\* A call that waits for its notifications has opened a review, and nobody has
\* resolved it unless `early' says so.
FlaggedHasReview ==
    \A b \in Batches :
        (run[b] = "flagged" /\ b \notin early) =>
            \E k \in DOMAIN review[b] : review[b][k] \in OpenReview

Inv ==
    /\ TypeOK
    /\ OneProcessingCall
    /\ NotDraftedYet
    /\ CancelledInFlight
    /\ ReservationSettled
    /\ FlaggedHasReview
    /\ HeldCanBeReleased

-----------------------------------------------------------------------------
\* Handing amounts back keeps balances, item statuses and counts in their types.
LEMMA RestoreType ==
    ASSUME TypeOK, NEW b \in Batches, NEW handedBack \in SUBSET Items,
           Restore(b, handedBack)
    PROVE  /\ item' \in [Items -> ItemStatus]
           /\ balance' \in [Affiliates -> Int]
           /\ returned' \in [Items -> Nat]
<1>1. item' \in [Items -> ItemStatus]
  BY DEF TypeOK, Restore, ItemStatus
<1>2. returned' \in [Items -> Nat]
  BY DEF TypeOK, Restore
<1>3. \A i \in Items : amount[i] \in Int
  BY DEF TypeOK
<1>4. \A a \in Affiliates :
        (IF <<b, a>> \in handedBack
         THEN balance[a] + amount[<<b, a>>] ELSE balance[a]) \in Int
  BY <1>3 DEF TypeOK
<1>5. balance' \in [Affiliates -> Int]
  BY <1>4 DEF TypeOK, Restore
<1> QED
  BY <1>1, <1>2, <1>5

\* Every step keeps every variable in its type: statuses stay among those the
\* code assigns, reserved amounts and settlement counts stay natural numbers.
LEMMA TypeStep == TypeOK /\ [Next]_vars => TypeOK'
<1> SUFFICES ASSUME TypeOK, [Next]_vars PROVE TypeOK'
  OBVIOUS
<1> USE PayoutsAssumption DEF TypeOK, BatchStatus, ItemStatus,
        CancellableBatch, Released, RejectableBatch, ReviewStatus, OpenReview, ledgerVars, batchVars, itemVars, historyVars
<1>1. ASSUME NEW a \in Affiliates, PostCommission(a) PROVE TypeOK'
  BY <1>1 DEF PostCommission
<1>2. ASSUME NEW a \in Affiliates, SetAffiliateStatus(a) PROVE TypeOK'
  BY <1>2 DEF SetAffiliateStatus
<1>3. ASSUME NEW b \in Batches, CreateBatch(b) PROVE TypeOK'
  <2>1. PICK accounts \in SUBSET Affiliates :
          Reserve(b, accounts) /\ \A a \in accounts : balance[a] > 0
    BY <1>3 DEF CreateBatch, EligibleAccounts
  <2>2. \A i \in {b} \X accounts : balance[i[2]] \in Nat
    BY <2>1
  <2>3. amount' \in [Items -> Nat]
    BY <2>1, <2>2 DEF Reserve, Draft
  <2>4. item' \in [Items -> ItemStatus] /\ balance' \in [Affiliates -> Int]
    BY <2>1 DEF Reserve, Draft
  <2> QED
    BY <1>3, <2>3, <2>4 DEF CreateBatch
<1>4. ASSUME NEW b \in Batches, ProcessBatch(b) PROVE TypeOK'
  BY <1>4 DEF ProcessBatch
<1>5. ASSUME NEW b \in Batches, FraudCheckFails(b) PROVE TypeOK'
  BY <1>5 DEF FraudCheckFails
<1>6. ASSUME NEW b \in Batches, FraudCheckFlags(b) PROVE TypeOK'
  BY <1>6 DEF FraudCheckFlags
<1>7. ASSUME NEW b \in Batches, HoldBatch(b) PROVE TypeOK'
  BY <1>7 DEF HoldBatch
<1>8. ASSUME NEW b \in Batches, DisburseBatch(b) PROVE TypeOK'
  BY <1>8 DEF DisburseBatch
<1>9. ASSUME NEW b \in Batches, CancelBatch(b) PROVE TypeOK'
  <2> DEFINE open == {i \in ItemsOf(b) : item[i] \notin {"NONE", "COMPLETED"}}
  <2>1. open \in SUBSET Items
    BY DEF ItemsOf, Items
  <2>2. Restore(b, open)
    BY <1>9 DEF CancelBatch
  <2> HIDE DEF open
  <2>3. /\ item' \in [Items -> ItemStatus]
        /\ balance' \in [Affiliates -> Int]
        /\ returned' \in [Items -> Nat]
    BY <2>1, <2>2, RestoreType
  <2> QED
    BY <1>9, <2>3 DEF CancelBatch
<1>10. ASSUME NEW i \in Items, RetryFailedItem(i) PROVE TypeOK'
  BY <1>10 DEF RetryFailedItem
<1>11. ASSUME NEW b \in Batches, NEW k \in DOMAIN review[b],
              ResolveApproved(b, k)
       PROVE  TypeOK'
  BY <1>11 DEF ResolveApproved, NoteEarly
<1>12. ASSUME NEW b \in Batches, NEW k \in DOMAIN review[b],
              ResolveRejected(b, k)
       PROVE  TypeOK'
  <2>1. review' \in [Batches -> Seq(ReviewStatus)]
    BY <1>12 DEF ResolveRejected
  <2>2. CASE batch[b] \in {"HELD", "DRAFT"}
    <3> DEFINE open == {i \in ItemsOf(b) : item[i] \notin {"NONE", "CANCELLED"}}
    <3>1. open \in SUBSET Items
      BY DEF ItemsOf, Items
    <3>2. Restore(b, open)
      BY <1>12, <2>2 DEF ResolveRejected
    <3> HIDE DEF open
    <3>3. /\ item' \in [Items -> ItemStatus]
          /\ balance' \in [Affiliates -> Int]
          /\ returned' \in [Items -> Nat]
      BY <3>1, <3>2, RestoreType
    <3> QED
      BY <1>12, <2>1, <2>2, <3>3 DEF ResolveRejected, NoteEarly
  <2>3. CASE batch[b] \notin {"HELD", "DRAFT"}
    BY <1>12, <2>1, <2>3 DEF ResolveRejected, NoteEarly
  <2> QED BY <2>2, <2>3
<1>13. ASSUME NEW b \in Batches, NEW k \in DOMAIN review[b],
              ResolveEscalated(b, k)
       PROVE  TypeOK'
  BY <1>13 DEF ResolveEscalated
<1>14. ASSUME NEW b \in Batches, NEW k \in DOMAIN review[b],
              AssignReview(b, k)
       PROVE  TypeOK'
  BY <1>14 DEF AssignReview
<1>15. ASSUME NEW i \in Items, NEW from, NEW to \in ItemStatus,
              AdminSet(i, from, to)
       PROVE  TypeOK'
  BY <1>15 DEF AdminSet
<1>16. CASE UNCHANGED vars
  BY <1>16 DEF vars
<1> QED
  BY <1>1, <1>2, <1>3, <1>4, <1>5, <1>6, <1>7, <1>8, <1>9, <1>10, <1>11,
     <1>12, <1>13, <1>14, <1>15, <1>16
  DEF Next, Merchant, Continue, Analyst, SuperAdmin, Environment,
      ApprovePayout, HoldPayout, RetryPayout, CancelPayout

\* The type invariant holds in every reachable state.
THEOREM TypeCorrect == Safety => []TypeOK
<1>1. Init => TypeOK
  BY DEF Init, TypeOK, Items, BatchStatus, ItemStatus
<1>2. QED
  BY <1>1, TypeStep, PTL DEF Safety

-----------------------------------------------------------------------------
\* An item names its batch and its affiliate, and ItemsOf(b) are b's items.
LEMMA ItemParts ==
    /\ \A i \in Items : i[1] \in Batches /\ i[2] \in Affiliates
    /\ \A b \in Batches : \A i \in Items : i \in ItemsOf(b) <=> i[1] = b
    /\ \A b \in Batches : ItemsOf(b) \subseteq Items
BY DEF Items, ItemsOf

\* Statuses and calls: the DRAFT guard admits one processBatch call at a time.
LEMMA StatusStep ==
    TypeOK /\ OneProcessingCall /\ CancelledInFlight /\ [Next]_vars
        => OneProcessingCall' /\ CancelledInFlight'
<1> SUFFICES ASSUME TypeOK, OneProcessingCall, CancelledInFlight, [Next]_vars
             PROVE  OneProcessingCall' /\ CancelledInFlight'
  OBVIOUS
<1> USE DEF TypeOK, OneProcessingCall, CancelledInFlight, BatchStatus,
        ProcessableBatch, CancellableBatch, Released, RejectableBatch,
        ledgerVars, batchVars, itemVars, historyVars
<1> DEFINE Goal == OneProcessingCall' /\ CancelledInFlight'
<1>1. ASSUME UNCHANGED <<batch, run, raced>> PROVE Goal
  BY <1>1
<1>2. ASSUME NEW b \in Batches, CreateBatch(b) PROVE Goal
  <2>1. batch' = [batch EXCEPT ![b] = "DRAFT"] /\ batch[b] = "NONE"
    BY <1>2 DEF CreateBatch
  <2>2. UNCHANGED <<run, raced>>
    BY <1>2 DEF CreateBatch
  <2> QED
    BY <2>1, <2>2
<1>3. ASSUME NEW b \in Batches, ProcessBatch(b) PROVE Goal
  BY <1>3 DEF ProcessBatch
<1>4. ASSUME NEW b \in Batches, FraudCheckFails(b) PROVE Goal
  BY <1>4 DEF FraudCheckFails
<1>5. ASSUME NEW b \in Batches, FraudCheckFlags(b) PROVE Goal
  BY <1>5 DEF FraudCheckFlags
<1>6. ASSUME NEW b \in Batches, HoldBatch(b) PROVE Goal
  BY <1>6 DEF HoldBatch
<1>7. ASSUME NEW b \in Batches, DisburseBatch(b) PROVE Goal
  BY <1>7 DEF DisburseBatch
<1>8. ASSUME NEW b \in Batches, CancelBatch(b) PROVE Goal
  BY <1>8 DEF CancelBatch
<1>9. ASSUME NEW b \in Batches, NEW k \in DOMAIN review[b],
             ResolveApproved(b, k)
      PROVE  Goal
  BY <1>9 DEF ResolveApproved
<1>10. ASSUME NEW b \in Batches, NEW k \in DOMAIN review[b],
              ResolveRejected(b, k)
       PROVE  Goal
  BY <1>10 DEF ResolveRejected
<1>11. ASSUME \/ \E i \in Items : RetryFailedItem(i)
              \/ SuperAdmin
              \/ Environment
              \/ \E b \in Batches : \E k \in DOMAIN review[b] :
                    ResolveEscalated(b, k) \/ AssignReview(b, k)
              \/ UNCHANGED vars
       PROVE  Goal
  <2>1. UNCHANGED <<batch, run, raced>>
    BY <1>11
    DEF RetryFailedItem, SuperAdmin, ApprovePayout, HoldPayout, RetryPayout,
        CancelPayout, AdminSet, Environment, PostCommission,
        SetAffiliateStatus, ResolveEscalated, AssignReview, vars
  <2> QED
    BY <2>1, <1>1
<1> QED
  BY <1>2, <1>3, <1>4, <1>5, <1>6, <1>7, <1>8, <1>9, <1>10, <1>11
  DEF Next, Merchant, Continue, Analyst

\* Reviews: whoever resolves a review before the hold takes effect is recorded
\* in `early', and resolving one afterwards takes the batch off hold.
LEMMA ReviewStep ==
    TypeOK /\ FlaggedHasReview /\ HeldCanBeReleased /\ OneProcessingCall
      /\ [Next]_vars
        => FlaggedHasReview' /\ HeldCanBeReleased'
<1> SUFFICES ASSUME TypeOK, FlaggedHasReview, HeldCanBeReleased,
                    OneProcessingCall, [Next]_vars
             PROVE  FlaggedHasReview' /\ HeldCanBeReleased'
  OBVIOUS
<1> USE DEF TypeOK, FlaggedHasReview, HeldCanBeReleased, OneProcessingCall,
        BatchStatus, ReviewStatus, OpenReview,
        ProcessableBatch, CancellableBatch, Released, RejectableBatch,
        ledgerVars, batchVars, itemVars, historyVars
<1> DEFINE Goal == FlaggedHasReview' /\ HeldCanBeReleased'
<1>1. ASSUME UNCHANGED <<batch, run, review, early>> PROVE Goal
  BY <1>1
<1>2. ASSUME NEW b \in Batches, CreateBatch(b) PROVE Goal
  BY <1>2 DEF CreateBatch
<1>3. ASSUME NEW b \in Batches, ProcessBatch(b) PROVE Goal
  BY <1>3 DEF ProcessBatch
<1>4. ASSUME NEW b \in Batches, FraudCheckFails(b) PROVE Goal
  BY <1>4 DEF FraudCheckFails
<1>5. ASSUME NEW b \in Batches, FraudCheckFlags(b) PROVE Goal
  <2>1. PICK s \in {"IN_REVIEW", "PENDING"} :
          review' = [review EXCEPT ![b] = Append(@, s)]
    BY <1>5 DEF FraudCheckFlags
  <2>2. Len(review[b]) + 1 \in DOMAIN review'[b]
        /\ review'[b][Len(review[b]) + 1] = s
    BY <2>1
  <2>3. \A c \in Batches \ {b} : review'[c] = review[c]
    BY <2>1
  <2>4. batch[b] \in {"PROCESSING", "CANCELLED"}
    BY <1>5 DEF FraudCheckFlags
  <2> QED
    BY <1>5, <2>2, <2>3, <2>4 DEF FraudCheckFlags
<1>6. ASSUME NEW b \in Batches, HoldBatch(b) PROVE Goal
  BY <1>6 DEF HoldBatch
<1>7. ASSUME NEW b \in Batches, DisburseBatch(b) PROVE Goal
  BY <1>7 DEF DisburseBatch
<1>8. ASSUME NEW b \in Batches, CancelBatch(b) PROVE Goal
  BY <1>8 DEF CancelBatch
<1>9. ASSUME NEW b \in Batches, NEW k \in DOMAIN review[b],
             ResolveApproved(b, k) \/ ResolveRejected(b, k)
      PROVE  Goal
  <2>1. \A c \in Batches \ {b} : /\ batch'[c] = batch[c]
                                 /\ review'[c] = review[c]
                                 /\ c \in early' <=> c \in early
    BY <1>9 DEF ResolveApproved, ResolveRejected, NoteEarly
  <2>2. run' = run /\ batch'[b] # "HELD"
    BY <1>9 DEF ResolveApproved, ResolveRejected
  <2>3. run[b] = "flagged" => b \in early'
    BY <1>9 DEF ResolveApproved, ResolveRejected, NoteEarly
  <2> QED
    BY <2>1, <2>2, <2>3
<1>10. ASSUME NEW b \in Batches, NEW k \in DOMAIN review[b],
              ResolveEscalated(b, k) \/ AssignReview(b, k)
       PROVE  Goal
  <2>1. \A c \in Batches \ {b} : review'[c] = review[c]
    BY <1>10 DEF ResolveEscalated, AssignReview
  <2>2. k \in DOMAIN review'[b] /\ review'[b][k] \in OpenReview
    BY <1>10 DEF ResolveEscalated, AssignReview
  <2>3. UNCHANGED <<batch, run, early>>
    BY <1>10 DEF ResolveEscalated, AssignReview
  <2> QED
    BY <2>1, <2>2, <2>3
<1>11. ASSUME \/ \E i \in Items : RetryFailedItem(i)
              \/ SuperAdmin
              \/ Environment
              \/ UNCHANGED vars
       PROVE  Goal
  <2>1. UNCHANGED <<batch, run, review, early>>
    BY <1>11
    DEF RetryFailedItem, SuperAdmin, ApprovePayout, HoldPayout, RetryPayout,
        CancelPayout, AdminSet, Environment, PostCommission,
        SetAffiliateStatus, vars
  <2> QED
    BY <2>1, <1>1
<1> QED
  BY <1>2, <1>3, <1>4, <1>5, <1>6, <1>7, <1>8, <1>9, <1>10, <1>11
  DEF Next, Merchant, Continue, Analyst

\* Items: a step that nobody's interference precedes settles a reservation of a
\* live batch only, and then in the one way the batch's new status says.
LEMMA ItemStep ==
    Inv /\ [Next]_vars => NotDraftedYet' /\ ReservationSettled'
<1> SUFFICES ASSUME Inv, [Next]_vars
             PROVE  NotDraftedYet' /\ ReservationSettled'
  OBVIOUS
<1> USE ItemParts
    DEF Inv, TypeOK, NotDraftedYet, ReservationSettled, Undisturbed,
        BatchStatus, ItemStatus, ledgerVars, batchVars, itemVars, historyVars,
        ProcessableBatch, CancellableBatch, Released, RejectableBatch
<1> DEFINE Goal == NotDraftedYet' /\ ReservationSettled'
<1>1. ASSUME UNCHANGED <<batch, item, disbursed, returned, raced, touched>>
      PROVE  Goal
  BY <1>1
<1>2. ASSUME NEW b \in Batches, CreateBatch(b) PROVE Goal
  <2>1. \A i \in Items : i[1] # b => item'[i] = item[i] /\ batch'[i[1]] = batch[i[1]]
    BY <1>2 DEF CreateBatch, Reserve, Draft
  <2>2. \A i \in Items : i[1] = b => /\ item'[i] \in {"NONE", "DRAFT"}
                                   /\ disbursed[i] = 0 /\ returned[i] = 0
                                   /\ batch'[i[1]] = "DRAFT"
    BY <1>2 DEF CreateBatch, Reserve, Draft
  <2>3. UNCHANGED <<disbursed, returned, raced, touched>>
    BY <1>2 DEF CreateBatch
  <2> QED
    BY <2>1, <2>2, <2>3
<1>3. ASSUME NEW b \in Batches, ProcessBatch(b) PROVE Goal
  BY <1>3 DEF ProcessBatch
<1>4. ASSUME NEW b \in Batches, FraudCheckFails(b) \/ HoldBatch(b) PROVE Goal
  <2>1. /\ UNCHANGED <<item, disbursed, returned, raced, touched>>
        /\ batch'[b] \in {"DRAFT", "HELD"}
        /\ \A c \in Batches \ {b} : batch'[c] = batch[c]
    BY <1>4 DEF FraudCheckFails, HoldBatch
  <2>2. batch[b] = "PROCESSING" \/ b \in raced
    BY <1>4 DEF FraudCheckFails, HoldBatch, OneProcessingCall, CancelledInFlight
  <2>3. \A i \in Items : i[1] # b => batch'[i[1]] = batch[i[1]]
    BY <2>1
  <2>4. \A i \in Items : i[1] = b =>
           /\ batch'[i[1]] \in {"DRAFT", "HELD"}
           /\ batch[i[1]] = "PROCESSING" \/ i[1] \in raced
    BY <2>1, <2>2
  <2>5. UNCHANGED <<item, disbursed, returned, raced, touched>>
    BY <2>1
  <2> QED
    BY <2>3, <2>4, <2>5
<1>5. ASSUME NEW b \in Batches, DisburseBatch(b) PROVE Goal
  <2>1. batch[b] = "PROCESSING" \/ (batch[b] = "CANCELLED" /\ b \in raced)
    BY <1>5 DEF DisburseBatch, OneProcessingCall, CancelledInFlight
  <2>2. \A i \in Items : i[1] # b =>
           /\ item'[i] = item[i] /\ disbursed'[i] = disbursed[i]
           /\ batch'[i[1]] = batch[i[1]]
    BY <1>5 DEF DisburseBatch
  <2>3. \A i \in Items : i[1] = b =>
           /\ item'[i] = IF item[i] = "NONE" THEN "NONE" ELSE "COMPLETED"
           /\ disbursed'[i] = IF item[i] = "NONE" THEN disbursed[i]
                                                ELSE disbursed[i] + 1
           /\ batch'[i[1]] = "COMPLETED"
    BY <1>5 DEF DisburseBatch
  <2>4. UNCHANGED <<returned, raced, touched>>
    BY <1>5 DEF DisburseBatch
  <2>5. NotDraftedYet'
    BY <2>1, <2>2, <2>3, <2>4
  <2>6. ASSUME NEW i \in Items, i \notin touched, i[1] \notin raced,
               item'[i] # "NONE", i[1] = b
        PROVE  <<item'[i], disbursed'[i], returned'[i]>> = <<"COMPLETED", 1, 0>>
    <3>1. batch[i[1]] = "PROCESSING" /\ item[i] # "NONE"
      BY <2>1, <2>3, <2>6
    <3>2. <<item[i], disbursed[i], returned[i]>> = <<"DRAFT", 0, 0>>
      BY <2>6, <3>1
    <3>3. disbursed[i] = 0 /\ returned[i] = 0
      BY <3>2
    <3> QED
      BY <2>3, <2>4, <2>6, <3>1, <3>3
  <2>7. ReservationSettled'
    BY <2>2, <2>3, <2>4, <2>6
  <2> QED
    BY <2>5, <2>7
<1>6. ASSUME NEW b \in Batches, CancelBatch(b) PROVE Goal
  <2>1. batch[b] \in {"DRAFT", "HELD"} \/ b \in raced'
    BY <1>6 DEF CancelBatch
  <2>2. \A i \in Items : i[1] # b =>
           /\ item'[i] = item[i] /\ returned'[i] = returned[i]
           /\ batch'[i[1]] = batch[i[1]]
    BY <1>6 DEF CancelBatch, Restore
  <2>3. \A i \in Items : i[1] = b =>
           /\ item[i] \in {"NONE", "COMPLETED"} =>
                 item'[i] = item[i] /\ returned'[i] = returned[i]
           /\ item[i] \notin {"NONE", "COMPLETED"} =>
                 item'[i] = "CANCELLED" /\ returned'[i] = returned[i] + 1
           /\ batch'[i[1]] = "CANCELLED"
    BY <1>6 DEF CancelBatch, Restore
  <2>4. UNCHANGED <<disbursed, touched>> /\ raced \subseteq raced'
    BY <1>6 DEF CancelBatch
  <2> QED
    BY <2>1, <2>2, <2>3, <2>4
<1>7. ASSUME NEW b \in Batches, NEW k \in DOMAIN review[b],
             ResolveApproved(b, k)
      PROVE  Goal
  BY <1>7 DEF ResolveApproved
<1>8. ASSUME NEW b \in Batches, NEW k \in DOMAIN review[b],
             ResolveRejected(b, k)
      PROVE  Goal
  <2>1. CASE batch[b] \notin {"DRAFT", "HELD"}
    <3>1. UNCHANGED <<batch, item, disbursed, returned, raced, touched>>
      BY <1>8, <2>1 DEF ResolveRejected
    <3> QED
      BY <3>1, <1>1
  <2>2. CASE batch[b] \in {"DRAFT", "HELD"}
    <3>1. \A i \in Items : i[1] # b =>
             /\ item'[i] = item[i] /\ returned'[i] = returned[i]
             /\ batch'[i[1]] = batch[i[1]]
      BY <1>8, <2>2 DEF ResolveRejected, Restore
    <3>2. \A i \in Items : i[1] = b =>
             /\ item[i] \in {"NONE", "CANCELLED"} =>
                   item'[i] = item[i] /\ returned'[i] = returned[i]
             /\ item[i] \notin {"NONE", "CANCELLED"} =>
                   item'[i] = "CANCELLED" /\ returned'[i] = returned[i] + 1
             /\ batch'[i[1]] = "CANCELLED"
      BY <1>8, <2>2 DEF ResolveRejected, Restore
    <3>3. UNCHANGED <<disbursed, raced, touched>>
      BY <1>8 DEF ResolveRejected
    <3> QED
      BY <2>2, <3>1, <3>2, <3>3
  <2> QED
    BY <2>1, <2>2
<1>9. ASSUME NEW i \in Items, RetryFailedItem(i) PROVE Goal
  BY <1>9 DEF RetryFailedItem
<1>10. ASSUME NEW i \in Items, NEW from \in SUBSET (ItemStatus \ {"NONE"}),
              NEW to \in ItemStatus \ {"NONE"}, AdminSet(i, from, to)
       PROVE  Goal
  BY <1>10 DEF AdminSet
<1>11. ASSUME SuperAdmin PROVE Goal
  <2>1. PICK i \in Items : \/ AdminSet(i, NotCompleted, "SCHEDULED")
                         \/ AdminSet(i, NotCompleted, "HELD")
                         \/ AdminSet(i, {"FAILED", "HELD"}, "PROCESSING")
                         \/ AdminSet(i, NotCompleted, "CANCELLED")
    BY <1>11
    DEF SuperAdmin, ApprovePayout, HoldPayout, RetryPayout, CancelPayout
  <2>2. NotCompleted \in SUBSET (ItemStatus \ {"NONE"})
    BY DEF NotCompleted
  <2> HIDE DEF Goal
  <2> QED
    BY <2>1, <2>2, <1>10
<1>12. ASSUME \/ Environment
              \/ \E b \in Batches : FraudCheckFlags(b)
              \/ \E b \in Batches : \E k \in DOMAIN review[b] :
                    ResolveEscalated(b, k) \/ AssignReview(b, k)
              \/ UNCHANGED vars
       PROVE  Goal
  <2>1. UNCHANGED <<batch, item, disbursed, returned, raced, touched>>
    BY <1>12
    DEF Environment, PostCommission, SetAffiliateStatus, FraudCheckFlags,
        ResolveEscalated, AssignReview, vars
  <2> QED
    BY <2>1, <1>1
<1> HIDE DEF Goal
<1> QED
  BY <1>2, <1>3, <1>4, <1>5, <1>6, <1>7, <1>8, <1>9, <1>11, <1>12
  DEF Next, Merchant, Continue, Analyst, Goal

-----------------------------------------------------------------------------
LEMMA InvHolds == Safety => []Inv
<1>1. Init => Inv
  BY ItemParts
  DEF Init, Inv, TypeOK, OneProcessingCall, NotDraftedYet, CancelledInFlight,
      ReservationSettled, FlaggedHasReview, HeldCanBeReleased, Items,
      BatchStatus, ItemStatus
<1>2. Inv /\ [Next]_vars => Inv'
  BY TypeStep, StatusStep, ItemStep, ReviewStep DEF Inv
<1> QED
  BY <1>1, <1>2, PTL DEF Safety

\* At most one processBatch call is at work on a batch, for any number of
\* concurrent requests, so "processed once from DRAFT" holds of the call itself.
THEOREM OneCall == Safety => []OneProcessingCall
BY InvHolds, PTL DEF Inv

\* The money theorem: in every reachable state each reservation that was left
\* alone is open, paid once or handed back once, as its batch says.
THEOREM Settlement == Safety => []ReservationSettled
BY InvHolds, PTL DEF Inv

\* A batch on hold has an unresolved review unless one was resolved too early.
THEOREM Release == Safety => []HeldCanBeReleased
BY InvHolds, PTL DEF Inv

\* COMPLETED batches stay COMPLETED, CANCELLED ones stay CANCELLED outside a call.
THEOREM Final == Safety => FinalStatus
<1> DEFINE Keeps == \A b \in Batches :
          /\ batch[b] = "COMPLETED" => batch'[b] = "COMPLETED"
          /\ (batch[b] = "CANCELLED" /\ run[b] = "idle") => batch'[b] = "CANCELLED"
<1>1. Inv /\ [Next]_vars => [Keeps]_vars
  <2> SUFFICES ASSUME Inv, Next PROVE Keeps
    OBVIOUS
  <2> USE DEF Inv, TypeOK, OneProcessingCall, BatchStatus, batchVars,
          ProcessableBatch, CancellableBatch, Released, RejectableBatch
  <2>1. ASSUME UNCHANGED batch PROVE Keeps
    BY <2>1
  <2>2. ASSUME NEW b \in Batches, CreateBatch(b) PROVE Keeps
    <3>1. batch' = [batch EXCEPT ![b] = "DRAFT"] /\ batch[b] = "NONE"
      BY <2>2 DEF CreateBatch
    <3> QED
      BY <3>1
  <2>3. ASSUME NEW b \in Batches, ProcessBatch(b) PROVE Keeps
    BY <2>3 DEF ProcessBatch
  <2>4. ASSUME NEW b \in Batches, Continue(b) PROVE Keeps
    BY <2>4
    DEF Continue, FraudCheckFails, FraudCheckFlags, DisburseBatch, HoldBatch
  <2>5. ASSUME NEW b \in Batches, CancelBatch(b) PROVE Keeps
    BY <2>5 DEF CancelBatch
  <2>6. ASSUME Analyst PROVE Keeps
    BY <2>6
    DEF Analyst, ResolveApproved, ResolveRejected, ResolveEscalated, AssignReview
  <2>7. ASSUME \/ \E i \in Items : RetryFailedItem(i)
               \/ SuperAdmin
               \/ Environment
        PROVE  Keeps
    BY <2>1, <2>7
    DEF RetryFailedItem, SuperAdmin, ApprovePayout, HoldPayout, RetryPayout,
        CancelPayout, AdminSet, Environment, PostCommission, SetAffiliateStatus
  <2> HIDE DEF Keeps
  <2> QED
    BY <2>2, <2>3, <2>4, <2>5, <2>6, <2>7 DEF Next, Merchant
<1> QED
  BY <1>1, InvHolds, PTL DEF Safety, FinalStatus

-----------------------------------------------------------------------------
(* Every step of Payouts is a step of BatchLifecycle or leaves it alone.    *)

\* A batch whose status and call do not change takes no lifecycle step.
LEMMA Stutter ==
    UNCHANGED <<batch, run>> => UNCHANGED Lifecycle!lifecycleVars
BY DEF Lifecycle!lifecycleVars

\* A step that changes the status of one batch, or the call on it, maps to the
\* lifecycle action of the same intent.
LEMMA LifecycleStep ==
    Inv /\ [Next]_vars => [Lifecycle!LifecycleNext]_(Lifecycle!lifecycleVars)
<1> SUFFICES ASSUME Inv, [Next]_vars
             PROVE  Lifecycle!LifecycleNext \/ UNCHANGED Lifecycle!lifecycleVars
  OBVIOUS
<1> DEFINE Goal == Lifecycle!LifecycleNext \/ UNCHANGED Lifecycle!lifecycleVars
           busy == [b \in Batches |-> run[b] # "idle"]
<1> USE DEF ProcessableBatch, CancellableBatch, Released, RejectableBatch
<1>1. ASSUME UNCHANGED <<batch, run>> PROVE Goal
  BY <1>1, Stutter
<1>2. ASSUME NEW b \in Batches, CreateBatch(b) PROVE Goal
  <2>1. Lifecycle!Draft(b)
    BY <1>2 DEF CreateBatch, Lifecycle!Draft, Lifecycle!Become
  <2> QED
    BY <2>1 DEF Lifecycle!LifecycleNext
<1>3. ASSUME NEW b \in Batches, ProcessBatch(b) PROVE Goal
  <2>1. run[b] = "idle"
    BY <1>3 DEF ProcessBatch, Inv, TypeOK, OneProcessingCall
  <2>2. busy' = [busy EXCEPT ![b] = TRUE]
    BY <1>3 DEF ProcessBatch, Inv, TypeOK
  <2>3. Lifecycle!Begin(b)
    BY <1>3, <2>1, <2>2 DEF ProcessBatch, Lifecycle!Begin, Lifecycle!Become
  <2> QED
    BY <2>3 DEF Lifecycle!LifecycleNext
<1>4. ASSUME NEW b \in Batches, FraudCheckFails(b) \/ HoldBatch(b) \/ DisburseBatch(b)
      PROVE  Goal
  <2>1. busy[b] /\ busy' = [busy EXCEPT ![b] = FALSE]
    <3>1. run[b] # "idle" /\ run' = [run EXCEPT ![b] = "idle"]
      BY <1>4 DEF FraudCheckFails, HoldBatch, DisburseBatch
    <3>2. run \in [Batches -> {"idle", "assessing", "flagged"}]
      BY DEF Inv, TypeOK
    <3> QED
      BY <3>1, <3>2
  <2>2. \E s \in {"DRAFT", "HELD", "COMPLETED"} : batch' = [batch EXCEPT ![b] = s]
    BY <1>4 DEF FraudCheckFails, HoldBatch, DisburseBatch
  <2>3. Lifecycle!Finish(b)
    BY <2>1, <2>2 DEF Lifecycle!Finish, Lifecycle!Become
  <2> QED
    BY <2>3 DEF Lifecycle!LifecycleNext
<1>5. ASSUME NEW b \in Batches, FraudCheckFlags(b) PROVE Goal
  <2>1. batch' = batch /\ busy' = busy
    BY <1>5 DEF FraudCheckFlags, Inv, TypeOK
  <2> QED
    BY <2>1 DEF Lifecycle!lifecycleVars
<1>6. ASSUME NEW b \in Batches, CancelBatch(b) PROVE Goal
  <2>1. Lifecycle!Cancel(b)
    BY <1>6 DEF CancelBatch, Lifecycle!Cancel, Lifecycle!Become
  <2> QED
    BY <2>1 DEF Lifecycle!LifecycleNext
<1>7. ASSUME NEW b \in Batches, NEW k \in DOMAIN review[b],
             ResolveApproved(b, k)
      PROVE  Goal
  <2>1. CASE batch[b] # "HELD"
    <3>1. batch' = batch
      BY <1>7, <2>1 DEF ResolveApproved, Inv, TypeOK
    <3> QED
      BY <3>1, <1>1, <1>7 DEF ResolveApproved
  <2>2. CASE batch[b] = "HELD"
    <3>1. run[b] = "idle"
      BY <2>2 DEF Inv, OneProcessingCall
    <3>2. Lifecycle!Release(b)
      BY <1>7, <2>2, <3>1
      DEF ResolveApproved, Lifecycle!Release, Lifecycle!Become
    <3> QED
      BY <3>2 DEF Lifecycle!LifecycleNext
  <2> QED
    BY <2>1, <2>2
<1>8. ASSUME NEW b \in Batches, NEW k \in DOMAIN review[b],
             ResolveRejected(b, k)
      PROVE  Goal
  <2>1. CASE batch[b] \notin {"HELD", "DRAFT"}
    BY <1>1, <1>8, <2>1 DEF ResolveRejected
  <2>2. CASE batch[b] \in {"HELD", "DRAFT"}
    <3>1. run[b] = "idle"
      BY <2>2 DEF Inv, OneProcessingCall
    <3>2. Lifecycle!Reject(b)
      BY <1>8, <2>2, <3>1
      DEF ResolveRejected, Lifecycle!Reject, Lifecycle!Become
    <3> QED
      BY <3>2 DEF Lifecycle!LifecycleNext
  <2> QED
    BY <2>1, <2>2
<1>9. ASSUME \/ \E i \in Items : RetryFailedItem(i)
             \/ SuperAdmin
             \/ Environment
             \/ \E b \in Batches : \E k \in DOMAIN review[b] :
                   ResolveEscalated(b, k) \/ AssignReview(b, k)
             \/ UNCHANGED vars
      PROVE  Goal
  <2>1. UNCHANGED <<batch, run>>
    BY <1>9
    DEF RetryFailedItem, SuperAdmin, ApprovePayout, HoldPayout, RetryPayout,
        CancelPayout, AdminSet, Environment, PostCommission,
        SetAffiliateStatus, ResolveEscalated, AssignReview, batchVars, vars
  <2> QED
    BY <2>1, <1>1
<1> HIDE DEF Goal
<1> QED
  BY <1>2, <1>3, <1>4, <1>5, <1>6, <1>7, <1>8, <1>9
  DEF Next, Merchant, Continue, Analyst, Goal

\* Payouts implements the safety part of the lifecycle its clients rely on.
THEOREM Refinement == Safety => Lifecycle!LifecycleSafety
<1>1. Init => Lifecycle!LifecycleInit
  BY DEF Init, Lifecycle!LifecycleInit
<1> QED
  BY <1>1, LifecycleStep, InvHolds, PTL DEF Safety, Lifecycle!LifecycleSafety

-----------------------------------------------------------------------------
\* What holds of a subset whenever it holds of its proper subsets, holds of all subsets of a
\* finite set.
LEMMA SubsetInduction ==
  ASSUME NEW S, IsFiniteSet(S), NEW G,
         \A T \in SUBSET S : (\A U \in SUBSET T : U # T => U \in G) => T \in G
  PROVE  SUBSET S \subseteq G
<1> SUFFICES ASSUME (SUBSET S) \ G # {} PROVE FALSE
  OBVIOUS
<1>1. IsWellFoundedOn(StrictSubsetOrdering(S), SUBSET S)
  <2>1. FiniteSubsetsOf(S) = SUBSET S
    BY FS_FiniteSubsetsOfFinite
  <2>2. IsWellFoundedOn(StrictSubsetOrdering(S), FiniteSubsetsOf(S))
    BY FS_StrictSubsetOrderingWellFounded
  <2> QED BY <2>1, <2>2, Zenon
<1>2. PICK T \in (SUBSET S) \ G : \A U \in (SUBSET S) \ G : ~(<<U, T>> \in StrictSubsetOrdering(S))
  <2> DEFINE R == StrictSubsetOrdering(S)
             D == SUBSET S
             X == D \ G
  <2>1. IsWellFoundedOn(R, D) /\ X \subseteq D /\ X # {}
    BY <1>1
  <2> HIDE DEF R, D, X
  <2>2. \E T \in X : \A U \in X : ~(<<U, T>> \in R)
    BY <2>1, WFMin
  <2> QED BY <2>2 DEF R, D, X
<1>3. \A U \in SUBSET T : U # T => U \in G
  BY <1>2 DEF StrictSubsetOrdering
<1> QED BY <1>2, <1>3

\* The sums of f over the subsets of S, added up one element at a time.
Adds(g, f, S) ==
  g = [s \in SUBSET S |-> IF s = {} THEN 0 ELSE LET x == CHOOSE x \in s : TRUE IN f[x] + g[s \ {x}]]
Sums(f, S) == CHOOSE g : Adds(g, f, S)

\* SumFunctionOnSet is such a sum.
LEMMA SumIsSum ==
  ASSUME NEW f, NEW S
  PROVE  SumFunctionOnSet(f, S) = Sums(f, S)[S]
BY DEF SumFunctionOnSet, FoldFunctionOnSet, MapThenFoldSet, Sums, Adds

\* Two such sums agree where both are.
LEMMA Coherent ==
  ASSUME NEW S, IsFiniteSet(S), NEW f, NEW g, NEW T, NEW h, Adds(g, f, S), Adds(h, f, T),
         S \subseteq T
  PROVE  \A s \in SUBSET S : g[s] = h[s]
<1> DEFINE G == {s \in SUBSET S : g[s] = h[s]}
<1>1. ASSUME NEW s \in SUBSET S, \A u \in SUBSET s : u # s => u \in G
      PROVE  s \in G
  <2>1. CASE s = {}
    BY <2>1 DEF Adds
  <2>2. CASE s # {}
    <3>1. PICK x \in s : x = CHOOSE y \in s : TRUE
      BY <2>2
    <3>2. s \ {x} \in G
      BY <1>1, <3>1
    <3>3. g[s] = f[x] + g[s \ {x}]
      BY <2>2, <3>1 DEF Adds
    <3>4. h[s] = f[x] + h[s \ {x}]
      BY <2>2, <3>1 DEF Adds
    <3> QED BY <3>2, <3>3, <3>4
  <2> QED BY <2>1, <2>2
<1> HIDE DEF G
<1>2. SUBSET S \subseteq G
  BY <1>1, SubsetInduction
<1> QED BY <1>2 DEF G

\* There is such a sum for every finite set.
LEMMA SumsExist ==
  ASSUME NEW S, IsFiniteSet(S), NEW f
  PROVE  Adds(Sums(f, S), f, S)
<1> DEFINE G == {T \in SUBSET S : Adds(Sums(f, T), f, T)}
<1>1. ASSUME NEW T \in SUBSET S, \A U \in SUBSET T : U # T => U \in G
      PROVE  T \in G
  <2> DEFINE c == CHOOSE x \in T : TRUE
             h == [s \in SUBSET T |-> IF s = {} THEN 0
                                      ELSE IF s = T THEN f[c] + Sums(f, T \ {c})[T \ {c}]
                                      ELSE Sums(f, s)[s]]
  <2>0. \A U \in SUBSET T : IsFiniteSet(U)
    BY FS_Subset
  <2>1. ASSUME NEW s \in SUBSET T, s # {}
        PROVE  LET x == CHOOSE x \in s : TRUE IN h[s] = f[x] + h[s \ {x}]
    <3>1. PICK x \in s : x = CHOOSE y \in s : TRUE
      BY <2>1
    <3>2. s \ {x} \in SUBSET T /\ s \ {x} # T
      BY <3>1
    <3>3. h[s \ {x}] = Sums(f, s \ {x})[s \ {x}]
      <4>1. CASE s \ {x} = {}
        <5>1. Adds(Sums(f, s \ {x}), f, s \ {x})
          BY <1>1, <3>2
        <5> QED BY <4>1, <5>1 DEF Adds
      <4>2. CASE s \ {x} # {}
        BY <3>2, <4>2
      <4> QED BY <4>1, <4>2
    <3>4. CASE s = T
      BY <2>1, <3>1, <3>3, <3>4
    <3>5. CASE s # T
      <4>1. Adds(Sums(f, s), f, s) /\ Adds(Sums(f, s \ {x}), f, s \ {x})
        BY <1>1, <3>2, <3>5
      <4>2. Sums(f, s)[s] = f[x] + Sums(f, s)[s \ {x}]
        BY <2>1, <3>1, <4>1 DEF Adds
      <4>3. Sums(f, s \ {x})[s \ {x}] = Sums(f, s)[s \ {x}]
        <5> DEFINE u == s \ {x}
        <5>1. IsFiniteSet(u) /\ u \subseteq s /\ u \in SUBSET u
          BY <2>0, <3>2
        <5>2. Adds(Sums(f, s), f, s) /\ Adds(Sums(f, u), f, u)
          BY <4>1
        <5> HIDE DEF u
        <5>3. \A v \in SUBSET u : Sums(f, u)[v] = Sums(f, s)[v]
          BY <5>1, <5>2, Coherent
        <5> QED BY <5>1, <5>3 DEF u
      <4>4. h[s] = Sums(f, s)[s]
        BY <2>1, <3>5
      <4> QED BY <3>1, <3>3, <4>2, <4>3, <4>4
    <3> QED BY <3>4, <3>5
  <2>2. h = [s \in SUBSET T |-> h[s]] /\ h[{}] = 0
    OBVIOUS
  <2> HIDE DEF h, G
  <2>3. Adds(h, f, T)
    BY <2>1, <2>2 DEF Adds
  <2>4. Adds(Sums(f, T), f, T)
    BY <2>3 DEF Sums
  <2> QED BY <2>4 DEF G
<1> HIDE DEF G
<1>2. SUBSET S \subseteq G
  BY <1>1, SubsetInduction
<1> QED BY <1>2 DEF G

\* A sum is one element and the sum of the others.
LEMMA SumUnfolds ==
  ASSUME NEW S, IsFiniteSet(S), NEW f
  PROVE  /\ SumFunctionOnSet(f, {}) = 0
         /\ S # {} => \E x \in S :
               SumFunctionOnSet(f, S) = f[x] + SumFunctionOnSet(f, S \ {x})
<1>1. SumFunctionOnSet(f, {}) = 0
  <2>1. Adds(Sums(f, {}), f, {})
    BY SumsExist, FS_EmptySet
  <2> QED BY <2>1, SumIsSum DEF Adds
<1>2. ASSUME S # {}
      PROVE  \E x \in S : SumFunctionOnSet(f, S) = f[x] + SumFunctionOnSet(f, S \ {x})
  <2>1. PICK x \in S : x = CHOOSE y \in S : TRUE
    BY <1>2
  <2> DEFINE u == S \ {x}
  <2>2. IsFiniteSet(u) /\ u \subseteq S /\ u \in SUBSET u
    BY FS_Subset
  <2>3. Sums(f, S)[S] = f[x] + Sums(f, S)[u]
    <3>1. PICK g : g = Sums(f, S) /\ Adds(g, f, S)
      BY SumsExist
    <3>2. g[S] = f[x] + g[S \ {x}]
      BY <1>2, <2>1, <3>1 DEF Adds
    <3> QED BY <3>1, <3>2
  <2>4. Sums(f, u)[u] = Sums(f, S)[u]
    <3> HIDE DEF u
    <3>1. Adds(Sums(f, S), f, S) /\ Adds(Sums(f, u), f, u)
      BY <2>2, SumsExist
    <3>2. \A v \in SUBSET u : Sums(f, u)[v] = Sums(f, S)[v]
      BY <2>2, <3>1, Coherent
    <3> QED BY <2>2, <3>2
  <2> QED BY <2>3, <2>4, SumIsSum
<1> QED BY <1>1, <1>2

\* A sum of integers is an integer.
LEMMA SumIsInt ==
  ASSUME NEW S, IsFiniteSet(S), NEW f, \A x \in S : f[x] \in Int
  PROVE  SumFunctionOnSet(f, S) \in Int
<1> DEFINE G == {T \in SUBSET S : SumFunctionOnSet(f, T) \in Int}
<1>1. ASSUME NEW T \in SUBSET S, \A U \in SUBSET T : U # T => U \in G
      PROVE  T \in G
  <2>1. IsFiniteSet(T)
    BY FS_Subset
  <2>2. CASE T = {}
    BY <2>1, <2>2, SumUnfolds
  <2>3. CASE T # {}
    <3>1. PICK x \in T : SumFunctionOnSet(f, T) = f[x] + SumFunctionOnSet(f, T \ {x})
      BY <2>1, <2>3, SumUnfolds
    <3>2. SumFunctionOnSet(f, T \ {x}) \in Int /\ f[x] \in Int
      BY <1>1
    <3> QED BY <3>1, <3>2
  <2> QED BY <2>2, <2>3
<1> HIDE DEF G
<1>2. SUBSET S \subseteq G
  BY <1>1, SubsetInduction
<1> QED BY <1>2 DEF G

\* Each element can be taken out of a sum.
LEMMA SumSplits ==
  ASSUME NEW S, IsFiniteSet(S), NEW f, \A x \in S : f[x] \in Int
  PROVE  \A x \in S : SumFunctionOnSet(f, S) = f[x] + SumFunctionOnSet(f, S \ {x})
<1> DEFINE Sum(T) == SumFunctionOnSet(f, T)
           G == {T \in SUBSET S : \A x \in T : Sum(T) = f[x] + Sum(T \ {x})}
<1>0. \A T \in SUBSET S : IsFiniteSet(T) /\ Sum(T) \in Int
  BY FS_Subset, SumIsInt
<1>1. ASSUME NEW T \in SUBSET S, \A U \in SUBSET T : U # T => U \in G
      PROVE  T \in G
  <2> SUFFICES ASSUME NEW x \in T PROVE Sum(T) = f[x] + Sum(T \ {x})
    OBVIOUS
  <2>1. PICK y \in T : Sum(T) = f[y] + Sum(T \ {y})
    BY <1>0, SumUnfolds
  <2>2. CASE x # y
    <3> DEFINE u == (T \ {x}) \ {y}
    <3>1. u = (T \ {y}) \ {x} /\ u \in SUBSET S
      OBVIOUS
    <3>2. T \ {x} \in G /\ T \ {y} \in G
      BY <1>1
    <3>3. Sum(T \ {x}) = f[y] + Sum(u) /\ Sum(T \ {y}) = f[x] + Sum(u)
      BY <2>2, <3>1, <3>2
    <3>4. f[x] \in Int /\ f[y] \in Int /\ Sum(u) \in Int
      BY <1>0, <3>1
    <3> HIDE DEF Sum, u
    <3> QED BY <2>1, <3>3, <3>4
  <2> QED BY <2>1, <2>2
<1> HIDE DEF G
<1>2. SUBSET S \subseteq G
  BY <1>1, SubsetInduction
<1> QED BY <1>2 DEF G

\* A sum depends on what is added up only.
LEMMA SumsAgree ==
  ASSUME NEW S, IsFiniteSet(S), NEW f, NEW h, \A x \in S : f[x] = h[x]
  PROVE  SumFunctionOnSet(f, S) = SumFunctionOnSet(h, S)
<1>1. Adds(Sums(h, S), h, S)
  BY SumsExist
<1>2. Adds(Sums(h, S), f, S)
  BY <1>1 DEF Adds
<1>3. \A s \in SUBSET S : Sums(f, S)[s] = Sums(h, S)[s]
  BY <1>2, SumsExist, Coherent
<1> QED BY <1>3, SumIsSum


-----------------------------------------------------------------------------
\* An element joins a sum, whose rest stays.
LEMMA SumJoins ==
  ASSUME NEW S, IsFiniteSet(S), NEW c, c \notin S, NEW f, NEW h,
         \A x \in S : h[x] = f[x] /\ f[x] \in Int,
         h[c] \in Int
  PROVE  SumFunctionOnSet(h, S \cup {c}) = h[c] + SumFunctionOnSet(f, S)
<1> DEFINE T == S \cup {c}
<1>1. IsFiniteSet(T) /\ T \ {c} = S /\ c \in T /\ \A x \in T : h[x] \in Int
  BY FS_AddElement
<1>2. SumFunctionOnSet(h, S) = SumFunctionOnSet(f, S)
  BY SumsAgree
<1> HIDE DEF T
<1>3. SumFunctionOnSet(h, T) = h[c] + SumFunctionOnSet(h, T \ {c})
  BY <1>1, SumSplits
<1> QED BY <1>1, <1>2, <1>3 DEF T

\* Money is conserved for one affiliate.
Conserved(a) == balance[a] + SumFunctionOnSet(Drawn(a), Live(a)) = net[a]

\* What the batches drew from an account adds up.
LEMMA SumsAreInt ==
  ASSUME TypeOK, NEW a \in Affiliates
  PROVE  /\ IsFiniteSet(Live(a)) /\ Live(a) \subseteq Batches
         /\ \A b \in Batches : Drawn(a)[b] = amount[<<b, a>>] /\ Drawn(a)[b] \in Int
         /\ SumFunctionOnSet(Drawn(a), Live(a)) \in Int
         /\ balance[a] \in Int /\ net[a] \in Int
<1>1. IsFiniteSet(Live(a)) /\ Live(a) \subseteq Batches
  BY PayoutsAssumption, FS_Subset DEF Live
<1>2. \A b \in Batches : Drawn(a)[b] = amount[<<b, a>>] /\ Drawn(a)[b] \in Int
  BY DEF Drawn, TypeOK, Items
<1>3. SumFunctionOnSet(Drawn(a), Live(a)) \in Int
  BY <1>1, <1>2, SumIsInt
<1> QED BY <1>1, <1>2, <1>3 DEF TypeOK

\* It stays so when what is drawn stays, and balance and commissions move alike;
LEMMA NothingDrawn ==
  ASSUME TypeOK, TypeOK', NEW a \in Affiliates, Conserved(a),
         Live(a)' = Live(a),
         \A b \in Live(a) : amount'[<<b, a>>] = amount[<<b, a>>],
         balance'[a] - balance[a] = net'[a] - net[a]
  PROVE  Conserved(a)'
<1>1. \A b \in Live(a) : Drawn(a)'[b] = Drawn(a)[b]
  BY DEF Drawn, Live
<1>2. SumFunctionOnSet(Drawn(a)', Live(a)) = SumFunctionOnSet(Drawn(a), Live(a))
  BY <1>1, SumsAreInt, SumsAgree
<1>3. balance'[a] \in Int /\ net'[a] \in Int
  BY DEF TypeOK
<1> QED BY <1>2, <1>3, SumsAreInt DEF Conserved

\* when a batch draws the balance;
LEMMA OneDraws ==
  ASSUME TypeOK, TypeOK', NEW a \in Affiliates, Conserved(a), NEW c \in Batches \ Live(a),
         Live(a)' = Live(a) \cup {c},
         \A b \in Live(a) : amount'[<<b, a>>] = amount[<<b, a>>],
         amount'[<<c, a>>] = balance[a], balance'[a] = 0, net'[a] = net[a]
  PROVE  Conserved(a)'
<1>1. \A b \in Live(a) : Drawn(a)'[b] = Drawn(a)[b] /\ Drawn(a)[b] \in Int
  BY SumsAreInt DEF Drawn, Live
<1>2. Drawn(a)'[c] = balance[a] /\ balance[a] \in Int /\ IsFiniteSet(Live(a))
  BY SumsAreInt DEF Drawn
<1>3. SumFunctionOnSet(Drawn(a)', Live(a) \cup {c})
         = Drawn(a)'[c] + SumFunctionOnSet(Drawn(a), Live(a))
  BY <1>1, <1>2, SumJoins
<1> QED BY <1>2, <1>3, SumsAreInt DEF Conserved

\* and when a batch gives back what it drew.
LEMMA OneGivesBack ==
  ASSUME TypeOK, TypeOK', NEW a \in Affiliates, Conserved(a), NEW c \in Live(a),
         Live(a)' = Live(a) \ {c},
         \A b \in Live(a) : amount'[<<b, a>>] = amount[<<b, a>>],
         balance'[a] = balance[a] + amount[<<c, a>>], net'[a] = net[a]
  PROVE  Conserved(a)'
<1> DEFINE S == Live(a) \ {c}
<1>1. \A b \in S : Drawn(a)'[b] = Drawn(a)[b]
  BY DEF Drawn, Live
<1>2. IsFiniteSet(S)
  BY SumsAreInt, FS_Subset
<1>3. SumFunctionOnSet(Drawn(a)', S) = SumFunctionOnSet(Drawn(a), S)
  BY <1>1, <1>2, SumsAgree
<1>4. SumFunctionOnSet(Drawn(a), Live(a)) = Drawn(a)[c] + SumFunctionOnSet(Drawn(a), S)
  BY SumsAreInt, SumSplits
<1>5. SumFunctionOnSet(Drawn(a), S) \in Int
  BY <1>2, SumsAreInt, SumIsInt
<1> QED BY <1>3, <1>4, <1>5, SumsAreInt DEF Conserved

\* What disturbs an item disturbs it for good.
LEMMA DisturbedStays == [Next]_vars => raced \subseteq raced' /\ touched \subseteq touched'
BY DEF Next, Merchant, Continue, Analyst, SuperAdmin, Environment, vars, historyVars,
       CreateBatch, ProcessBatch, CancelBatch, RetryFailedItem, FraudCheckFails, FraudCheckFlags,
       DisburseBatch, HoldBatch, ResolveApproved, ResolveRejected, ResolveEscalated, AssignReview,
       ApprovePayout, HoldPayout, RetryPayout, CancelPayout, AdminSet, PostCommission,
       SetAffiliateStatus, NoteEarly

\* A step conserves the money of an affiliate whose items are undisturbed.
LEMMA MoneyStep == Inv /\ MoneyConserved /\ [Next]_vars => MoneyConserved'
<1> SUFFICES ASSUME Inv, MoneyConserved, [Next]_vars, NEW a \in Affiliates,
                    \A b \in Batches : Undisturbed(<<b, a>>)'
             PROVE  Conserved(a)'
  BY DEF MoneyConserved, Conserved
<1>0. TypeOK /\ TypeOK'
  BY TypeStep DEF Inv
<1>i. \A b \in Batches : <<b, a>> \in Items
  BY DEF Items
<1>u. \A b \in Batches : /\ b \notin raced /\ b \notin raced' /\ <<b, a>> \notin touched'
                         /\ Undisturbed(<<b, a>>)
  BY DisturbedStays DEF Undisturbed
<1>c. Conserved(a)
  BY <1>u DEF MoneyConserved, Conserved
<1>s. ASSUME NEW b \in Batches, item[<<b, a>>] # "NONE"
      PROVE  item[<<b, a>>] = CASE batch[b] = "COMPLETED" -> "COMPLETED"
                                [] batch[b] = "CANCELLED" -> "CANCELLED"
                                [] OTHER -> "DRAFT"
  <2>1. <<item[<<b, a>>], disbursed[<<b, a>>], returned[<<b, a>>]>> =
            CASE batch[b] = "COMPLETED" -> <<"COMPLETED", 1, 0>>
              [] batch[b] = "CANCELLED" -> <<"CANCELLED", 0, 1>>
              [] OTHER -> <<"DRAFT", 0, 0>>
    BY <1>i, <1>s, <1>u DEF Inv, ReservationSettled
  <2> QED BY <2>1
<1>e. ASSUME Live(a)' = Live(a), balance'[a] - balance[a] = net'[a] - net[a],
             \A b \in Live(a) : amount'[<<b, a>>] = amount[<<b, a>>]
      PROVE  Conserved(a)'
  BY <1>0, <1>c, <1>e, NothingDrawn
<1>1. ASSUME UNCHANGED <<balance, net, item, amount>> PROVE Conserved(a)'
  <2>1. Live(a)' = Live(a)
    BY <1>1 DEF Live
  <2>2. balance'[a] - balance[a] = net'[a] - net[a]
    BY <1>0, <1>1, SumsAreInt
  <2> QED BY <1>1, <1>e, <2>1, <2>2
<1>2. ASSUME NEW c \in Affiliates, PostCommission(c) PROVE Conserved(a)'
  <2>1. UNCHANGED <<item, amount>>
    BY <1>2 DEF PostCommission, itemVars
  <2>2. balance'[a] - balance[a] = net'[a] - net[a]
    BY <1>0, <1>2 DEF PostCommission, TypeOK
  <2>3. Live(a)' = Live(a)
    BY <2>1 DEF Live
  <2> QED BY <1>e, <2>1, <2>2, <2>3
<1>3. ASSUME NEW b \in Batches, CreateBatch(b) PROVE Conserved(a)'
  <2>1. PICK accounts \in SUBSET Affiliates : Reserve(b, accounts)
    BY <1>3 DEF CreateBatch, EligibleAccounts
  <2>2. item[<<b, a>>] = "NONE" /\ UNCHANGED net
    BY <1>3, <1>i DEF CreateBatch, Inv, NotDraftedYet
  <2>3. \A c \in Batches \ {b} :
           item'[<<c, a>>] = item[<<c, a>>] /\ amount'[<<c, a>>] = amount[<<c, a>>]
    BY <1>i, <2>1 DEF Reserve, Draft
  <2>4. CASE a \in accounts
    <3>1. item'[<<b, a>>] = "DRAFT" /\ amount'[<<b, a>>] = balance[a] /\ balance'[a] = 0
      BY <1>i, <2>1, <2>4 DEF Reserve, Draft
    <3>2. b \notin Live(a) /\ Live(a)' = Live(a) \cup {b}
      BY <2>2, <2>3, <3>1 DEF Live
    <3>3. \A c \in Live(a) : amount'[<<c, a>>] = amount[<<c, a>>]
      BY <2>2, <2>3 DEF Live
    <3> QED BY <1>0, <1>c, <2>2, <3>1, <3>2, <3>3, OneDraws
  <2>5. CASE a \notin accounts
    <3>1. item'[<<b, a>>] = item[<<b, a>>] /\ amount'[<<b, a>>] = amount[<<b, a>>]
          /\ balance'[a] = balance[a]
      BY <1>i, <2>1, <2>5 DEF Reserve, Draft
    <3>2. Live(a)' = Live(a) /\ \A c \in Batches : amount'[<<c, a>>] = amount[<<c, a>>]
      BY <2>3, <3>1 DEF Live
    <3>3. balance'[a] - balance[a] = net'[a] - net[a]
      BY <1>0, <2>2, <3>1, SumsAreInt
    <3>4. \A c \in Live(a) : amount'[<<c, a>>] = amount[<<c, a>>]
      BY <3>2 DEF Live
    <3> QED BY <1>e, <3>2, <3>3, <3>4
  <2> QED BY <2>4, <2>5
<1>4. ASSUME NEW b \in Batches, DisburseBatch(b) PROVE Conserved(a)'
  <2>1. batch[b] = "PROCESSING"
    BY <1>4, <1>u DEF DisburseBatch, Inv, OneProcessingCall, CancelledInFlight
  <2>2. item[<<b, a>>] \in {"NONE", "DRAFT"}
    BY <1>s, <2>1
  <2>3. /\ item'[<<b, a>>] = IF item[<<b, a>>] = "NONE" THEN "NONE" ELSE "COMPLETED"
        /\ \A c \in Batches \ {b} : item'[<<c, a>>] = item[<<c, a>>]
    BY <1>4, <1>i, ItemParts DEF DisburseBatch, ItemsOf
  <2>4. Live(a)' = Live(a)
    BY <2>2, <2>3 DEF Live
  <2>5. UNCHANGED <<balance, net, amount>>
    BY <1>4 DEF DisburseBatch, ledgerVars
  <2> QED BY <1>0, <1>e, <2>4, <2>5, SumsAreInt
<1>r. ASSUME NEW b \in Batches, NEW open \in SUBSET ItemsOf(b), Restore(b, open),
             UNCHANGED <<net, amount>>,
             <<b, a>> \in open <=> item[<<b, a>>] = "DRAFT",
             item[<<b, a>>] \in {"NONE", "DRAFT"}
      PROVE  Conserved(a)'
  <2>1. \A c \in Batches \ {b} : item'[<<c, a>>] = item[<<c, a>>]
    BY <1>i, <1>r DEF Restore, ItemsOf
  <2>2. CASE <<b, a>> \in open
    <3>1. item'[<<b, a>>] = "CANCELLED" /\ balance'[a] = balance[a] + amount[<<b, a>>]
      BY <1>i, <1>r, <2>2 DEF Restore
    <3>2. b \in Live(a) /\ Live(a)' = Live(a) \ {b}
      BY <1>r, <2>1, <2>2, <3>1 DEF Live
    <3> QED BY <1>0, <1>c, <1>r, <3>1, <3>2, OneGivesBack
  <2>3. CASE <<b, a>> \notin open
    <3>1. item'[<<b, a>>] = item[<<b, a>>] /\ balance'[a] = balance[a]
      BY <1>i, <1>r, <2>3 DEF Restore
    <3>2. Live(a)' = Live(a)
      BY <2>1, <3>1 DEF Live
    <3> QED BY <1>0, <1>e, <1>r, <3>1, <3>2, SumsAreInt
  <2> QED BY <2>2, <2>3
<1>5. ASSUME NEW b \in Batches, CancelBatch(b) PROVE Conserved(a)'
  <2> DEFINE open == {i \in ItemsOf(b) : item[i] \notin {"NONE", "COMPLETED"}}
  <2>1. Restore(b, open) /\ UNCHANGED <<net, amount>>
    BY <1>5 DEF CancelBatch
  <2>2. batch[b] \in {"DRAFT", "HELD"}
    BY <1>0, <1>5, <1>u DEF CancelBatch, CancellableBatch, BatchStatus
  <2>3. item[<<b, a>>] \in {"NONE", "DRAFT"} /\ <<b, a>> \in ItemsOf(b)
    BY <1>s, <2>2 DEF ItemsOf
  <2> QED BY <1>r, <2>1, <2>3
<1>6. ASSUME NEW b \in Batches, NEW k \in DOMAIN review[b], ResolveRejected(b, k)
      PROVE  Conserved(a)'
  <2> DEFINE open == {i \in ItemsOf(b) : item[i] \notin {"NONE", "CANCELLED"}}
  <2>1. UNCHANGED <<net, amount>>
    BY <1>6 DEF ResolveRejected
  <2>2. CASE batch[b] \in RejectableBatch
    <3>1. Restore(b, open)
      BY <1>6, <2>2 DEF ResolveRejected
    <3>2. item[<<b, a>>] \in {"NONE", "DRAFT"} /\ <<b, a>> \in ItemsOf(b)
      BY <1>s, <2>2 DEF RejectableBatch, ItemsOf
    <3> QED BY <1>r, <2>1, <3>1, <3>2
  <2>3. CASE batch[b] \notin RejectableBatch
    BY <1>1, <1>6, <2>1, <2>3 DEF ResolveRejected
  <2> QED BY <2>2, <2>3
<1>7. ASSUME NEW i \in Items, i \in touched', UNCHANGED <<balance, net, amount>>,
             \A j \in Items \ {i} : item'[j] = item[j]
      PROVE  Conserved(a)'
  <2>1. \A b \in Batches : item'[<<b, a>>] = item[<<b, a>>]
    BY <1>7, <1>i, <1>u
  <2>2. Live(a)' = Live(a)
    BY <2>1 DEF Live
  <2> QED BY <1>0, <1>e, <1>7, <2>2, SumsAreInt
<1>8. ASSUME NEW i \in Items, RetryFailedItem(i) PROVE Conserved(a)'
  BY <1>0, <1>7, <1>8 DEF RetryFailedItem, ledgerVars, TypeOK
<1>9. ASSUME NEW i \in Items, NEW from, NEW to, AdminSet(i, from, to) PROVE Conserved(a)'
  BY <1>0, <1>7, <1>9 DEF AdminSet, ledgerVars, TypeOK
<1>10. ASSUME \/ \E b \in Batches : \/ ProcessBatch(b) \/ FraudCheckFails(b)
                                    \/ FraudCheckFlags(b) \/ HoldBatch(b)
              \/ \E b \in Batches : \E k \in DOMAIN review[b] :
                    ResolveApproved(b, k) \/ ResolveEscalated(b, k) \/ AssignReview(b, k)
              \/ \E c \in Affiliates : SetAffiliateStatus(c)
              \/ UNCHANGED vars
       PROVE  Conserved(a)'
  <2>1. UNCHANGED <<balance, net, item, amount>>
    BY <1>10
    DEF ProcessBatch, FraudCheckFails, FraudCheckFlags, HoldBatch, ResolveApproved,
        ResolveEscalated, AssignReview, SetAffiliateStatus, vars, ledgerVars, itemVars
  <2> QED BY <1>1, <2>1
<1> QED
  BY <1>2, <1>3, <1>4, <1>5, <1>6, <1>8, <1>9, <1>10
  DEF Next, Merchant, Continue, Analyst, SuperAdmin, Environment,
      ApprovePayout, HoldPayout, RetryPayout, CancelPayout

\* No money is created or lost between the account of an affiliate and any number of payout
\* batches that draw on it, one after the other or beside each other.
THEOREM Conservation == Safety => []MoneyConserved
<1>1. Init => MoneyConserved
  <2> SUFFICES ASSUME Init, NEW a \in Affiliates PROVE Conserved(a)
    BY DEF MoneyConserved, Conserved
  <2>1. Live(a) = {}
    BY DEF Init, Live, Items
  <2> QED BY <2>1, SumUnfolds, FS_EmptySet DEF Init, Conserved
<1>2. Inv /\ MoneyConserved /\ [Next]_vars => MoneyConserved'
  BY MoneyStep
<1> QED BY <1>1, <1>2, InvHolds, PTL DEF Safety
=============================================================================

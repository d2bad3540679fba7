---------------------------- MODULE Conversions ----------------------------
(***************************************************************************)
(* From a reported conversion to money in an affiliate's account: the      *)
(* conversions of one affiliate in one program, the commissions they earn, *)
(* the ledger entries posted for each commission, and everybody who acts   *)
(* on them (ConversionsService, CommissionsService, FraudService,          *)
(* AdminService).  A handler runs to its next await on real I/O without    *)
(* interruption.  Three handlers change state on both sides of one:        *)
(*   - createConversion, around the fraud check;                           *)
(*   - createManualConversion, around the write of the conversion;         *)
(*   - calculateAndRecordCommission, around the write of the commission.   *)
(* `call[c]' is where the handler that creates c stands, `due[k]' what the *)
(* handler that records k will post to the ledger once k is written.       *)
(*                                                                         *)
(* Every lookup `commissions.find(x => x.conversionId === c.id)' returns   *)
(* the commission recorded first, <<c, 1>>.                                *)
(***************************************************************************)
EXTENDS Integers, FiniteSets

CONSTANTS
    Conversions,    \* identities of conversions
    Price,          \* conversion.amount, in the smallest currency unit
    Earnings,       \* amounts the commission rules in force may yield
    MaxCommissions, \* bound on the commissions recorded for one conversion
    MaxCalls,       \* bound on the refunds and on the rejections of a conversion
    MaxPosted,      \* bound on the amounts, credits and debits of a commission
    Operators       \* who acts: "merchant", "analyst", "desk", "admin"

ASSUME ConversionsAssumption ==
    /\ Price \in Nat \ {0}
    /\ Earnings \subseteq Nat \ {0}
    /\ MaxCommissions \in Nat
    /\ MaxCalls \in Nat
    /\ MaxPosted \in Nat
    /\ Operators \subseteq {"merchant", "analyst", "desk", "admin"}

VARIABLES
    active,         \* the affiliate's status is ACTIVE
    conversion,     \* conversions[c].status
    refunded,       \* conversions[c].refundedAmount
    refunds,        \* length of conversions[c].refundHistory
    call,           \* where the handler that creates c stands
    review,         \* status of the CONVERSION fraud review of c
    made,           \* number of commissions recorded for c
    status,         \* commissions[k].status
    approval,       \* commissions[k].approvalStatus
    amount,         \* commissions[k].commissionAmount
    reversed,       \* commissions[k].reversedAmount
    due,            \* COMMISSION_EARNED credit still to be posted for k
    credited,       \* sum of the CREDIT ledger entries that refer to k
    debited,        \* sum of the DEBIT ledger entries that refer to k
    early,          \* history: c was acted on before its commission was there
    handled,        \* history: the commission desk or an admin acted on c
    unearned,       \* history: c was approved by a path that earns nothing
    rejections      \* history: times rejectConversion was called on c

conversionVars == <<conversion, refunded, refunds, call>>
commissionVars == <<made, status, approval, amount, reversed>>
ledgerVars     == <<due, credited, debited>>
historyVars    == <<early, handled, unearned, rejections>>
vars == <<active, conversionVars, review, commissionVars, ledgerVars, historyVars>>

Commissions == Conversions \X (1..MaxCommissions)

ConversionStatus ==
    {"PENDING", "APPROVED", "REJECTED", "PARTIALLY_REFUNDED", "REFUNDED",
     "CHARGEBACK"}
ReviewStatus == {"PENDING", "IN_REVIEW", "ESCALATED", "APPROVED", "REJECTED"}
OpenReview   == {"PENDING", "IN_REVIEW", "ESCALATED"}
Approval     == {"NONE", "PENDING", "APPROVED", "REJECTED"}

Recorded(c) == {c} \X (1..made[c])
First(c)    == <<c, 1>>

Init ==
    /\ active = TRUE
    /\ conversion = [c \in Conversions |-> "NONE"]
    /\ refunded = [c \in Conversions |-> 0]
    /\ refunds = [c \in Conversions |-> 0]
    /\ call = [c \in Conversions |-> "none"]
    /\ review = [c \in Conversions |-> "NONE"]
    /\ made = [c \in Conversions |-> 0]
    /\ status = [k \in Commissions |-> "NONE"]
    /\ approval = [k \in Commissions |-> "NONE"]
    /\ amount = [k \in Commissions |-> 0]
    /\ reversed = [k \in Commissions |-> 0]
    /\ due = [k \in Commissions |-> 0]
    /\ credited = [k \in Commissions |-> 0]
    /\ debited = [k \in Commissions |-> 0]
    /\ early = {}
    /\ handled = {}
    /\ unearned = {}
    /\ rejections = [c \in Conversions |-> 0]

-----------------------------------------------------------------------------
(* Recording a commission and posting it.  An operator whose name has an     *)
(* underscore is the operator before the underscore with a slip in it; no    *)
(* action uses it, it shows that the properties below notice the slip.       *)

\* LedgerService.recordTransaction refuses nothing; these are the bounds.
MayPost(total, x) == total + x \in (-MaxPosted)..MaxPosted

\* calculateAndRecordCommission up to its write of the commission.
RecordCommission(c) ==
    /\ made[c] < MaxCommissions
    /\ \E earned \in Earnings :
          LET k == <<c, made[c] + 1>>
          IN  /\ made' = [made EXCEPT ![c] = @ + 1]
              /\ status' = [status EXCEPT ![k] = "APPROVED"]
              /\ amount' = [amount EXCEPT ![k] = earned]
              /\ due' = [due EXCEPT ![k] = earned]
              /\ UNCHANGED <<approval, reversed, credited, debited>>

\* The commission is written: its earning is posted, as it was calculated.
PostEarned_Rejected(k) ==
    /\ due[k] > 0
    /\ credited' = [credited EXCEPT ![k] =
                       IF status[k] = "APPROVED" THEN @ + due[k] ELSE @]
    /\ due' = [due EXCEPT ![k] = 0]
    /\ UNCHANGED <<active, conversionVars, review, commissionVars, debited,
                   historyVars>>
PostEarned(k) ==
    /\ due[k] > 0
    /\ credited' = [credited EXCEPT ![k] = @ + due[k]]
    /\ due' = [due EXCEPT ![k] = 0]
    /\ UNCHANGED <<active, conversionVars, review, commissionVars, debited,
                   historyVars>>

NoteEarly(c, when) == early' = IF when THEN early \cup {c} ELSE early
InCreation(c) == call[c] # "none"

-----------------------------------------------------------------------------
(* Creating a conversion *)

\* createConversion up to the fraud check.
CreateConversion(c) ==
    /\ conversion[c] = "NONE"
    /\ conversion' = [conversion EXCEPT ![c] = "PENDING"]
    /\ call' = [call EXCEPT ![c] = "assessing"]
    /\ UNCHANGED <<active, refunded, refunds, review, commissionVars,
                   ledgerVars, historyVars>>

\* The assessment decided REVIEW or BLOCK: a review opens, notifications go out.
FraudCheckFlags(c) ==
    /\ call[c] = "assessing"
    /\ \/ /\ review' = [review EXCEPT ![c] = "PENDING"]
          /\ call' = [call EXCEPT ![c] = "review"]
       \/ /\ review' = [review EXCEPT ![c] = "IN_REVIEW"]
          /\ call' = [call EXCEPT ![c] = "block"]
    /\ UNCHANGED <<active, conversion, refunded, refunds, commissionVars,
                   ledgerVars, historyVars>>

\* The notifications are out: the decision becomes the status of the conversion.
ApplyFlag(c) ==
    /\ call[c] \in {"review", "block"}
    /\ conversion' = [conversion EXCEPT ![c] =
                         IF call[c] = "review" THEN "PENDING" ELSE "REJECTED"]
    /\ call' = [call EXCEPT ![c] = "none"]
    /\ UNCHANGED <<active, refunded, refunds, review, commissionVars,
                   ledgerVars, historyVars>>

\* The assessment allowed the conversion: it is approved whatever its status is by
\* now, and an active affiliate earns a commission.
FraudCheckAllows(c) ==
    /\ call[c] = "assessing"
    /\ conversion' = [conversion EXCEPT ![c] = "APPROVED"]
    /\ call' = [call EXCEPT ![c] = "none"]
    /\ IF active
       THEN RecordCommission(c) /\ UNCHANGED unearned
       ELSE /\ unearned' = unearned \cup {c}
            /\ UNCHANGED <<commissionVars, ledgerVars>>
    /\ UNCHANGED <<active, refunded, refunds, review, early, handled, rejections>>

\* createManualConversion: approved at once, the commission after the write.
CreateManualConversion(c) ==
    /\ conversion[c] = "NONE"
    /\ conversion' = [conversion EXCEPT ![c] = "APPROVED"]
    /\ call' = [call EXCEPT ![c] = "writing"]
    /\ UNCHANGED <<active, refunded, refunds, review, commissionVars,
                   ledgerVars, historyVars>>

ManualConversionWritten(c) ==
    /\ call[c] = "writing"
    /\ call' = [call EXCEPT ![c] = "none"]
    /\ RecordCommission(c)
    /\ UNCHANGED <<active, conversion, refunded, refunds, review, historyVars>>

-----------------------------------------------------------------------------
(* Refunds *)

\* Math.round(n / d) for n >= 0: halves round up.
Round_Down(n, d) == n \div d
Round(n, d) == (2 * n + d) \div (2 * d)

Capped_Not(x, left) == x
Capped(x, left) == IF x < left THEN x ELSE left

\* refundConversion of x; dto.amount defaults to all that is left.
Refundable(c) == (1..(Price - refunded[c])) \cup {Price - refunded[c]}

RefundConversion(c, x) ==
    LET k     == First(c)
        total == refunded[c] + x
        share == IF made[c] = 0 THEN 0
                 ELSE Capped(Round(amount[k] * x, Price), amount[k] - reversed[k])
    IN  /\ conversion[c] \notin {"NONE", "REFUNDED"}
        /\ refunds[c] < MaxCalls
        /\ refunded' = [refunded EXCEPT ![c] = total]
        /\ refunds' = [refunds EXCEPT ![c] = @ + 1]
        /\ conversion' = [conversion EXCEPT ![c] =
                             IF total >= Price THEN "REFUNDED"
                             ELSE "PARTIALLY_REFUNDED"]
        /\ IF share > 0
           THEN /\ MayPost(debited[k], share)
                /\ reversed' = [reversed EXCEPT ![k] = @ + share]
                /\ status' = [status EXCEPT ![k] =
                                 IF reversed[k] + share >= amount[k]
                                 THEN "REFUNDED" ELSE "PARTIALLY_REFUNDED"]
                /\ debited' = [debited EXCEPT ![k] = @ + share]
           ELSE UNCHANGED <<reversed, status, debited>>
        /\ NoteEarly(c, made[c] = 0)
        /\ UNCHANGED <<active, call, review, made, approval, amount, due,
                       credited, handled, unearned, rejections>>

-----------------------------------------------------------------------------
(* The merchant approves and rejects conversions *)

\* A commission is recorded unless the conversion has one.
Earns_Always(c) == TRUE
Earns_Unreviewed(c) == made[c] = 0 /\ review[c] = "NONE"
Earns(c) == made[c] = 0

ApproveConversion(c) ==
    /\ conversion[c] \notin {"NONE", "APPROVED"}
    /\ conversion' = [conversion EXCEPT ![c] = "APPROVED"]
    /\ IF Earns(c)
       THEN RecordCommission(c)
       ELSE UNCHANGED <<commissionVars, ledgerVars>>
    /\ NoteEarly(c, InCreation(c))
    /\ UNCHANGED <<active, refunded, refunds, call, review, handled, unearned,
                   rejections>>

\* The whole commission is debited, whatever was debited before.
ClawedBack(k) == amount[k]

RejectConversion(c) ==
    LET k == First(c)
    IN  /\ conversion[c] # "NONE"
        /\ conversion' = [conversion EXCEPT ![c] = "REJECTED"]
        /\ rejections[c] < MaxCalls
        /\ rejections' = [rejections EXCEPT ![c] = @ + 1]
        /\ IF made[c] > 0
           THEN /\ MayPost(debited[k], ClawedBack(k))
                /\ status' = [status EXCEPT ![k] = "REJECTED"]
                /\ debited' = [debited EXCEPT ![k] = @ + ClawedBack(k)]
           ELSE UNCHANGED <<status, debited>>
        /\ NoteEarly(c, made[c] = 0)
        /\ UNCHANGED <<active, refunded, refunds, call, review, made, approval,
                       amount, reversed, due, credited, handled, unearned>>

-----------------------------------------------------------------------------
(* Fraud analysts *)

\* An APPROVED review of a conversion without commission earns an active affiliate one.
EarnsByReview(c, decision) == decision = "APPROVED" /\ active /\ Earns(c)

\* ESCALATED rejects the conversion like REJECTED, and stays open.
ResolveReview(c, decision) ==
    LET approves == decision = "APPROVED"
    IN  /\ review[c] \in OpenReview
        /\ review' = [review EXCEPT ![c] = decision]
        /\ conversion' = [conversion EXCEPT ![c] =
                             IF approves THEN "APPROVED" ELSE "REJECTED"]
        /\ IF EarnsByReview(c, decision)
           THEN RecordCommission(c)
           ELSE UNCHANGED <<commissionVars, ledgerVars>>
        /\ unearned' = IF approves /\ ~active THEN unearned \cup {c} ELSE unearned
        /\ NoteEarly(c, InCreation(c))
        /\ UNCHANGED <<active, refunded, refunds, call, handled, rejections>>

AssignReview(c) ==
    /\ review[c] # "NONE"
    /\ review' = [review EXCEPT ![c] = "IN_REVIEW"]
    /\ UNCHANGED <<active, conversionVars, commissionVars, ledgerVars, historyVars>>

-----------------------------------------------------------------------------
(* The commission desk *)

Desk(k) ==
    /\ k \in Recorded(k[1])
    /\ handled' = handled \cup {k[1]}
    /\ UNCHANGED <<active, conversionVars, review, made, due, early, unearned,
                   rejections>>

\* approveCommission posts the amount as COMMISSION_APPROVED, another credit.
ApproveCommission(k) ==
    /\ Desk(k)
    /\ <<status[k], approval[k]>> # <<"APPROVED", "APPROVED">>
    /\ MayPost(credited[k], amount[k])
    /\ status' = [status EXCEPT ![k] = "APPROVED"]
    /\ approval' = [approval EXCEPT ![k] = "APPROVED"]
    /\ credited' = [credited EXCEPT ![k] = @ + amount[k]]
    /\ UNCHANGED <<amount, reversed, debited>>

RejectCommission(k) ==
    /\ Desk(k)
    /\ status' = [status EXCEPT ![k] = "REJECTED"]
    /\ approval' = [approval EXCEPT ![k] = "REJECTED"]
    /\ UNCHANGED <<amount, reversed, credited, debited>>

\* adjustCommission posts the delta as ADJUSTMENT, which is not a credit type.
AdjustCommission(k, delta) ==
    /\ Desk(k)
    /\ amount[k] + delta \in 0..MaxPosted
    /\ MayPost(debited[k], delta)
    /\ amount' = [amount EXCEPT ![k] = @ + delta]
    /\ debited' = [debited EXCEPT ![k] = @ + delta]
    /\ UNCHANGED <<status, approval, reversed, credited>>

\* applyRetroactiveAdjustment after a tier upgrade, for the APPROVED commissions of
\* the affiliate that the new tier would have paid more for; an ADJUSTMENT as well,
\* and the commission keeps its amount.
RetroactiveAdjustment(newAmount) ==
    LET raised == {k \in Commissions : /\ k \in Recorded(k[1])
                                       /\ status[k] = "APPROVED"
                                       /\ amount[k] < newAmount}
    IN  /\ raised # {}
        /\ \A k \in raised : MayPost(debited[k], newAmount - amount[k])
        /\ debited' = [k \in Commissions |->
                          IF k \in raised THEN debited[k] + newAmount - amount[k]
                          ELSE debited[k]]
        /\ handled' = handled \cup {k[1] : k \in raised}
        /\ UNCHANGED <<active, conversionVars, review, commissionVars, due,
                       credited, early, unearned, rejections>>

SetAffiliateStatus ==
    /\ active' = ~active
    /\ UNCHANGED <<conversionVars, review, commissionVars, ledgerVars, historyVars>>

-----------------------------------------------------------------------------
(* AdminService: a super admin writes statuses, and posts nothing *)

\* What a status written to commission k, or to all of a conversion's, sets besides.
WriteStatus(keys, s) ==
    /\ status' = [k \in Commissions |-> IF k \in keys THEN s ELSE status[k]]
    /\ approval' = [k \in Commissions |->
                       IF k \in keys /\ s \in {"APPROVED", "REJECTED"}
                       THEN s ELSE approval[k]]
    /\ reversed' = [k \in Commissions |->
                       IF k \in keys /\ s \in {"REFUNDED", "CHARGEBACK"}
                       THEN amount[k] ELSE reversed[k]]

AdminSetConversion(c, s) ==
    /\ conversion[c] # "NONE"
    /\ ~(s = "APPROVED" /\ conversion[c] = "REJECTED")
    /\ conversion' = [conversion EXCEPT ![c] = s]
    /\ IF s \in {"REFUNDED", "CHARGEBACK"}
       THEN refunded' = [refunded EXCEPT ![c] = Price]
       ELSE UNCHANGED refunded
    /\ s = "REFUNDED" => refunds[c] < MaxCalls
    /\ refunds' = [refunds EXCEPT ![c] = IF s = "REFUNDED" THEN @ + 1 ELSE @]
    /\ IF s \in {"PENDING", "PARTIALLY_REFUNDED"}
       THEN UNCHANGED <<status, approval, reversed>>
       ELSE WriteStatus(Recorded(c), s)
    /\ handled' = handled \cup {c}
    /\ UNCHANGED <<active, call, review, made, amount, ledgerVars, early, unearned,
                   rejections>>

\* updateCommissionStatus and, with REFUNDED, reverseCommission.
AdminSetCommission(k, s) ==
    /\ Desk(k)
    /\ IF s = "PENDING"
       THEN /\ status' = [status EXCEPT ![k] = "PENDING"]
            /\ approval' = [approval EXCEPT ![k] = "PENDING"]
            /\ reversed' = [reversed EXCEPT ![k] = 0]
       ELSE WriteStatus({k}, s)
    /\ UNCHANGED <<amount, credited, debited>>

\* recalculateCommission: the rule or program may have changed since.
RecalculateCommission(k) ==
    /\ Desk(k)
    /\ \E earned \in Earnings : amount' = [amount EXCEPT ![k] = earned]
    /\ UNCHANGED <<status, approval, reversed, credited, debited>>

-----------------------------------------------------------------------------
\* The public API, with the store integrations and partner deals that call it.
Api ==
    \E c \in Conversions :
        \/ CreateConversion(c)
        \/ \E x \in Refundable(c) : RefundConversion(c, x)

Merchant ==
    /\ "merchant" \in Operators
    /\ \E c \in Conversions :
          ApproveConversion(c) \/ RejectConversion(c) \/ CreateManualConversion(c)

Analyst ==
    /\ "analyst" \in Operators
    /\ \/ SetAffiliateStatus
       \/ \E c \in Conversions :
             \/ AssignReview(c)
             \/ \E decision \in {"APPROVED", "REJECTED", "ESCALATED"} :
                   ResolveReview(c, decision)

CommissionDesk ==
    /\ "desk" \in Operators
    /\ \/ \E newAmount \in Earnings : RetroactiveAdjustment(newAmount)
       \/ \E k \in Commissions :
             \/ ApproveCommission(k)
             \/ RejectCommission(k)
             \/ \E delta \in {1, -1} : AdjustCommission(k, delta)

Admin ==
    /\ "admin" \in Operators
    /\ \E s \in ConversionStatus :
          \/ \E c \in Conversions : AdminSetConversion(c, s)
          \/ \E k \in Commissions : AdminSetCommission(k, s) \/ RecalculateCommission(k)

Continue(c) ==
    \/ FraudCheckFlags(c)
    \/ ApplyFlag(c)
    \/ FraudCheckAllows(c)
    \/ ManualConversionWritten(c)

Next ==
    \/ Api
    \/ Merchant
    \/ Analyst
    \/ CommissionDesk
    \/ Admin
    \/ \E c \in Conversions : Continue(c)
    \/ \E k \in Commissions : PostEarned(k)

Safety == Init /\ [][Next]_vars

\* A handler that waits is resumed: the store logs a failed write and resolves, a
\* failed signal or notification does not fail the assessment.
Spec ==
    /\ Safety
    /\ \A c \in Conversions : WF_vars(Continue(c))
    /\ \A k \in Commissions : WF_vars(PostEarned(k))

-----------------------------------------------------------------------------
(* Properties *)

TypeOK ==
    /\ active \in BOOLEAN
    /\ conversion \in [Conversions -> ConversionStatus \cup {"NONE"}]
    /\ refunded \in [Conversions -> 0..Price]
    /\ refunds \in [Conversions -> Nat]
    /\ call \in [Conversions -> {"none", "assessing", "review", "block", "writing"}]
    /\ review \in [Conversions -> ReviewStatus \cup {"NONE"}]
    /\ made \in [Conversions -> 0..MaxCommissions]
    /\ status \in [Commissions -> ConversionStatus \cup {"NONE"}]
    /\ approval \in [Commissions -> Approval]
    /\ amount \in [Commissions -> Nat]
    /\ reversed \in [Commissions -> Nat]
    /\ due \in [Commissions -> Nat]
    /\ credited \in [Commissions -> Nat]
    /\ debited \in [Commissions -> Int]
    /\ early \in SUBSET Conversions
    /\ handled \in SUBSET Conversions
    /\ unearned \in SUBSET Conversions
    /\ rejections \in [Conversions -> Nat]

\* A conversion earns at most one commission, whoever approves it and in whatever
\* order; at most two when it is acted on while the handler that creates it waits.
OneCommission ==
    \A c \in Conversions : made[c] <= IF c \in early THEN 2 ELSE 1

\* What the ledger holds, or is about to, for a commission is what the conversion
\* is still worth to the affiliate: nothing once it was rejected, what refunds left
\* of it otherwise.  For conversions that are refunded or rejected once, after the
\* commission was recorded, and that neither the desk nor an admin touched.
LedgerAgrees ==
    \A c \in Conversions \ (early \cup handled) :
        \/ made[c] = 0
        \/ rejections[c] > 0 /\ (refunds[c] > 0 \/ rejections[c] > 1)
        \/ LET k == First(c)
           IN  /\ reversed[k] <= amount[k]
               /\ credited[k] + due[k] - debited[k] =
                      IF rejections[c] = 1 THEN 0 ELSE amount[k] - reversed[k]

\* The part of a commission that refunds reversed differs from the exact share by
\* at most half a unit for each refund, however the refunds are cut.
RefundDrift ==
    \A c \in Conversions \ (early \cup handled) :
        LET k     == First(c)
            drift == 2 * (reversed[k] * Price - amount[k] * refunded[c])
        IN  made[c] = 0 \/ drift \in -(Price * refunds[c])..(Price * refunds[c])

\* A conversion that says it was refunded or charged back was refunded in full, and
\* never by more than its amount.
RefundedInFull ==
    \A c \in Conversions :
        conversion[c] \in {"REFUNDED", "CHARGEBACK"} => refunded[c] = Price

\* An approved conversion has its commission, whichever handler approved it and
\* although each decides by itself whether one is still to be recorded; only an
\* inactive affiliate's conversions and those written by an admin may have none.
ApprovedHasCommission ==
    \A c \in Conversions \ (unearned \cup handled) :
        (conversion[c] = "APPROVED" /\ call[c] = "none") => made[c] > 0

\* A commission is recorded only for a conversion that is approved when it is.
EarnsWhenApproved ==
    [][\A c \in Conversions \ (early' \cup handled) :
          made'[c] > made[c] => conversion'[c] = "APPROVED"]_vars

\* An approved conversion is credited in the end, whatever happens to it while the
\* commission is being written.
ApprovedIsCredited ==
    \A c \in Conversions :
        (conversion[c] = "APPROVED" /\ c \notin unearned \cup handled)
            ~> \E k \in Recorded(c) : credited[k] > 0

\* The account of a commission as the affiliate sees it.
Account == INSTANCE CommissionAccount WITH
               Entries <- Commissions,
               phase <- [k \in Commissions |->
                            IF k \notin Recorded(k[1]) THEN "none"
                            ELSE IF due[k] > 0 THEN "owed" ELSE "posted"],
               worth <- [k \in Commissions |-> credited[k] + due[k] - debited[k]]

\* Without the merchant, the desk and admins, a commission is posted once, and
\* refunds claw back at most what it was worth, in any order with the posting.
RefinesAccount == Account!AccountSpec

-----------------------------------------------------------------------------
(* What a test claims without exception *)

\* "One conversion event -> one commission record".
OneCommissionEach == \A c \in Conversions : made[c] <= 1
=============================================================================

--------------------------- MODULE EarningsProofs ---------------------------
(***************************************************************************)
(* Proofs about Conversions, for any conversions, price, earnings and      *)
(* bounds, and about Rewards, for any number of tiers, milestones and      *)
(* evaluations.                                                            *)
(*                                                                         *)
(* Counting commissions needs one fact the code does not state: as long as *)
(* the handler that creates a conversion waits, only an interference that  *)
(* `early' records can have made a commission for it.  The money of a      *)
(* commission is carried by Balanced, where the merchant acts, and by Kept *)
(* where only fraud analysts do.                                           *)
(*                                                                         *)
(* A milestone has its bonus, or one evaluation that will post it, from    *)
(* the turn in which it is achieved.  Above the tier the affiliate holds,  *)
(* every promotion was answered by a fall.  And a grace date that runs     *)
(* belongs to the spell below the tier that runs.                          *)
(***************************************************************************)
EXTENDS Conversions, Rewards, WellFoundedInduction, TLAPS


\* What holds of each conversion:
\*   - it has no commission before it is there, and while its handler waits only
\*     an early approval can have recorded one;
\*   - it has one commission, at most two if somebody interfered;
\*   - created by hand, it stays approved while it is written, unless somebody
\*     interferes;
\*   - what it says of its refunds and of its commission is so.
Sound(c) ==
    /\ conversion[c] = "NONE" => made[c] = 0 /\ call[c] = "none"
    /\ InCreation(c) => made[c] <= IF c \in early THEN 1 ELSE 0
    /\ made[c] <= IF c \in early THEN 2 ELSE 1
    /\ (call[c] = "writing" /\ c \notin early \cup handled) =>
           conversion[c] = "APPROVED"
    /\ conversion[c] \in {"REFUNDED", "CHARGEBACK"} => refunded[c] = Price
    /\ (conversion[c] = "APPROVED" /\ call[c] = "none"
            /\ c \notin unearned \cup handled) => made[c] > 0

Inv == TypeOK /\ \A c \in Conversions : Sound(c)

\* A step does nothing to the other conversions but note their history.
SameBut(c) ==
    /\ \A d \in Conversions \ {c} :
          /\ conversion'[d] = conversion[d]
          /\ refunded'[d] = refunded[d]
          /\ call'[d] = call[d]
          /\ made'[d] = made[d]
    /\ early' \ {c} = early \ {c}
    /\ handled \subseteq handled'
    /\ unearned \subseteq unearned'

-----------------------------------------------------------------------------
\* A commission is named by its conversion and its number.
LEMMA CommissionParts ==
    /\ \A k \in Commissions : k[1] \in Conversions
    /\ \A c \in Conversions, n \in 1..MaxCommissions : <<c, n>> \in Commissions
BY DEF Commissions

\* A conversion that has a commission has a first one.
LEMMA FirstRecorded ==
    ASSUME TypeOK, NEW c \in Conversions, made[c] # 0
    PROVE  First(c) \in Commissions
<1>1. made[c] \in 0..MaxCommissions /\ MaxCommissions \in Nat
  BY ConversionsAssumption DEF TypeOK
<1> QED
  BY <1>1, CommissionParts DEF First

\* Recording a commission keeps the types and counts one more commission.
LEMMA RecordType ==
    ASSUME TypeOK, NEW c \in Conversions, RecordCommission(c)
    PROVE  /\ made' \in [Conversions -> 0..MaxCommissions]
           /\ status' \in [Commissions -> ConversionStatus \cup {"NONE"}]
           /\ approval' \in [Commissions -> Approval]
           /\ amount' \in [Commissions -> Nat]
           /\ reversed' \in [Commissions -> Nat]
           /\ due' \in [Commissions -> Nat]
           /\ credited' \in [Commissions -> Nat]
           /\ debited' \in [Commissions -> Int]
           /\ made' = [made EXCEPT ![c] = @ + 1]
<1> USE ConversionsAssumption DEF TypeOK
<1>1. PICK earned \in Earnings :
        LET k == <<c, made[c] + 1>>
        IN  /\ made' = [made EXCEPT ![c] = @ + 1]
            /\ status' = [status EXCEPT ![k] = "APPROVED"]
            /\ amount' = [amount EXCEPT ![k] = earned]
            /\ due' = [due EXCEPT ![k] = earned]
            /\ UNCHANGED <<approval, reversed, credited, debited>>
  BY DEF RecordCommission
<1>2. earned \in Nat
  BY <1>1
<1>3. made[c] + 1 \in 0..MaxCommissions
  BY DEF RecordCommission
<1> QED
  BY <1>1, <1>2, <1>3 DEF ConversionStatus

\* A refund of what is refundable stays within the price and keeps the types.
LEMMA RefundType ==
    ASSUME TypeOK, NEW c \in Conversions, NEW x \in Refundable(c),
           RefundConversion(c, x)
    PROVE  TypeOK'
<1> USE ConversionsAssumption DEF TypeOK
<1> DEFINE k == First(c)
           share == IF made[c] = 0 THEN 0
                    ELSE Capped(Round(amount[k] * x, Price), amount[k] - reversed[k])
<1>1. x \in Int /\ refunded[c] + x \in 0..Price
  BY DEF Refundable
<1>2. refunded' = [refunded EXCEPT ![c] = @ + x]
  BY DEF RefundConversion
<1>3. /\ refunds' = [refunds EXCEPT ![c] = @ + 1]
      /\ conversion' \in [Conversions -> ConversionStatus \cup {"NONE"}]
      /\ early' \in SUBSET Conversions
  BY DEF RefundConversion, NoteEarly, ConversionStatus
<1>4. /\ reversed' \in [Commissions -> Nat]
      /\ status' \in [Commissions -> ConversionStatus \cup {"NONE"}]
      /\ debited' \in [Commissions -> Int]
  <2>1. CASE share > 0
    <3>1. share \in Int
      <4>1. made[c] # 0 => k \in Commissions
        BY CommissionParts DEF First
      <4>2. made[c] # 0 => amount[k] \in Nat /\ reversed[k] \in Nat
        BY <4>1
      <4>3. made[c] # 0 => Round(amount[k] * x, Price) \in Int
        BY <4>2, <1>1 DEF Round
      <4> QED
        BY <4>2, <4>3 DEF Capped
    <3>2. /\ reversed' = [reversed EXCEPT ![k] = @ + share]
          /\ status' = [status EXCEPT ![k] =
                           IF reversed[k] + share >= amount[k]
                           THEN "REFUNDED" ELSE "PARTIALLY_REFUNDED"]
          /\ debited' = [debited EXCEPT ![k] = @ + share]
      BY <2>1 DEF RefundConversion
    <3>3. \A n \in Nat : n + share \in Nat
      BY <2>1, <3>1
    <3>4. \A n \in Int : n + share \in Int
      BY <3>1
    <3> HIDE DEF share
    <3>5. reversed' \in [Commissions -> Nat]
      BY <3>2, <3>3
    <3>6. status' \in [Commissions -> ConversionStatus \cup {"NONE"}]
      BY <3>2 DEF ConversionStatus
    <3>7. debited' \in [Commissions -> Int]
      BY <3>2, <3>4
    <3> QED
      BY <3>5, <3>6, <3>7
  <2>2. CASE ~(share > 0)
    BY <2>2 DEF RefundConversion
  <2> QED
    BY <2>1, <2>2
<1> QED
  BY <1>1, <1>2, <1>3, <1>4 DEF RefundConversion

\* Every step keeps every variable in its type: a conversion is never refunded
\* beyond its price, and the commission of a conversion never gets a status, an
\* amount or a reversal the code cannot read back.
LEMMA TypeStep == TypeOK /\ [Next]_vars => TypeOK'
<1> SUFFICES ASSUME TypeOK, [Next]_vars PROVE TypeOK'
  OBVIOUS
<1> USE ConversionsAssumption
    DEF TypeOK, ConversionStatus, ReviewStatus, Approval,
        conversionVars, commissionVars, ledgerVars, historyVars
<1>1. ASSUME NEW c \in Conversions,
             CreateConversion(c) \/ FraudCheckFlags(c) \/ ApplyFlag(c)
               \/ CreateManualConversion(c)
      PROVE  TypeOK'
  BY <1>1 DEF CreateConversion, FraudCheckFlags, ApplyFlag, CreateManualConversion
<1>2. ASSUME NEW c \in Conversions, FraudCheckAllows(c) PROVE TypeOK'
  <2>1. CASE active
    BY <1>2, <2>1, RecordType DEF FraudCheckAllows
  <2>2. CASE ~active
    BY <1>2, <2>2 DEF FraudCheckAllows
  <2> QED
    BY <2>1, <2>2
<1>3. ASSUME NEW c \in Conversions, ManualConversionWritten(c) PROVE TypeOK'
  BY <1>3, RecordType DEF ManualConversionWritten
<1>4. ASSUME NEW c \in Conversions, NEW x \in Refundable(c), RefundConversion(c, x)
      PROVE  TypeOK'
  BY <1>4, RefundType
<1>5. ASSUME NEW c \in Conversions, ApproveConversion(c) PROVE TypeOK'
  <2>1. CASE Earns(c)
    BY <1>5, <2>1, RecordType DEF ApproveConversion, NoteEarly
  <2>2. CASE ~Earns(c)
    BY <1>5, <2>2 DEF ApproveConversion, NoteEarly
  <2> QED
    BY <2>1, <2>2
<1>6. ASSUME NEW c \in Conversions, RejectConversion(c) PROVE TypeOK'
  <2>1. CASE made[c] > 0
    <3>1. First(c) \in Commissions
      BY <2>1, CommissionParts DEF First
    <3>2. amount[First(c)] \in Nat /\ debited' \in [Commissions -> Int]
      BY <1>6, <2>1, <3>1 DEF RejectConversion, ClawedBack
    <3> QED
      BY <1>6, <2>1, <3>2 DEF RejectConversion, NoteEarly
  <2>2. CASE ~(made[c] > 0)
    BY <1>6, <2>2 DEF RejectConversion, NoteEarly
  <2> QED
    BY <2>1, <2>2
<1>7. ASSUME NEW c \in Conversions, NEW d \in {"APPROVED", "REJECTED", "ESCALATED"},
             ResolveReview(c, d)
      PROVE  TypeOK'
  <2>1. CASE EarnsByReview(c, d)
    BY <1>7, <2>1, RecordType DEF ResolveReview, NoteEarly
  <2>2. CASE ~EarnsByReview(c, d)
    BY <1>7, <2>2 DEF ResolveReview, NoteEarly
  <2> QED
    BY <2>1, <2>2
<1>8. ASSUME SetAffiliateStatus \/ \E c \in Conversions : AssignReview(c)
      PROVE  TypeOK'
  <2>1. CASE SetAffiliateStatus
    <3>1. active' = TRUE \/ active' = FALSE
      BY <2>1, Zenon DEF SetAffiliateStatus
    <3> QED
      BY <2>1, <3>1 DEF SetAffiliateStatus
  <2>2. ASSUME NEW c \in Conversions, AssignReview(c) PROVE TypeOK'
    BY <2>2 DEF AssignReview
  <2> QED
    BY <1>8, <2>1, <2>2
<1>9. ASSUME NEW k \in Commissions, ApproveCommission(k) \/ RejectCommission(k)
      PROVE  TypeOK'
  <2>1. CASE ApproveCommission(k)
    <3>1. credited' \in [Commissions -> Nat]
      BY <2>1 DEF ApproveCommission
    <3> QED
      BY <2>1, <3>1, CommissionParts DEF ApproveCommission, Desk
  <2>2. CASE RejectCommission(k)
    BY <2>2, CommissionParts DEF RejectCommission, Desk
  <2> QED
    BY <1>9, <2>1, <2>2
<1>10. ASSUME NEW k \in Commissions, NEW delta \in {1, -1}, AdjustCommission(k, delta)
       PROVE  TypeOK'
  <2>1. amount' \in [Commissions -> Nat]
    BY <1>10 DEF AdjustCommission
  <2>2. debited' \in [Commissions -> Int]
    BY <1>10 DEF AdjustCommission
  <2> QED
    BY <1>10, <2>1, <2>2, CommissionParts DEF AdjustCommission, Desk
<1>11. ASSUME NEW newAmount \in Earnings, RetroactiveAdjustment(newAmount)
       PROVE  TypeOK'
  <2>1. newAmount \in Nat
    OBVIOUS
  <2>2. debited' \in [Commissions -> Int]
    BY <1>11, <2>1 DEF RetroactiveAdjustment
  <2>3. handled' \in SUBSET Conversions
    BY <1>11, CommissionParts DEF RetroactiveAdjustment
  <2> QED
    BY <1>11, <2>2, <2>3 DEF RetroactiveAdjustment
<1>12. ASSUME NEW c \in Conversions, NEW s \in ConversionStatus,
              AdminSetConversion(c, s)
       PROVE  TypeOK'
  <2>1. /\ status' \in [Commissions -> ConversionStatus \cup {"NONE"}]
        /\ approval' \in [Commissions -> Approval]
        /\ reversed' \in [Commissions -> Nat]
    BY <1>12 DEF AdminSetConversion, WriteStatus
  <2> QED
    BY <1>12, <2>1 DEF AdminSetConversion
<1>13. ASSUME NEW k \in Commissions, NEW s \in ConversionStatus,
              AdminSetCommission(k, s)
       PROVE  TypeOK'
  <2>1. /\ status' \in [Commissions -> ConversionStatus \cup {"NONE"}]
        /\ approval' \in [Commissions -> Approval]
        /\ reversed' \in [Commissions -> Nat]
    BY <1>13 DEF AdminSetCommission, WriteStatus
  <2> QED
    BY <1>13, <2>1, CommissionParts DEF AdminSetCommission, Desk
<1>14. ASSUME NEW k \in Commissions, RecalculateCommission(k) PROVE TypeOK'
  BY <1>14, CommissionParts DEF RecalculateCommission, Desk
<1>15. ASSUME NEW k \in Commissions, PostEarned(k) PROVE TypeOK'
  BY <1>15 DEF PostEarned
<1>16. CASE UNCHANGED vars
  BY <1>16 DEF vars
<1> HIDE ConversionsAssumption
    DEF TypeOK, ConversionStatus, ReviewStatus, Approval,
        conversionVars, commissionVars, ledgerVars, historyVars
<1>17. CASE Api \/ Merchant
  BY <1>17, <1>1, <1>4, <1>5, <1>6 DEF Api, Merchant
<1>18. CASE Analyst
  BY <1>18, <1>7, <1>8 DEF Analyst
<1>19. CASE CommissionDesk
  BY <1>19, <1>9, <1>10, <1>11 DEF CommissionDesk
<1>20. CASE Admin
  BY <1>20, <1>12, <1>13, <1>14 DEF Admin
<1>21. CASE \E c \in Conversions : Continue(c)
  BY <1>21, <1>1, <1>2, <1>3 DEF Continue
<1> QED
  BY <1>15, <1>16, <1>17, <1>18, <1>19, <1>20, <1>21 DEF Next

\* Every variable keeps its type in every reachable state; a conversion is never
\* refunded beyond its amount, by refundConversion and admins together.
THEOREM TypeCorrect == Safety => []TypeOK
<1>1. Init => TypeOK
  BY ConversionsAssumption
  DEF Init, TypeOK, ConversionStatus, ReviewStatus, Approval
<1> QED
  BY <1>1, TypeStep, PTL DEF Safety

-----------------------------------------------------------------------------
\* Histories grow, so what a step leaves alone stays sound.
LEMMA OthersSound ==
    ASSUME NEW c \in Conversions, SameBut(c),
           NEW d \in Conversions \ {c}, Sound(d)
    PROVE  Sound(d)'
BY DEF SameBut, Sound, InCreation

\* A step that changes neither a conversion nor its number of commissions.
LEMMA HistorySound ==
    ASSUME UNCHANGED <<conversion, refunded, call, made, early, unearned>>,
           handled \subseteq handled',
           NEW c \in Conversions, Sound(c)
    PROVE  Sound(c)'
BY DEF Sound, InCreation

\* The handlers that create a conversion, before, between and after their awaits.
LEMMA CreationSound ==
    ASSUME Inv, NEW c \in Conversions, CreateConversion(c) \/ CreateManualConversion(c) \/ Continue(c)
    PROVE  SameBut(c) /\ Sound(c)'
<1> USE DEF Inv, TypeOK, conversionVars, commissionVars, ledgerVars, historyVars
<1>1. CASE CreateConversion(c)
  BY <1>1 DEF CreateConversion, SameBut, Sound, InCreation
<1>2. CASE CreateManualConversion(c)
  BY <1>2 DEF CreateManualConversion, SameBut, Sound, InCreation
<1>3. CASE FraudCheckFlags(c)
  BY <1>3 DEF FraudCheckFlags, SameBut, Sound, InCreation
<1>4. CASE ApplyFlag(c)
  BY <1>4 DEF ApplyFlag, SameBut, Sound, InCreation
<1>5. CASE FraudCheckAllows(c)
  <2>1. CASE active
    <3>1. made' = [made EXCEPT ![c] = @ + 1]
      BY <1>5, <2>1, RecordType DEF FraudCheckAllows
    <3> QED
      BY <1>5, <2>1, <3>1 DEF FraudCheckAllows, SameBut, Sound, InCreation
  <2>2. CASE ~active
    BY <1>5, <2>2 DEF FraudCheckAllows, SameBut, Sound, InCreation
  <2> QED
    BY <2>1, <2>2
<1>6. CASE ManualConversionWritten(c)
  <2>1. made' = [made EXCEPT ![c] = @ + 1]
    BY <1>6, RecordType DEF ManualConversionWritten
  <2> QED
    BY <1>6, <2>1 DEF ManualConversionWritten, SameBut, Sound, InCreation
<1> QED
  BY <1>1, <1>2, <1>3, <1>4, <1>5, <1>6 DEF Continue

\* Refunds and the decisions on a conversion, by a merchant or in a fraud review.
LEMMA DecisionSound ==
    ASSUME Inv, NEW c \in Conversions,
           \/ \E x \in Refundable(c) : RefundConversion(c, x)
           \/ ApproveConversion(c)
           \/ RejectConversion(c)
           \/ \E d \in {"APPROVED", "REJECTED", "ESCALATED"} : ResolveReview(c, d)
    PROVE  SameBut(c) /\ Sound(c)'
<1> USE DEF Inv, TypeOK, conversionVars, commissionVars, ledgerVars, historyVars,
            NoteEarly
<1>1. ASSUME NEW x \in Refundable(c), RefundConversion(c, x)
      PROVE  SameBut(c) /\ Sound(c)'
  <2>1. x \in Int /\ refunded[c] + x <= Price
    BY ConversionsAssumption DEF Refundable
  <2>2. /\ refunded' = [refunded EXCEPT ![c] = refunded[c] + x]
        /\ conversion' = [conversion EXCEPT ![c] =
                              IF refunded[c] + x >= Price THEN "REFUNDED"
                              ELSE "PARTIALLY_REFUNDED"]
        /\ early' = IF made[c] = 0 THEN early \cup {c} ELSE early
        /\ UNCHANGED <<call, made, handled, unearned>>
    BY <1>1 DEF RefundConversion
  <2>3. conversion[c] # "NONE"
    BY <1>1 DEF RefundConversion
  <2> QED
    BY <2>1, <2>2, <2>3, ConversionsAssumption DEF SameBut, Sound, InCreation
<1>2. CASE ApproveConversion(c)
  <2>1. CASE Earns(c)
    <3>1. made' = [made EXCEPT ![c] = @ + 1]
      BY <1>2, <2>1, RecordType DEF ApproveConversion
    <3> QED
      BY <1>2, <2>1, <3>1 DEF ApproveConversion, Earns, SameBut, Sound, InCreation
  <2>2. CASE ~Earns(c)
    BY <1>2, <2>2 DEF ApproveConversion, Earns, SameBut, Sound, InCreation
  <2> QED
    BY <2>1, <2>2
<1>3. CASE RejectConversion(c)
  BY <1>3 DEF RejectConversion, SameBut, Sound, InCreation
<1>4. ASSUME NEW d \in {"APPROVED", "REJECTED", "ESCALATED"}, ResolveReview(c, d)
      PROVE  SameBut(c) /\ Sound(c)'
  <2>1. CASE EarnsByReview(c, d)
    <3>1. made' = [made EXCEPT ![c] = @ + 1]
      BY <1>4, <2>1, RecordType DEF ResolveReview
    <3> QED
      BY <1>4, <2>1, <3>1
      DEF ResolveReview, EarnsByReview, Earns, SameBut, Sound, InCreation
  <2>2. CASE ~EarnsByReview(c, d)
    BY <1>4, <2>2
    DEF ResolveReview, EarnsByReview, Earns, SameBut, Sound, InCreation
  <2> QED
    BY <2>1, <2>2
<1> QED
  BY <1>1, <1>2, <1>3, <1>4

\* Every step keeps every conversion sound.
LEMMA InvStep == Inv /\ [Next]_vars => Inv'
<1> SUFFICES ASSUME Inv, [Next]_vars, NEW d \in Conversions PROVE Sound(d)'
  BY TypeStep DEF Inv
<1>1. Sound(d)
  BY DEF Inv
<1>2. ASSUME NEW c \in Conversions, SameBut(c) /\ Sound(c)' PROVE Sound(d)'
  BY <1>1, <1>2, OthersSound
<1>3. CASE Api
  BY <1>3, <1>2, CreationSound, DecisionSound DEF Api
<1>4. CASE Merchant
  BY <1>4, <1>2, CreationSound, DecisionSound DEF Merchant
<1>5. ASSUME NEW c \in Conversions, Continue(c) PROVE Sound(d)'
  BY <1>5, <1>2, CreationSound
<1>6. CASE Analyst
  <2>1. CASE SetAffiliateStatus \/ \E c \in Conversions : AssignReview(c)
    BY <2>1, <1>1, HistorySound
    DEF SetAffiliateStatus, AssignReview, conversionVars, commissionVars, historyVars
  <2> QED
    BY <1>6, <2>1, <1>2, DecisionSound DEF Analyst
<1>7. ASSUME NEW k \in Commissions, Desk(k), UNCHANGED made PROVE Sound(d)'
  BY <1>7, <1>1, HistorySound DEF Desk, conversionVars
<1>8. CASE CommissionDesk
  <2>1. ASSUME NEW newAmount \in Earnings, RetroactiveAdjustment(newAmount)
        PROVE  Sound(d)'
    BY <2>1, <1>1, HistorySound
    DEF RetroactiveAdjustment, conversionVars, commissionVars
  <2>2. ASSUME NEW k \in Commissions,
               \/ ApproveCommission(k) \/ RejectCommission(k)
               \/ \E delta \in {1, -1} : AdjustCommission(k, delta)
        PROVE  Desk(k) /\ UNCHANGED made
    BY <2>2 DEF ApproveCommission, RejectCommission, AdjustCommission, Desk
  <2> QED
    BY <1>8, <1>7, <2>1, <2>2 DEF CommissionDesk
<1>9. ASSUME NEW c \in Conversions, NEW s \in ConversionStatus,
             AdminSetConversion(c, s)
      PROVE  Sound(d)'
  <2>1. SameBut(c)
    BY <1>9 DEF AdminSetConversion, SameBut, Inv, TypeOK
  <2>2. Sound(c)
    BY DEF Inv
  <2>3. Sound(c)'
    BY <1>9, <2>2
    DEF AdminSetConversion, ConversionStatus, Sound, InCreation, Inv, TypeOK
  <2> QED
    BY <1>2, <2>1, <2>3
<1>10. CASE Admin
  <2>1. ASSUME NEW k \in Commissions, NEW s \in ConversionStatus,
               AdminSetCommission(k, s) \/ RecalculateCommission(k)
        PROVE  Desk(k) /\ UNCHANGED made
    BY <2>1 DEF AdminSetCommission, RecalculateCommission, Desk
  <2> QED
    BY <1>10, <1>7, <1>9, <2>1 DEF Admin
<1>11. CASE (\E k \in Commissions : PostEarned(k)) \/ UNCHANGED vars
  BY <1>11, <1>1, HistorySound
  DEF PostEarned, vars, conversionVars, commissionVars, historyVars
<1> QED
  BY <1>3, <1>4, <1>5, <1>6, <1>8, <1>10, <1>11 DEF Next

\* Every conversion is sound in every reachable state.
THEOREM InvHolds == Safety => []Inv
<1>1. Init => Inv
  BY ConversionsAssumption
  DEF Init, Inv, Sound, InCreation, TypeOK, ConversionStatus, ReviewStatus, Approval
<1> QED
  BY <1>1, InvStep, PTL DEF Safety

-----------------------------------------------------------------------------
\* Three handlers may record the commission of a conversion; in every interleaving
\* it earns one, at most two if it is acted on while the handler that creates it
\* waits.
THEOREM AtMostOne == Safety => []OneCommission
<1>1. Inv => OneCommission
  BY DEF Inv, Sound, OneCommission
<1> QED
  BY <1>1, InvHolds, PTL

\* REFUNDED and CHARGEBACK mean refunded in full, whoever wrote them.
THEOREM FullRefund == Safety => []RefundedInFull
<1>1. Inv => RefundedInFull
  BY DEF Inv, Sound, RefundedInFull
<1> QED
  BY <1>1, InvHolds, PTL

\* Whichever handler approves a conversion of an active affiliate, the conversion
\* has its commission when the handler is done.
THEOREM ApprovedEarns == Safety => []ApprovedHasCommission
<1>1. Inv => ApprovedHasCommission
  BY DEF Inv, Sound, ApprovedHasCommission
<1> QED
  BY <1>1, InvHolds, PTL

\* Nobody earns for a conversion that is not approved at that moment, although the
\* commission of a conversion created by hand is recorded after an await.
THEOREM EarnsForApproved == Safety => EarnsWhenApproved
<1> DEFINE Approved(c) == made'[c] > made[c] => conversion'[c] = "APPROVED"
           ApprovedAll == \A c \in Conversions \ (early' \cup handled) : Approved(c)
<1>1. Inv /\ [Next]_vars => [ApprovedAll]_vars
  <2> SUFFICES ASSUME Inv, Next, NEW d \in Conversions \ (early' \cup handled)
               PROVE  Approved(d)
    OBVIOUS
  <2>1. made[d] \in Int
    BY DEF Inv, TypeOK
  <2>2. ASSUME UNCHANGED made PROVE Approved(d)
    BY <2>1, <2>2
  <2>3. ASSUME NEW c \in Conversions, SameBut(c),
               c # d \/ (made'[c] # made[c] => conversion'[c] = "APPROVED")
        PROVE  Approved(d)
    BY <2>1, <2>3 DEF SameBut
  <2>4. ASSUME NEW c \in Conversions, CreateConversion(c) \/ CreateManualConversion(c)
                 \/ FraudCheckFlags(c) \/ ApplyFlag(c) \/ RejectConversion(c)
        PROVE  UNCHANGED made
    BY <2>4 DEF CreateConversion, CreateManualConversion, FraudCheckFlags, ApplyFlag,
                RejectConversion, commissionVars
  <2>5. ASSUME NEW c \in Conversions, NEW x \in Refundable(c), RefundConversion(c, x)
        PROVE  UNCHANGED made
    BY <2>5 DEF RefundConversion
  <2>6. ASSUME NEW c \in Conversions, FraudCheckAllows(c) \/ ApproveConversion(c)
        PROVE  conversion'[c] = "APPROVED"
    BY <2>6 DEF FraudCheckAllows, ApproveConversion, Inv, TypeOK
  <2>7. ASSUME ManualConversionWritten(d) PROVE conversion'[d] = "APPROVED"
    <3>1. early' = early /\ handled' = handled /\ conversion' = conversion
          /\ call[d] = "writing"
      BY <2>7 DEF ManualConversionWritten, historyVars
    <3> QED
      BY <3>1 DEF Inv, Sound
  <2>8. ASSUME NEW c \in Conversions,
               NEW decision \in {"APPROVED", "REJECTED", "ESCALATED"},
               ResolveReview(c, decision)
        PROVE  made'[c] # made[c] => conversion'[c] = "APPROVED"
    <3>1. CASE EarnsByReview(c, decision)
      BY <2>8, <3>1 DEF ResolveReview, EarnsByReview, Inv, TypeOK
    <3>2. CASE ~EarnsByReview(c, decision)
      BY <2>8, <3>2 DEF ResolveReview, commissionVars
    <3> QED
      BY <3>1, <3>2
  <2>9. ASSUME SetAffiliateStatus \/ (\E c \in Conversions : AssignReview(c))
                 \/ CommissionDesk \/ Admin \/ (\E k \in Commissions : PostEarned(k))
        PROVE  UNCHANGED made
    BY <2>9
    DEF SetAffiliateStatus, AssignReview, PostEarned, commissionVars,
        CommissionDesk, RetroactiveAdjustment, ApproveCommission, RejectCommission,
        AdjustCommission, Desk, Admin, AdminSetConversion, AdminSetCommission,
        RecalculateCommission
  <2> HIDE DEF Approved
  <2>10. CASE Api
    BY <2>10, <2>2, <2>4, <2>5 DEF Api
  <2>11. CASE Merchant
    BY <2>11, <2>2, <2>3, <2>4, <2>6, DecisionSound DEF Merchant
  <2>12. CASE Analyst
    BY <2>12, <2>2, <2>3, <2>8, <2>9, DecisionSound DEF Analyst
  <2>13. ASSUME NEW c \in Conversions, Continue(c) PROVE Approved(d)
    BY <2>13, <2>2, <2>3, <2>4, <2>6, <2>7, CreationSound DEF Continue
  <2> QED
    BY <2>2, <2>9, <2>10, <2>11, <2>12, <2>13 DEF Next
<1> QED
  BY <1>1, InvHolds, PTL DEF Safety, EarnsWhenApproved


-----------------------------------------------------------------------------
(* The ledger and the commissions.                                          *)

\* What division leaves.
LEMMA Quotient ==
    ASSUME NEW m \in Nat, NEW d \in Nat \ {0}
    PROVE  m \div d \in Nat /\ d * (m \div d) <= m /\ m < d * (m \div d) + d
OBVIOUS

\* Rounding is off by half a unit at most.
LEMMA RoundBounds ==
    ASSUME NEW n \in Nat, NEW d \in Nat \ {0}
    PROVE  /\ Round(n, d) \in Nat
           /\ 2 * (Round(n, d) * d) - 2 * n <= d
           /\ -d <= 2 * (Round(n, d) * d) - 2 * n
<1> DEFINE q == (2 * n + d) \div (2 * d)
<1>1. 2 * n + d \in Nat /\ 2 * d \in Nat \ {0}
  OBVIOUS
<1>2. q \in Nat /\ (2 * d) * q <= 2 * n + d /\ 2 * n + d < (2 * d) * q + 2 * d
  BY <1>1, Quotient
<1> HIDE DEF q
<1>3. (2 * d) * q = 2 * (q * d) /\ q * d \in Nat
  BY <1>2
<1> QED BY <1>2, <1>3 DEF q, Round

\* What refunds of f in n pieces reversed of a is off by half a unit for each at most.
WithinHalves(r, a, f, n) == 2 * (r * Price - a * f) \in -(Price * n)..(Price * n)

\* One more refund is off by one more half.
LEMMA RefundWithinHalf ==
    ASSUME NEW r \in Nat, NEW a \in Nat, NEW f \in Nat, NEW n \in Nat, NEW x \in Nat,
           f + x <= Price, r <= a, WithinHalves(r, a, f, n),
           NEW share, share = Capped(Round(a * x, Price), a - r)
    PROVE  share \in Nat /\ share <= a - r /\ WithinHalves(r + share, a, f + x, n + 1)
<1> DEFINE R == Round(a * x, Price)
<1>1. a * x \in Nat /\ a * f \in Nat /\ r * Price \in Nat /\ Price * n \in Nat /\ a * Price \in Nat
  BY ConversionsAssumption
<1>2. R \in Nat /\ 2 * (R * Price) - 2 * (a * x) <= Price /\ -Price <= 2 * (R * Price) - 2 * (a * x)
  BY <1>1, ConversionsAssumption, RoundBounds
<1>3. a * (f + x) = a * f + a * x /\ Price * (n + 1) = Price * n + Price
  BY ConversionsAssumption
<1>4. /\ -(Price * n) <= 2 * (r * Price - a * f)
      /\ 2 * (r * Price - a * f) <= Price * n
  BY <1>1 DEF WithinHalves
<1>5. CASE R < a - r
  <2>1. share = R
    BY <1>5 DEF Capped
  <2> HIDE DEF R
  <2>2. (r + R) * Price = r * Price + R * Price /\ R * Price \in Nat
    BY <1>2, ConversionsAssumption
  <2> QED BY <1>1, <1>2, <1>3, <1>4, <1>5, <2>1, <2>2, ConversionsAssumption DEF WithinHalves
<1>6. CASE ~(R < a - r)
  <2>1. share = a - r /\ share <= R /\ share \in Nat
    BY <1>2, <1>6 DEF Capped
  <2> HIDE DEF R
  <2>2. (r + share) * Price = r * Price + share * Price /\ r + share = a
    BY <2>1, ConversionsAssumption
  <2>3. share * Price <= R * Price /\ R * Price \in Nat /\ share * Price \in Nat
    BY <1>2, <2>1, ConversionsAssumption
  <2>4. a * (f + x) <= a * Price
    BY ConversionsAssumption
  <2> QED BY <1>1, <1>2, <1>3, <1>4, <2>1, <2>2, <2>3, <2>4, ConversionsAssumption DEF WithinHalves
<1> QED BY <1>5, <1>6

\* What the ledger holds for c, that neither the desk nor an admin touched and
\* that nobody interfered with: nothing before the commission is recorded; then
\* what was earned, less the refunds, or less all of it.  The refunds are rounded.
Balanced(c) ==
    LET k == First(c)
    IN  (k \in Commissions /\ c \notin early \cup handled) =>
            /\ made[c] = 0 =>
                   /\ refunded[c] = 0 /\ refunds[c] = 0 /\ rejections[c] = 0
                   /\ credited[k] = 0 /\ due[k] = 0 /\ debited[k] = 0 /\ reversed[k] = 0
            /\ made[c] # 0 =>
                   /\ reversed[k] <= amount[k]
                   /\ credited[k] + due[k] = amount[k]
                   /\ refunds[c] = 0 => reversed[k] = 0
                   /\ rejections[c] = 0 => debited[k] = reversed[k]
                   /\ (rejections[c] = 1 /\ refunds[c] = 0) => debited[k] = amount[k]
                   /\ WithinHalves(reversed[k], amount[k], refunded[c], refunds[c])

\* What Balanced says of c is as before.
SameBalance(c) ==
    /\ made'[c] = made[c] /\ rejections'[c] = rejections[c]
    /\ refunded'[c] = refunded[c] /\ refunds'[c] = refunds[c]
    /\ c \in early => c \in early'
    /\ c \in handled => c \in handled'
    /\ First(c) \in Commissions =>
           LET k == First(c)
           IN  /\ amount'[k] = amount[k] /\ reversed'[k] = reversed[k]
               /\ due'[k] = due[k] /\ credited'[k] = credited[k]
               /\ debited'[k] = debited[k]

\* What is as before stays balanced.
LEMMA BalanceKept ==
    ASSUME NEW c \in Conversions, Balanced(c), SameBalance(c)
    PROVE  Balanced(c)'
BY DEF Balanced, SameBalance, First

\* A commission is recorded with what is still to be posted for it, and touches
\* the entries of no other.
LEMMA RecordBalanced ==
    ASSUME TypeOK, NEW c \in Conversions, RecordCommission(c), made[c] = 0,
           Balanced(c), UNCHANGED <<refunded, refunds, rejections, handled>>, early \subseteq early'
    PROVE  Balanced(c)'
<1> USE ConversionsAssumption DEF TypeOK
<1>1. <<c, 1>> \in Commissions
  BY CommissionParts DEF RecordCommission
<1>2. PICK earned \in Earnings :
        LET k == <<c, made[c] + 1>>
        IN  /\ made' = [made EXCEPT ![c] = @ + 1]
            /\ amount' = [amount EXCEPT ![k] = earned]
            /\ due' = [due EXCEPT ![k] = earned]
            /\ UNCHANGED <<reversed, credited, debited>>
  BY DEF RecordCommission
<1>3. earned \in Nat /\ made[c] + 1 = 1
  BY <1>2
<1>4. /\ made'[c] = 1 /\ amount'[<<c, 1>>] = earned /\ due'[<<c, 1>>] = earned
      /\ reversed' = reversed /\ credited' = credited /\ debited' = debited
  BY <1>1, <1>2, <1>3
<1>5. made[c] = 0 => WithinHalves(0, earned, 0, 0)
  <2>1. 0 * Price = 0 /\ earned * 0 = 0 /\ Price * 0 = 0
    BY <1>3
  <2> QED BY <2>1 DEF WithinHalves
<1> QED
  BY <1>1, <1>3, <1>4, <1>5 DEF Balanced, First

\* A commission that is recorded is none of another conversion.
LEMMA RecordOthers ==
    ASSUME TypeOK, NEW c \in Conversions, NEW d \in Conversions \ {c},
           RecordCommission(c), UNCHANGED <<refunded, refunds, rejections, handled>>,
           early \subseteq early'
    PROVE  SameBalance(d)
<1>1. PICK earned \in Earnings :
        LET k == <<c, made[c] + 1>>
        IN  /\ made' = [made EXCEPT ![c] = @ + 1]
            /\ amount' = [amount EXCEPT ![k] = earned]
            /\ due' = [due EXCEPT ![k] = earned]
            /\ UNCHANGED <<reversed, credited, debited>>
  BY DEF RecordCommission
<1>2. First(d) # <<c, made[c] + 1>>
  BY DEF First
<1> QED
  BY <1>1, <1>2 DEF SameBalance, TypeOK

\* Every handler leaves every conversion balanced, the desk and the admins those they
\* did not act on.
LEMMA BalancedStep ==
    ASSUME Inv, \A c \in Conversions : Balanced(c), Next,
           NEW d \in Conversions
    PROVE  Balanced(d)'
<1> USE DEF Inv, TypeOK
<1>1. Balanced(d)
  OBVIOUS
<1>2. ASSUME SameBalance(d) PROVE Balanced(d)'
  BY <1>1, <1>2, BalanceKept
<1>3. ASSUME NEW c \in Conversions, RecordCommission(c), made[c] = 0 \/ c \in early',
             UNCHANGED <<refunded, refunds, rejections, handled>>, early \subseteq early'
      PROVE  Balanced(d)'
  <2>1. CASE c # d
    BY <2>1, <1>3, <1>2, RecordOthers
  <2>2. CASE c = d /\ made[c] = 0
    BY <2>2, <1>3, <1>1, RecordBalanced
  <2>3. CASE c = d /\ c \in early'
    BY <2>3 DEF Balanced
  <2> QED
    BY <1>3, <2>1, <2>2, <2>3
<1>4. ASSUME d \in early' \cup handled' PROVE Balanced(d)'
  BY <1>4 DEF Balanced
<1>5. ASSUME NEW c \in Conversions, CreateConversion(c) \/ CreateManualConversion(c)
               \/ FraudCheckFlags(c) \/ ApplyFlag(c)
      PROVE  SameBalance(d)
  BY <1>5
  DEF CreateConversion, CreateManualConversion, FraudCheckFlags, ApplyFlag,
      SameBalance, commissionVars, ledgerVars, historyVars
<1>6. ASSUME NEW c \in Conversions, FraudCheckAllows(c) PROVE Balanced(d)'
  <2>1. made[c] = 0 \/ c \in early
    BY <1>6 DEF FraudCheckAllows, Sound, InCreation
  <2>2. UNCHANGED <<refunded, refunds, rejections, handled, early>>
    BY <1>6 DEF FraudCheckAllows
  <2>3. CASE active
    BY <1>6, <1>3, <2>1, <2>2, <2>3 DEF FraudCheckAllows
  <2>4. CASE ~active
    BY <1>6, <1>2, <2>2, <2>4
    DEF FraudCheckAllows, SameBalance, commissionVars, ledgerVars
  <2> QED
    BY <2>3, <2>4
<1>7. ASSUME NEW c \in Conversions, ManualConversionWritten(c) PROVE Balanced(d)'
  <2>1. made[c] = 0 \/ c \in early
    BY <1>7 DEF ManualConversionWritten, Sound, InCreation
  <2> QED
    BY <1>7, <1>3, <2>1 DEF ManualConversionWritten, historyVars
<1>8. ASSUME NEW c \in Conversions, ApproveConversion(c) PROVE Balanced(d)'
  <2>1. CASE Earns(c)
    BY <1>8, <1>3, <2>1 DEF ApproveConversion, Earns, NoteEarly
  <2>2. CASE ~Earns(c)
    BY <1>8, <1>2, <2>2
    DEF ApproveConversion, NoteEarly, SameBalance, commissionVars, ledgerVars
  <2> QED
    BY <2>1, <2>2
<1>9. ASSUME NEW c \in Conversions,
             NEW decision \in {"APPROVED", "REJECTED", "ESCALATED"},
             ResolveReview(c, decision)
      PROVE  Balanced(d)'
  <2>1. CASE EarnsByReview(c, decision)
    BY <1>9, <1>3, <2>1 DEF ResolveReview, EarnsByReview, Earns, NoteEarly
  <2>2. CASE ~EarnsByReview(c, decision)
    BY <1>9, <1>2, <2>2
    DEF ResolveReview, NoteEarly, SameBalance, commissionVars, ledgerVars
  <2> QED
    BY <2>1, <2>2
<1>10. ASSUME NEW c \in Conversions, RejectConversion(c) PROVE Balanced(d)'
  <2>1. CASE made[c] = 0 \/ c # d
    BY <1>10, <1>2, <1>4, <2>1
    DEF RejectConversion, NoteEarly, SameBalance, First
  <2>2. CASE made[c] # 0 /\ c = d
    <3>1. First(c) \in Commissions
      BY <2>2, FirstRecorded
    <3>2. /\ rejections'[c] = rejections[c] + 1
          /\ debited'[First(c)] = debited[First(c)] + amount[First(c)]
          /\ UNCHANGED <<made, refunded, refunds, reversed, amount, due, credited, handled, early>>
      BY <1>10, <2>2, <3>1 DEF RejectConversion, ClawedBack, NoteEarly
    <3>3. /\ rejections[c] \in Nat /\ refunds[c] \in Nat /\ reversed[First(c)] \in Nat
          /\ amount[First(c)] \in Nat /\ debited[First(c)] \in Int
      BY <3>1
    <3> QED
      BY <1>1, <2>2, <3>1, <3>2, <3>3 DEF Balanced
  <2> QED
    BY <2>1, <2>2
<1>11. ASSUME NEW c \in Conversions, NEW x \in Refundable(c), RefundConversion(c, x)
       PROVE  Balanced(d)'
  <2>1. CASE made[c] = 0 \/ c # d
    BY <1>11, <1>2, <1>4, <2>1
    DEF RefundConversion, NoteEarly, SameBalance, First
  <2>2. CASE made[c] # 0 /\ c = d
    <3> DEFINE k == First(c)
               share == Capped(Round(amount[k] * x, Price), amount[k] - reversed[k])
    <3>1. k \in Commissions
      BY <2>2, FirstRecorded
    <3>2. amount[k] \in Nat /\ reversed[k] \in Nat /\ debited[k] \in Int
          /\ refunds[c] \in Nat /\ x \in Int
      BY <3>1, ConversionsAssumption DEF Refundable
    <3>3. d \in early \cup handled
            \/ (reversed[k] <= amount[k] /\ WithinHalves(reversed[k], amount[k], refunded[c], refunds[c]))
      BY <1>1, <2>2, <3>1 DEF Balanced
    <3>4. x \in Nat /\ refunded[c] \in Nat /\ refunded[c] + x <= Price
      BY <3>2, ConversionsAssumption DEF Refundable
    <3>5. d \in early \cup handled
            \/ /\ share \in Nat /\ share <= amount[k] - reversed[k]
               /\ WithinHalves(reversed[k] + share, amount[k], refunded[c] + x, refunds[c] + 1)
      BY <3>2, <3>3, <3>4, RefundWithinHalf
    <3>6. /\ refunds'[c] = refunds[c] + 1 /\ refunded'[c] = refunded[c] + x
          /\ UNCHANGED <<made, amount, due, credited, handled, early, rejections>>
      BY <1>11, <2>2 DEF RefundConversion, NoteEarly
    <3>7. share \in Nat =>
              reversed'[k] = reversed[k] + share /\ debited'[k] = debited[k] + share
      BY <1>11, <2>2, <3>1, <3>2 DEF RefundConversion
    <3> HIDE DEF share
    <3> QED
      BY <1>1, <2>2, <3>1, <3>2, <3>5, <3>6, <3>7 DEF Balanced
  <2> QED
    BY <2>1, <2>2
<1>12. ASSUME NEW k \in Commissions, PostEarned(k) PROVE Balanced(d)'
  <2>1. CASE k # First(d)
    BY <1>12, <1>2, <2>1
    DEF PostEarned, SameBalance, conversionVars, commissionVars, historyVars
  <2>2. CASE k = First(d)
    <3>1. /\ credited'[k] = credited[k] + due[k] /\ due'[k] = 0
          /\ UNCHANGED <<made, refunded, refunds, rejections, early, handled, amount, reversed,
                         debited>>
          /\ due[k] > 0
      BY <1>12 DEF PostEarned, conversionVars, commissionVars, historyVars
    <3>2. credited[k] \in Nat /\ due[k] \in Nat
      OBVIOUS
    <3> QED
      BY <1>1, <2>2, <3>1, <3>2 DEF Balanced
  <2> QED
    BY <2>1, <2>2
<1>13. ASSUME SetAffiliateStatus \/ \E c \in Conversions : AssignReview(c)
       PROVE  SameBalance(d)
  BY <1>13
  DEF SetAffiliateStatus, AssignReview, SameBalance, conversionVars, commissionVars,
      ledgerVars, historyVars
<1>14. ASSUME NEW k \in Commissions,
              \/ ApproveCommission(k) \/ RejectCommission(k)
              \/ \E delta \in {1, -1} : AdjustCommission(k, delta)
              \/ \E s \in ConversionStatus :
                    AdminSetCommission(k, s) \/ RecalculateCommission(k)
       PROVE  Balanced(d)'
  <2>1. handled' = handled \cup {k[1]} /\ UNCHANGED <<conversionVars, made, due, early, rejections>>
    BY <1>14
    DEF ApproveCommission, RejectCommission, AdjustCommission, AdminSetCommission,
        RecalculateCommission, Desk
  <2>2. CASE k[1] = d
    BY <1>4, <2>1, <2>2
  <2>3. CASE k[1] # d
    <3>1. k # First(d)
      BY <2>3 DEF First
    <3>2. First(d) \in Commissions =>
              /\ amount'[First(d)] = amount[First(d)]
              /\ reversed'[First(d)] = reversed[First(d)]
              /\ credited'[First(d)] = credited[First(d)]
              /\ debited'[First(d)] = debited[First(d)]
      BY <1>14, <3>1
      DEF ApproveCommission, RejectCommission, AdjustCommission, AdminSetCommission,
          RecalculateCommission, WriteStatus
    <3> QED
      BY <1>2, <2>1, <3>2 DEF SameBalance, conversionVars
  <2> QED
    BY <2>2, <2>3
<1>15. ASSUME NEW newAmount \in Earnings, RetroactiveAdjustment(newAmount)
       PROVE  Balanced(d)'
  <2> DEFINE raised == {k \in Commissions : /\ k \in Recorded(k[1])
                                            /\ status[k] = "APPROVED"
                                            /\ amount[k] < newAmount}
  <2>1. /\ debited' = [k \in Commissions |->
                          IF k \in raised THEN debited[k] + newAmount - amount[k]
                          ELSE debited[k]]
        /\ handled' = handled \cup {k[1] : k \in raised}
        /\ UNCHANGED <<conversionVars, commissionVars, due, credited, early, rejections>>
    BY <1>15 DEF RetroactiveAdjustment
  <2> HIDE DEF raised
  <2>2. CASE First(d) \in raised
    <3>1. d \in {k[1] : k \in raised}
      BY <2>2 DEF First
    <3> QED
      BY <1>4, <2>1, <3>1
  <2>3. CASE First(d) \notin raised
    BY <1>2, <2>1, <2>3 DEF SameBalance, conversionVars, commissionVars
  <2> QED
    BY <2>2, <2>3
<1>16. ASSUME NEW c \in Conversions, NEW s \in ConversionStatus,
              AdminSetConversion(c, s)
       PROVE  Balanced(d)'
  <2>1. handled' = handled \cup {c} /\ UNCHANGED <<made, amount, ledgerVars, early, rejections>>
        /\ refunds' = [refunds EXCEPT ![c] = IF s = "REFUNDED" THEN @ + 1 ELSE @]
    BY <1>16 DEF AdminSetConversion
  <2>2. CASE c = d
    BY <1>4, <2>1, <2>2
  <2>3. CASE c # d
    <3>1. First(d) \in Commissions => reversed'[First(d)] = reversed[First(d)]
      BY <1>16, <2>3 DEF AdminSetConversion, WriteStatus, Recorded, First
    <3>2. refunded'[d] = refunded[d]
      BY <1>16, <2>3 DEF AdminSetConversion
    <3> QED
      BY <1>2, <2>1, <2>3, <3>1, <3>2 DEF SameBalance, ledgerVars
  <2> QED
    BY <2>2, <2>3
<1> HIDE DEF Inv, TypeOK
<1>17. CASE Api \/ Merchant
  BY <1>17, <1>2, <1>5, <1>8, <1>10, <1>11 DEF Api, Merchant
<1>18. CASE Analyst
  BY <1>18, <1>2, <1>9, <1>13 DEF Analyst
<1>19. CASE CommissionDesk
  BY <1>19, <1>14, <1>15 DEF CommissionDesk
<1>20. CASE Admin
  BY <1>20, <1>14, <1>16 DEF Admin
<1>21. ASSUME NEW c \in Conversions, Continue(c) PROVE Balanced(d)'
  BY <1>21, <1>2, <1>5, <1>6, <1>7 DEF Continue
<1> QED
  BY <1>12, <1>17, <1>18, <1>19, <1>20, <1>21 DEF Next

\* Balanced is inductive next to Inv.
AllBalanced == \A c \in Conversions : Balanced(c)

\* Every conversion is balanced in every reachable state.
LEMMA BalancedHolds == Safety => []AllBalanced
<1>1. Init => AllBalanced
  BY DEF Init, AllBalanced, Balanced
<1>2. Inv /\ AllBalanced /\ [Next]_vars => AllBalanced'
  <2>1. ASSUME UNCHANGED vars, AllBalanced PROVE AllBalanced'
    BY <2>1
    DEF vars, conversionVars, commissionVars, ledgerVars, historyVars, AllBalanced, Balanced
  <2> QED
    BY <2>1, BalancedStep DEF AllBalanced
<1> QED
  BY <1>1, <1>2, InvHolds, PTL DEF Safety

\* The ledger and the commissions agree: through the await between a commission and
\* its posting, and for refunds cut in any way, the ledger holds or is about to
\* hold what the conversion is still worth to the affiliate.
THEOREM LedgerAgreement == Safety => []LedgerAgrees
<1>1. Inv /\ AllBalanced => LedgerAgrees
  <2> SUFFICES ASSUME Inv, AllBalanced, NEW c \in Conversions \ (early \cup handled),
                      made[c] # 0, ~(rejections[c] > 0 /\ (refunds[c] > 0 \/ rejections[c] > 1))
               PROVE  LET k == First(c)
                      IN  /\ reversed[k] <= amount[k]
                          /\ credited[k] + due[k] - debited[k] =
                                 IF rejections[c] = 1 THEN 0 ELSE amount[k] - reversed[k]
    BY DEF LedgerAgrees
  <2>1. First(c) \in Commissions
    BY FirstRecorded DEF Inv
  <2>2. rejections[c] \in Nat /\ refunds[c] \in Nat
        /\ amount[First(c)] \in Nat /\ reversed[First(c)] \in Nat
        /\ credited[First(c)] \in Nat /\ due[First(c)] \in Nat /\ debited[First(c)] \in Int
    BY <2>1 DEF Inv, TypeOK
  <2> QED
    BY <2>1, <2>2 DEF AllBalanced, Balanced
<1> QED
  BY <1>1, InvHolds, BalancedHolds, PTL

\* However many pieces a refund is cut into, each adds at most half a unit to what the
\* commission is reversed by too much or too little.
THEOREM DriftIsBounded == Safety => []RefundDrift
<1>1. Inv /\ AllBalanced => RefundDrift
  <2> SUFFICES ASSUME Inv, AllBalanced, NEW c \in Conversions \ (early \cup handled),
                      made[c] # 0
               PROVE  WithinHalves(reversed[First(c)], amount[First(c)], refunded[c], refunds[c])
    BY DEF RefundDrift, WithinHalves
  <2>1. First(c) \in Commissions
    BY FirstRecorded DEF Inv
  <2> QED
    BY <2>1 DEF AllBalanced, Balanced
<1> QED
  BY <1>1, InvHolds, BalancedHolds, PTL

-----------------------------------------------------------------------------
(* The account of a commission.                                             *)

\* While nobody but fraud analysts acts, the ledger holds, or is about to hold, the
\* amount of every recorded commission, and has taken back what was reversed of it.
Kept(k) ==
    IF k \in Recorded(k[1])
    THEN /\ debited[k] = reversed[k]
         /\ reversed[k] <= amount[k]
         /\ credited[k] + due[k] = amount[k]
    ELSE credited[k] = 0 /\ due[k] = 0 /\ debited[k] = 0 /\ reversed[k] = 0

AllKept ==
    /\ \A k \in Commissions : Kept(k)
    /\ \A c \in Conversions : call[c] # "writing"

\* A step leaves the entries of k alone.
SameEntries(k) ==
    /\ k \in Recorded(k[1])' <=> k \in Recorded(k[1])
    /\ amount'[k] = amount[k] /\ reversed'[k] = reversed[k] /\ due'[k] = due[k]
    /\ credited'[k] = credited[k] /\ debited'[k] = debited[k]

\* What a step may do to the entries of k: record it, post what it earned, or claw
\* back a part of it.
Recording(k) ==
    /\ k \notin Recorded(k[1]) /\ k \in Recorded(k[1])'
    /\ due'[k] > 0 /\ amount'[k] = due'[k]
    /\ reversed'[k] = reversed[k]
    /\ credited'[k] = credited[k] /\ debited'[k] = debited[k]

Posting(k) ==
    /\ k \in Recorded(k[1])' <=> k \in Recorded(k[1])
    /\ due[k] > 0 /\ due'[k] = 0 /\ credited'[k] = credited[k] + due[k]
    /\ amount'[k] = amount[k] /\ reversed'[k] = reversed[k] /\ debited'[k] = debited[k]

Clawing(k) ==
    /\ k \in Recorded(k[1]) /\ k \in Recorded(k[1])'
    /\ \E share \in 1..(amount[k] - reversed[k]) :
          /\ reversed'[k] = reversed[k] + share
          /\ debited'[k] = debited[k] + share
    /\ amount'[k] = amount[k] /\ due'[k] = due[k] /\ credited'[k] = credited[k]

\* Nothing happens to any other commission.
OnlyTo(k) == \A l \in Commissions \ {k} : SameEntries(l)

\* The account of k sees each of these as a step of its own.
LEMMA EntriesStep ==
    ASSUME TypeOK, TypeOK', NEW k \in Commissions, \A l \in Commissions : Kept(l),
           OnlyTo(k), SameEntries(k) \/ Recording(k) \/ Posting(k) \/ Clawing(k)
    PROVE  /\ \A l \in Commissions : Kept(l)'
           /\ [Account!AccountNext]_(Account!accountVars)
<1> DEFINE Phase == [l \in Commissions |->
                        IF l \notin Recorded(l[1]) THEN "none"
                        ELSE IF due[l] > 0 THEN "owed" ELSE "posted"]
           Worth == [l \in Commissions |-> credited[l] + due[l] - debited[l]]
<1>1. ASSUME NEW l \in Commissions, SameEntries(l)
      PROVE  Kept(l)' /\ Phase'[l] = Phase[l] /\ Worth'[l] = Worth[l]
  BY <1>1 DEF SameEntries, Kept
<1>2. /\ amount[k] \in Nat /\ reversed[k] \in Nat /\ due[k] \in Nat
      /\ credited[k] \in Nat /\ debited[k] \in Int /\ due'[k] \in Nat
  BY DEF TypeOK
<1>3. \A l \in Commissions \ {k} : Kept(l)' /\ Phase'[l] = Phase[l] /\ Worth'[l] = Worth[l]
  BY <1>1 DEF OnlyTo
<1>4. CASE SameEntries(k)
  <2>1. \A l \in Commissions : Kept(l)' /\ Phase'[l] = Phase[l] /\ Worth'[l] = Worth[l]
    BY <1>1, <1>3, <1>4
  <2>2. Phase' = Phase /\ Worth' = Worth
    BY <2>1
  <2> QED
    BY <2>1, <2>2 DEF Account!accountVars
<1>5. CASE Recording(k)
  <2>1. Kept(k)' /\ Phase[k] = "none" /\ Phase'[k] = "owed" /\ Worth'[k] > 0
    BY <1>2, <1>5 DEF Recording, Kept
  <2>2. Phase' = [Phase EXCEPT ![k] = "owed"]
    BY <1>3, <2>1
  <2>3. Worth' = [Worth EXCEPT ![k] = Worth'[k]]
    BY <1>3
  <2>4. Account!Earn(k)
    BY <2>1, <2>2, <2>3 DEF Account!Earn
  <2> QED
    BY <1>3, <2>1, <2>4 DEF Account!AccountNext
<1>6. CASE Posting(k)
  <2>1. /\ Kept(k)' /\ Phase[k] = "owed" /\ Phase'[k] = "posted"
        /\ Worth'[k] = Worth[k]
    BY <1>2, <1>6 DEF Posting, Kept
  <2>2. Phase' = [Phase EXCEPT ![k] = "posted"]
    BY <1>3, <2>1
  <2>3. Worth' = Worth
    BY <1>3, <2>1
  <2>4. Account!Post(k)
    BY <2>1, <2>2, <2>3 DEF Account!Post
  <2> QED
    BY <1>3, <2>1, <2>4 DEF Account!AccountNext
<1>7. CASE Clawing(k)
  <2>1. /\ Kept(k)' /\ Phase[k] # "none" /\ Phase'[k] = Phase[k]
        /\ Worth'[k] \in 0..(Worth[k] - 1)
    BY <1>2, <1>7 DEF Clawing, Kept
  <2>2. Phase' = Phase
    BY <1>3, <2>1
  <2>3. Worth' = [Worth EXCEPT ![k] = Worth'[k]]
    BY <1>3
  <2>4. Account!ClawBack(k)
    BY <2>1, <2>2, <2>3 DEF Account!ClawBack
  <2> QED
    BY <1>3, <2>1, <2>4 DEF Account!AccountNext
<1> QED
  BY <1>4, <1>5, <1>6, <1>7

\* Recording the next commission of c is Recording for that one.
LEMMA RecordIsRecording ==
    ASSUME TypeOK, NEW c \in Conversions, RecordCommission(c)
    PROVE  \E k \in Commissions : OnlyTo(k) /\ Recording(k)
<1> USE ConversionsAssumption DEF TypeOK
<1> DEFINE k == <<c, made[c] + 1>>
<1>1. PICK earned \in Earnings :
        /\ made' = [made EXCEPT ![c] = @ + 1]
        /\ amount' = [amount EXCEPT ![k] = earned]
        /\ due' = [due EXCEPT ![k] = earned]
        /\ UNCHANGED <<reversed, credited, debited>>
  BY DEF RecordCommission
<1>2. made[c] \in Nat /\ made[c] < MaxCommissions /\ earned \in Nat \ {0}
  BY DEF RecordCommission
<1>3. k \in Commissions
  BY <1>2, CommissionParts
<1>4. Recording(k)
  <2>1. made'[c] = made[c] + 1
    BY <1>1
  <2>2. k \in Recorded(k[1])' /\ k \notin Recorded(k[1])
    BY <1>2, <2>1 DEF Recorded
  <2> QED
    BY <1>1, <1>2, <1>3, <2>2 DEF Recording
<1>5. OnlyTo(k)
  <2> SUFFICES ASSUME NEW l \in Commissions \ {k} PROVE SameEntries(l)
    BY DEF OnlyTo
  <2>1. PICK d \in Conversions, n \in 1..MaxCommissions : l = <<d, n>>
    BY DEF Commissions
  <2>2. l \in Recorded(l[1])' <=> l \in Recorded(l[1])
    BY <1>1, <1>2, <2>1 DEF Recorded
  <2> QED
    BY <1>1, <2>2 DEF SameEntries
<1> QED
  BY <1>3, <1>4, <1>5

\* A step that touches no commission and no entry is none for any account.
LEMMA SameIsStutter ==
    ASSUME TypeOK, TypeOK', \A l \in Commissions : Kept(l),
           UNCHANGED <<made, amount, reversed, ledgerVars>>
    PROVE  /\ \A l \in Commissions : Kept(l)'
           /\ [Account!AccountNext]_(Account!accountVars)
<1>1. \A l \in Commissions : SameEntries(l)
  BY DEF SameEntries, Recorded, ledgerVars
<1>2. CASE Commissions = {}
  BY <1>2 DEF Account!accountVars
<1>3. ASSUME NEW k \in Commissions
      PROVE  /\ \A l \in Commissions : Kept(l)'
             /\ [Account!AccountNext]_(Account!accountVars)
  BY <1>1, EntriesStep DEF OnlyTo
<1> QED
  BY <1>2, <1>3

\* Of those who act without the merchant, the desk and admins, only those who record,
\* post and refund touch the accounts.
LEMMA AccountImplemented ==
    ASSUME Operators \subseteq {"analyst"}, TypeOK, AllKept, [Next]_vars
    PROVE  AllKept' /\ [Account!AccountNext]_(Account!accountVars)
<1> DEFINE Goal == /\ \A k \in Commissions : Kept(k)'
                   /\ [Account!AccountNext]_(Account!accountVars)
           Calm == \A c \in Conversions : call'[c] # "writing"
<1>1. TypeOK'
  BY TypeStep
<1>2. ASSUME UNCHANGED <<made, amount, reversed, ledgerVars>> PROVE Goal
  BY <1>1, <1>2, SameIsStutter DEF AllKept
<1>3. ASSUME NEW c \in Conversions, RecordCommission(c) PROVE Goal
  BY <1>1, <1>3, RecordIsRecording, EntriesStep DEF AllKept
<1> HIDE DEF Goal
<1> USE DEF conversionVars, commissionVars, ledgerVars, historyVars
<1>4. ASSUME NEW c \in Conversions, CreateConversion(c) PROVE Goal /\ Calm
  BY <1>2, <1>4 DEF CreateConversion, AllKept, TypeOK
<1>5. ASSUME NEW c \in Conversions, NEW x \in Refundable(c), RefundConversion(c, x)
      PROVE  Goal /\ Calm
  <2> DEFINE k == First(c)
             share == IF made[c] = 0 THEN 0
                      ELSE Capped(Round(amount[k] * x, Price), amount[k] - reversed[k])
  <2>1. UNCHANGED <<made, amount, due, credited, call>>
    BY <1>5 DEF RefundConversion
  <2>2. CASE ~(share > 0)
    BY <1>2, <1>5, <2>1, <2>2 DEF RefundConversion, AllKept
  <2>3. CASE share > 0
    <3>1. made[c] # 0 /\ k \in Commissions
      BY <2>3, FirstRecorded
    <3>2. /\ amount[k] \in Nat /\ reversed[k] \in Nat /\ x \in Int
          /\ made[c] \in Nat
      BY <3>1, ConversionsAssumption DEF TypeOK, Refundable
    <3>3. amount[k] * x \in Int
      BY <3>2
    <3>4. share \in 1..(amount[k] - reversed[k])
      BY <2>3, <3>1, <3>2, <3>3, ConversionsAssumption DEF Capped, Round
    <3>5. /\ reversed' = [reversed EXCEPT ![k] = @ + share]
          /\ debited' = [debited EXCEPT ![k] = @ + share]
      BY <1>5, <2>3 DEF RefundConversion
    <3> HIDE DEF share
    <3>6. Recorded(k[1])' = Recorded(k[1]) /\ k \in Recorded(k[1])
      BY <2>1, <3>1, <3>2 DEF Recorded, First
    <3>7. Clawing(k)
      BY <2>1, <3>1, <3>4, <3>5, <3>6 DEF Clawing, TypeOK
    <3>8. OnlyTo(k)
      BY <2>1, <3>1, <3>5 DEF OnlyTo, SameEntries, Recorded, TypeOK
    <3> QED
      BY <1>1, <2>1, <3>1, <3>7, <3>8, EntriesStep DEF Goal, AllKept
  <2> QED
    BY <2>2, <2>3
<1>6. ASSUME SetAffiliateStatus \/ \E c \in Conversions : AssignReview(c)
      PROVE  Goal /\ Calm
  BY <1>2, <1>6 DEF SetAffiliateStatus, AssignReview, AllKept
<1>7. ASSUME NEW c \in Conversions,
             NEW decision \in {"APPROVED", "REJECTED", "ESCALATED"},
             ResolveReview(c, decision)
      PROVE  Goal /\ Calm
  <2>1. CASE EarnsByReview(c, decision)
    BY <1>3, <1>7, <2>1 DEF ResolveReview, AllKept
  <2>2. CASE ~EarnsByReview(c, decision)
    BY <1>2, <1>7, <2>2 DEF ResolveReview, AllKept
  <2> QED
    BY <2>1, <2>2
<1>8. ASSUME NEW c \in Conversions, FraudCheckFlags(c) \/ ApplyFlag(c)
      PROVE  Goal /\ Calm
  BY <1>2, <1>8 DEF FraudCheckFlags, ApplyFlag, AllKept, TypeOK
<1>9. ASSUME NEW c \in Conversions, FraudCheckAllows(c) PROVE Goal /\ Calm
  <2>1. Calm
    BY <1>9 DEF FraudCheckAllows, AllKept, TypeOK
  <2>2. CASE active
    BY <1>3, <1>9, <2>1, <2>2 DEF FraudCheckAllows
  <2>3. CASE ~active
    BY <1>2, <1>9, <2>1, <2>3 DEF FraudCheckAllows
  <2> QED
    BY <2>2, <2>3
<1>10. ASSUME NEW k \in Commissions, PostEarned(k) PROVE Goal /\ Calm
  <2>1. /\ due[k] > 0 /\ due' = [due EXCEPT ![k] = 0]
        /\ credited' = [credited EXCEPT ![k] = @ + due[k]]
        /\ UNCHANGED <<made, amount, reversed, debited, call>>
    BY <1>10 DEF PostEarned
  <2>2. Posting(k) /\ OnlyTo(k)
    BY <2>1 DEF Posting, OnlyTo, SameEntries, Recorded, TypeOK
  <2> QED
    BY <1>1, <2>1, <2>2, EntriesStep DEF Goal, AllKept
<1>11. ASSUME UNCHANGED vars PROVE Goal /\ Calm
  BY <1>2, <1>11 DEF vars, AllKept
<1>12. ~Merchant /\ ~CommissionDesk /\ ~Admin
  BY DEF Merchant, CommissionDesk, Admin
<1>13. \A c \in Conversions : ~ManualConversionWritten(c)
  BY DEF AllKept, ManualConversionWritten
<1> HIDE DEF Calm, conversionVars, commissionVars, ledgerVars, historyVars
<1>14. Goal /\ Calm
  <2>1. CASE Api
    BY <2>1, <1>4, <1>5 DEF Api
  <2>2. CASE Analyst
    BY <2>2, <1>6, <1>7 DEF Analyst
  <2>3. ASSUME NEW c \in Conversions, Continue(c) PROVE Goal /\ Calm
    BY <2>3, <1>8, <1>9, <1>13 DEF Continue
  <2> QED
    BY <1>10, <1>11, <1>12, <2>1, <2>2, <2>3 DEF Next
<1> QED
  BY <1>14 DEF Goal, Calm, AllKept

\* As the affiliate sees it, a commission is recorded with what it is worth, posted to
\* the ledger once, and clawed back by refunds piece by piece and never below nothing,
\* before or after the posting and in every interleaving, as long as fraud analysts
\* are the only ones to decide; that the posting comes is left to TLC.
THEOREM AccountRefined ==
    ASSUME Operators \subseteq {"analyst"}
    PROVE  Safety => Account!AccountSafety
<1>1. Init => AllKept /\ Account!AccountInit
  <2> SUFFICES ASSUME Init PROVE AllKept /\ Account!AccountInit
    OBVIOUS
  <2>1. \A k \in Commissions : k \notin Recorded(k[1])
    BY CommissionParts DEF Init, Recorded
  <2>2. AllKept
    BY <2>1 DEF Init, AllKept, Kept
  <2>3. [k \in Commissions |-> IF k \notin Recorded(k[1]) THEN "none"
                              ELSE IF due[k] > 0 THEN "owed" ELSE "posted"]
          = [k \in Commissions |-> "none"]
    BY <2>1
  <2>4. [k \in Commissions |-> credited[k] + due[k] - debited[k]]
          = [k \in Commissions |-> 0]
    BY DEF Init
  <2> QED
    BY <2>2, <2>3, <2>4 DEF Account!AccountInit
<1>2. TypeOK /\ AllKept /\ [Next]_vars
        => AllKept' /\ [Account!AccountNext]_(Account!accountVars)
  BY AccountImplemented
<1> QED
  BY <1>1, <1>2, TypeCorrect, PTL DEF Safety, Account!AccountSafety

-----------------------------------------------------------------------------
(* Milestones and tiers.                                                     *)


InMulti(c) == evaluation[c].at = "multi"

\* An evaluation that waits in the reward of a milestone names it.
NamesMilestone ==
    \A c \in All : evaluation[c].at \in {"milestone", "multi"} => evaluation[c].on \in Milestones

\* A bonus is for an achievement, and one evaluation at most has it still to post.
BonusOnce ==
    /\ \A k \in Milestones : bonus[k] <= 1 /\ (bonus[k] = 1 => k \in achieved)
    /\ \A c \in All : InMulti(c) => evaluation[c].on \in achieved /\ bonus[evaluation[c].on] = 0
    /\ \A c, d \in All :
          InMulti(c) /\ InMulti(d) /\ evaluation[c].on = evaluation[d].on => c = d

\* An achievement has its bonus, or an evaluation that will post it.
BonusComes ==
    \A k \in achieved \ lost :
        bonus[k] = 1 \/ \E c \in All : evaluation[c] = [at |-> "multi", on |-> k]

\* Above the tier it holds the affiliate fell as often as it rose.
Risen ==
    \A t \in Tiers : /\ promoted[t] <= 1 + fallen[t]
                     /\ tier < t => promoted[t] <= fallen[t]

\* A date that runs, or has passed, is that of the spell that runs.
GraceRuns ==
    ~outlived => /\ grace = "ahead" => below # "none"
                 /\ grace = "past"  => below = "long"

RewardsInv == RewardsTypeOK /\ NamesMilestone /\ BonusOnce /\ BonusComes /\ Risen /\ GraceRuns

-----------------------------------------------------------------------------
(* What a turn of an evaluation does *)

\* A set of naturals has a least element.
LEMMA LeastExists == ASSUME NEW S \in SUBSET Nat, S # {} PROVE \E x \in S : \A y \in S : x =< y
<1> DEFINE R == OpToRel(<, Nat)
<1>1. R = {p \in Nat \X Nat : p[1] < p[2]}
    BY DEF OpToRel
<1>2. IsWellFoundedOn(R, Nat)
    BY NatLessThanWellFounded
<1>3. \E x \in S : \A y \in S : ~(<<y, x>> \in R)
  <2> HIDE DEF R
  <2> QED BY <1>2, WFMin
<1>4. \A x, y \in Nat : y < x => <<y, x>> \in R
  <2> HIDE DEF R
  <2> QED BY <1>1
<1> HIDE DEF R
<1>5. PICK x \in S : \A y \in S : ~(<<y, x>> \in R)
    BY <1>3
<1>6. ASSUME NEW y \in S PROVE x =< y
  <2>1. x \in Nat /\ y \in Nat /\ ~(y < x)
      BY <1>4, <1>5
  <2> QED BY <2>1
<1> QED BY <1>6

\* Min is the least element.
LEMMA Least == ASSUME NEW S \in SUBSET Nat, S # {} PROVE Min(S) \in S
BY LeastExists DEF Min

\* A set of naturals within a bound has a greatest element.
LEMMA Greatest == ASSUME NEW n \in Nat, NEW S \in SUBSET (1..n), S # {} PROVE Max(S) \in S
<1> DEFINE T == {n - x : x \in S}
<1>1. T \in SUBSET Nat
    OBVIOUS
<1>2. T # {}
    OBVIOUS
<1>3. PICK d \in T : \A e \in T : d =< e
    BY <1>1, <1>2, LeastExists
<1>4. PICK x \in S : d = n - x
    OBVIOUS
<1>5. \A y \in S : n - x =< n - y
    BY <1>3, <1>4
<1>6. ASSUME NEW y \in S PROVE x >= y
  <2>1. x \in Nat /\ y \in Nat /\ n - x =< n - y
      BY <1>5
  <2> QED BY <2>1
<1> QED BY <1>6 DEF Max

\* What a turn comes to: a milestone that was not achieved, or one of the four answers
\* about the tier.
Achieves(c) == \E j \in Milestones \ achieved : Achieve(c, j)
Rises(c)    == \E t \in Tiers : t > Current /\ Promote(c, t)
Falls(c)    == \E t \in Tiers : t < Current /\ tier \in Tiers /\ MayFall(c) /\ Demote(c, t)
Stays(c)    == \E m \in Int : Eligible(m) \in Tiers /\ Stay(c, m)
Sinks(c)    == tier \in Tiers /\ StartGrace(c)

\* Every turn comes to one of these.
LEMMA Turn ==
    ASSUME RewardsTypeOK, NEW c \in All, NEW k \in Nat \ {0}, NEW m \in Int, Proceed(c, k, m)
    PROVE  /\ Achieves(c) \/ Rises(c) \/ Falls(c) \/ Stays(c) \/ Sinks(c)
           /\ UNCHANGED <<changes, lost>>
<1>1. Eligible(m) \in Tiers
  <2> DEFINE S == {Default} \cup {t \in Tiers : m >= needed[t]}
  <2>1. S \in SUBSET (1..TopTier) /\ S # {} /\ TopTier \in Nat
      BY RewardsAssumption DEF Tiers, Default
  <2>2. Max(S) \in S
    <3> HIDE DEF S
    <3> QED BY <2>1, Greatest
  <2> QED BY <2>1, <2>2 DEF Eligible, Tiers
<1>2. CASE Reached(k, m) # {}
  <2>1. Reached(k, m) \subseteq Milestones \ achieved /\ Reached(k, m) \in SUBSET Nat
      BY RewardsAssumption DEF Reached, Milestones
  <2>2. Min(Reached(k, m)) \in Milestones \ achieved
      BY <1>2, <2>1, Least
  <2> QED BY <1>2, <2>2 DEF Proceed, Achieves
<1>3. CASE Reached(k, m) = {}
  <2>1. EvaluateTier(c, m) /\ UNCHANGED <<changes, lost>>
      BY <1>3 DEF Proceed
  <2>2. Current \in Tiers /\ (Eligible(m) < Current => tier \in Tiers)
      BY <1>1, RewardsAssumption DEF Current, RewardsTypeOK, Tiers, Default
  <2> QED BY <1>1, <2>1, <2>2 DEF EvaluateTier, Rises, Falls, Stays, Sinks
<1> QED BY <1>2, <1>3

\* A turn of an evaluation that had no bonus to post, after a count or without one.
Turns(c) ==
    /\ Achieves(c) \/ Rises(c) \/ Falls(c) \/ Stays(c) \/ Sinks(c)
    /\ UNCHANGED <<changes, lost>>
    /\ ~InMulti(c)

PerformanceOK ==
    /\ approved \in 0..MaxApproved
    /\ counted \in NoSummary..approved
    /\ needed \in [Tiers -> Nat]

\* The actions that go through the milestones and the tier.
Counting(c) == RecordApprovedConversion(c) \/ CreateLink(c)
Evaluating == \/ Reconcile
              \/ \E c \in Evaluators : Counting(c)
              \/ \E c \in All : MilestoneTold(c)

\* An evaluation that counts, or that goes on after an await, takes its turn.
LEMMA EvaluatingTurns ==
    ASSUME RewardsTypeOK, NamesMilestone, Evaluating
    PROVE  PerformanceOK' /\ \E c \in All : Turns(c)
<1>1. Metric \in Int /\ Reconciler \in All /\ Evaluators \subseteq All
    BY RewardsAssumption DEF Metric, RewardsTypeOK, NoSummary, All
<1>2. ASSUME NEW c \in Evaluators, Counting(c) PROVE PerformanceOK' /\ Turns(c)
  <2>1. PerformanceOK' /\ counted' \in Int
    <3>1. CASE RecordApprovedConversion(c)
        BY <3>1, RewardsAssumption DEF RecordApprovedConversion, RewardsTypeOK, NoSummary, PerformanceOK
    <3>2. CASE CreateLink(c)
        BY <3>2, RewardsAssumption DEF CreateLink, RewardsTypeOK, NoSummary, PerformanceOK
    <3> QED BY <1>2, <3>1, <3>2 DEF Counting
  <2>2. Proceed(c, 1, counted') /\ ~InMulti(c)
      BY <1>2 DEF Counting, RecordApprovedConversion, CreateLink, InMulti, Resting
  <2> QED BY <1>1, <2>1, <2>2, Turn DEF Turns
<1>3. CASE Reconcile
  <2>1. Proceed(Reconciler, 1, Metric) /\ ~InMulti(Reconciler)
      BY <1>3 DEF Reconcile, InMulti, Resting
  <2>2. PerformanceOK'
      BY <1>3 DEF Reconcile, performanceVars, RewardsTypeOK, PerformanceOK
  <2> QED BY <1>1, <2>1, <2>2, Turn DEF Turns
<1>4. ASSUME NEW c \in All, MilestoneTold(c) PROVE PerformanceOK' /\ Turns(c)
  <2>1. evaluation[c].on + 1 \in Nat \ {0}
      BY <1>4, RewardsAssumption DEF MilestoneTold, NamesMilestone, Milestones
  <2>2. Proceed(c, evaluation[c].on + 1, Metric) /\ ~InMulti(c)
      BY <1>4 DEF MilestoneTold, InMulti
  <2>3. PerformanceOK'
      BY <1>4 DEF MilestoneTold, performanceVars, RewardsTypeOK, PerformanceOK
  <2> QED BY <1>1, <2>1, <2>2, <2>3, Turn DEF Turns
<1> QED BY <1>1, <1>2, <1>3, <1>4 DEF Evaluating

-----------------------------------------------------------------------------
(* The parts of the invariant *)

\* The variables keep their types, and a wait for a milestone names it.
Typed == RewardsTypeOK /\ NamesMilestone

Waiting == [at : {"idle", "milestone", "multi", "tier"}, on : {0} \cup Milestones \cup Tiers]

\* A step keeps the types.
LEMMA RewardsTypeStep == Typed /\ [RewardsNext]_rewardVars => Typed'
<1> SUFFICES ASSUME RewardsTypeOK, NamesMilestone, [RewardsNext]_rewardVars
             PROVE  RewardsTypeOK' /\ NamesMilestone'
    BY DEF Typed
<1> USE RewardsAssumption
<1>1. CASE Evaluating
  <2>1. PICK c \in All : Turns(c)
      BY <1>1, EvaluatingTurns
  <2>2. PerformanceOK'
      BY <1>1, EvaluatingTurns
  <2> SUFFICES /\ tier' \in {0} \cup Tiers /\ isLocked' \in BOOLEAN /\ outlived' \in BOOLEAN
               /\ grace' \in {"none", "ahead", "past"} /\ below' \in {"none", "running", "long"}
               /\ achieved' \subseteq Milestones /\ bonus' \in [Milestones -> Nat]
               /\ promoted' \in [Tiers -> Nat] /\ fallen' \in [Tiers -> Nat]
               /\ evaluation' \in [All -> Waiting]
               /\ NamesMilestone'
      BY <2>1, <2>2 DEF Turns, RewardsTypeOK, PerformanceOK, Waiting
  <2> USE DEF RewardsTypeOK, tierVars, tierHistory, bonusVars
  <2>3. ASSUME NEW j \in Milestones \ achieved, Achieve(c, j)
        PROVE  /\ achieved' \subseteq Milestones /\ bonus' \in [Milestones -> Nat]
               /\ evaluation' \in [All -> Waiting] /\ NamesMilestone'
               /\ UNCHANGED <<tier, isLocked, grace, promoted, below, outlived, fallen>>
      BY <2>3 DEF Achieve, NamesMilestone, Waiting
  <2>4. ASSUME NEW t \in Tiers, Promote(c, t)
        PROVE  /\ promoted' \in [Tiers -> Nat]
               /\ evaluation' \in [All -> Waiting] /\ NamesMilestone'
               /\ tier' = t /\ grace' = "none" /\ outlived' = FALSE /\ below' = "none"
               /\ UNCHANGED <<isLocked, achieved, bonus, fallen>>
      BY <2>4 DEF Promote, ClearGrace, NamesMilestone, Waiting
  <2>5. ASSUME NEW t \in Tiers, Demote(c, t)
        PROVE  /\ fallen' \in [Tiers -> Nat]
               /\ evaluation' \in [All -> Waiting] /\ NamesMilestone'
               /\ tier' = t /\ grace' = "none" /\ outlived' = FALSE /\ below' = "none"
               /\ UNCHANGED <<isLocked, achieved, bonus, promoted>>
      BY <2>5 DEF Demote, ClearGrace, NamesMilestone, Waiting
  <2>6. ASSUME Rest(c)
        PROVE  evaluation' \in [All -> Waiting] /\ NamesMilestone'
      BY <2>6 DEF Rest, Resting, NamesMilestone, Waiting
  <2>7. CASE Stays(c)
    <3>1. Current \in Tiers
        BY DEF Current, Tiers, Default
    <3> QED BY <2>6, <2>7, <3>1 DEF Stays, Stay
  <2>8. CASE Sinks(c)
      BY <2>6, <2>8 DEF Sinks, StartGrace
  <2>9. CASE Achieves(c)
      BY <2>3, <2>9 DEF Achieves
  <2>10. CASE Rises(c)
      BY <2>4, <2>10 DEF Rises
  <2>11. CASE Falls(c)
      BY <2>5, <2>11 DEF Falls
  <2> QED BY <2>1, <2>7, <2>8, <2>9, <2>10, <2>11 DEF Turns
<1> USE DEF RewardsTypeOK, NamesMilestone, performanceVars, tierVars, tierHistory, bonusVars
<1>2. ASSUME NEW c \in All, SecondPart(c) PROVE RewardsTypeOK' /\ NamesMilestone'
    BY <1>2 DEF SecondPart
<1>3. ASSUME NEW c \in All, TierTold(c) PROVE RewardsTypeOK' /\ NamesMilestone'
    BY <1>3 DEF TierTold, Rest, Resting
<1>4. CASE ApproveOtherwise
    BY <1>4 DEF ApproveOtherwise, NoSummary
<1>5. CASE GracePasses
    BY <1>5 DEF GracePasses
<1>10. CASE SetLock
  <2>1. isLocked' \in BOOLEAN
      BY <1>10, Zenon DEF SetLock
  <2> QED BY <1>10, <2>1 DEF SetLock, CountAdminStep
<1>6. CASE RestartEvaluations
    BY <1>6 DEF RestartEvaluations, CountAdminStep, Resting
<1>7. ASSUME NEW t \in Tiers, NEW locks \in BOOLEAN, AssignTier(t, locks)
      PROVE  RewardsTypeOK' /\ NamesMilestone'
  <2>1. fallen' \in [Tiers -> Nat]
      BY <1>7 DEF AssignTier
  <2>2. outlived' \in BOOLEAN /\ changes' \in 0..MaxChanges
      BY <1>7 DEF AssignTier, CountAdminStep
  <2> QED BY <1>7, <2>1, <2>2 DEF AssignTier
<1>8. ASSUME NEW t \in Tiers, NEW n \in 0..MaxApproved, UpdateTier(t, n)
      PROVE  RewardsTypeOK' /\ NamesMilestone'
    BY <1>8 DEF UpdateTier, CountAdminStep
<1>9. CASE UNCHANGED rewardVars
    BY <1>9 DEF rewardVars
<1> QED BY <1>1, <1>2, <1>3, <1>4, <1>5, <1>6, <1>7, <1>8, <1>9, <1>10
        DEF RewardsNext, Tell, Evaluating, Counting

\* A bonus is posted once, for an achievement.
LEMMA BonusStep == Typed /\ BonusOnce /\ [RewardsNext]_rewardVars => BonusOnce'
<1> SUFFICES ASSUME RewardsTypeOK, NamesMilestone, BonusOnce, [RewardsNext]_rewardVars
             PROVE  BonusOnce'
    BY DEF Typed
<1> USE DEF RewardsTypeOK, BonusOnce, InMulti, bonusVars
<1>1. CASE Evaluating
  <2>1. PICK c \in All : Turns(c)
      BY <1>1, EvaluatingTurns
  <2>2. ASSUME NEW j \in Milestones \ achieved, Achieve(c, j) PROVE BonusOnce'
    <3>1. \A d \in All : InMulti(d) => evaluation[d].on # j
        OBVIOUS
    <3>2. \A d \in All : d # c => evaluation'[d] = evaluation[d]
        BY <2>2 DEF Achieve
    <3>3. bonus[j] = 0
      <4>1. bonus[j] \in Nat /\ bonus[j] <= 1 /\ bonus[j] # 1
          OBVIOUS
      <4> QED BY <4>1
    <3>4. CASE j \in Multi
      <4>1. bonus' = bonus /\ achieved' = achieved \cup {j} /\ evaluation'[c] = [at |-> "multi", on |-> j]
          BY <2>2, <3>4 DEF Achieve
      <4> QED BY <3>1, <3>2, <3>3, <4>1
    <3>5. CASE j \notin Multi
      <4>1. /\ bonus' = [bonus EXCEPT ![j] = 1] /\ achieved' = achieved \cup {j}
            /\ evaluation'[c].at = "milestone"
          BY <2>2, <3>3, <3>5 DEF Achieve
      <4> QED BY <3>1, <3>2, <4>1
    <3> QED BY <3>4, <3>5
  <2>3. ASSUME UNCHANGED bonusVars /\ \E s : s.at # "multi" /\ evaluation' = [evaluation EXCEPT ![c] = s]
        PROVE  BonusOnce'
      BY <2>3
  <2>4. CASE Rises(c)
      BY <2>4, <2>3 DEF Rises, Promote
  <2>5. CASE Falls(c)
      BY <2>3, <2>5 DEF Falls, Demote
  <2>6. CASE Stays(c) \/ Sinks(c)
      BY <2>3, <2>6 DEF Stays, Stay, Sinks, StartGrace, Rest, Resting
  <2> QED BY <2>1, <2>2, <2>4, <2>5, <2>6 DEF Turns, Achieves
<1>2. ASSUME NEW c \in All, SecondPart(c) PROVE BonusOnce'
  <2>1. InMulti(c) /\ evaluation[c].on \in Milestones
      BY <1>2 DEF SecondPart, NamesMilestone
  <2>2. \A d \in All : InMulti(d) /\ d # c => evaluation[d].on # evaluation[c].on
      BY <2>1
  <2>3. bonus' = [bonus EXCEPT ![evaluation[c].on] = 1]
    <3>1. bonus[evaluation[c].on] = 0
        BY <2>1
    <3>2. bonus' = [bonus EXCEPT ![evaluation[c].on] = bonus[evaluation[c].on] + 1]
        BY <1>2 DEF SecondPart
    <3> QED BY <3>1, <3>2
  <2>4. evaluation'[c].at = "milestone" /\ \A d \in All : d # c => evaluation'[d] = evaluation[d]
      BY <1>2 DEF SecondPart
  <2>5. achieved' = achieved
      BY <1>2 DEF SecondPart
  <2> QED BY <2>1, <2>2, <2>3, <2>4, <2>5
<1>3. ASSUME NEW c \in All, TierTold(c) PROVE BonusOnce'
    BY <1>3 DEF TierTold, Rest, Resting
<1>4. CASE RestartEvaluations
    BY <1>4 DEF RestartEvaluations, Resting
<1>5. CASE UNCHANGED <<bonus, achieved, evaluation>>
    BY <1>5
<1>6. CASE \/ ApproveOtherwise \/ GracePasses \/ SetLock \/ UNCHANGED rewardVars
           \/ \E t \in Tiers : \E locks \in BOOLEAN : AssignTier(t, locks)
           \/ \E t \in Tiers : \E n \in 0..MaxApproved : UpdateTier(t, n)
    BY <1>5, <1>6 DEF ApproveOtherwise, GracePasses, SetLock, AssignTier, UpdateTier, rewardVars
<1> QED BY <1>1, <1>2, <1>3, <1>4, <1>6 DEF RewardsNext, Tell, Evaluating, Counting

\* An achievement keeps its bonus, or the evaluation that will post it.
LEMMA ComesStep == Typed /\ BonusOnce /\ BonusComes /\ [RewardsNext]_rewardVars => BonusComes'
<1> SUFFICES ASSUME RewardsTypeOK, NamesMilestone, BonusOnce, BonusComes, [RewardsNext]_rewardVars
             PROVE  BonusComes'
    BY DEF Typed
<1> USE DEF RewardsTypeOK, BonusComes, InMulti, bonusVars
<1>1. CASE Evaluating
  <2>1. PICK c \in All : Turns(c)
      BY <1>1, EvaluatingTurns
  <2>2. ASSUME NEW s, evaluation' = [evaluation EXCEPT ![c] = s],
               NEW k \in Milestones, NEW d \in All, evaluation[d] = [at |-> "multi", on |-> k]
        PROVE  \E e \in All : evaluation'[e] = [at |-> "multi", on |-> k]
      BY <2>1, <2>2 DEF Turns
  <2>3. ASSUME NEW j \in Milestones \ achieved, Achieve(c, j) PROVE BonusComes'
    <3>1. /\ achieved' = achieved \cup {j} /\ lost' = lost
          /\ \E s : evaluation' = [evaluation EXCEPT ![c] = s]
        BY <2>1, <2>3 DEF Achieve, Turns
    <3>2. \A k \in achieved : bonus'[k] = bonus[k]
        BY <2>3 DEF Achieve
    <3>3. CASE j \in Multi
      <4>1. evaluation'[c] = [at |-> "multi", on |-> j]
          BY <2>3, <3>3 DEF Achieve
      <4> QED BY <2>2, <3>1, <3>2, <4>1
    <3>4. CASE j \notin Multi
      <4>1. bonus[j] = 0
        <5>1. bonus[j] \in Nat /\ bonus[j] <= 1 /\ bonus[j] # 1
            BY DEF BonusOnce
        <5> QED BY <5>1
      <4>2. bonus'[j] = 1
          BY <2>3, <3>4, <4>1 DEF Achieve
      <4> QED BY <2>2, <3>1, <3>2, <4>2
    <3> QED BY <3>3, <3>4
  <2>4. ASSUME UNCHANGED bonusVars, \E s : evaluation' = [evaluation EXCEPT ![c] = s]
        PROVE  BonusComes'
      BY <2>1, <2>2, <2>4 DEF Turns
  <2>5. CASE Rises(c) \/ Falls(c)
    <3>1. UNCHANGED <<achieved, bonus>> /\ \E s : evaluation' = [evaluation EXCEPT ![c] = s]
        BY <2>5 DEF Rises, Falls, Promote, Demote
    <3> QED BY <2>1, <2>2, <3>1 DEF Turns
  <2>6. CASE Stays(c) \/ Sinks(c)
      BY <2>4, <2>6 DEF Stays, Stay, Sinks, StartGrace, Rest
  <2> QED BY <2>1, <2>3, <2>5, <2>6 DEF Turns, Achieves
<1>2. ASSUME NEW c \in All, SecondPart(c) PROVE BonusComes'
  <2>1. InMulti(c) /\ evaluation[c].on \in Milestones /\ bonus[evaluation[c].on] = 0
      BY <1>2 DEF SecondPart, NamesMilestone, BonusOnce
  <2>2. bonus' = [bonus EXCEPT ![evaluation[c].on] = bonus[evaluation[c].on] + 1]
      BY <1>2 DEF SecondPart
  <2>3. bonus' = [bonus EXCEPT ![evaluation[c].on] = 1]
      BY <2>1, <2>2
  <2>4. UNCHANGED <<achieved, lost>> /\ \A d \in All : d # c => evaluation'[d] = evaluation[d]
      BY <1>2 DEF SecondPart
  <2>5. ASSUME NEW k \in achieved \ lost, k # evaluation[c].on
        PROVE  bonus'[k] = 1 \/ \E d \in All : evaluation'[d] = [at |-> "multi", on |-> k]
    <3>1. bonus'[k] = bonus[k]
        BY <2>3, <2>5
    <3>2. ASSUME NEW d \in All, evaluation[d] = [at |-> "multi", on |-> k]
          PROVE  evaluation'[d] = [at |-> "multi", on |-> k]
        BY <2>4, <2>5, <3>2
    <3> QED BY <3>1, <3>2
  <2>6. bonus'[evaluation[c].on] = 1
      BY <2>1, <2>3
  <2> QED BY <2>4, <2>5, <2>6
<1>3. ASSUME NEW c \in All, TierTold(c) PROVE BonusComes'
    BY <1>3 DEF TierTold, Rest, Resting
<1>4. CASE RestartEvaluations
  <2>1. UNCHANGED <<achieved, bonus>>
      BY <1>4 DEF RestartEvaluations
  <2>2. ASSUME NEW k \in achieved \ lost', bonus[k] # 1 PROVE FALSE
    <3>1. k \notin lost
        BY <1>4, <2>2 DEF RestartEvaluations
    <3>2. PICK d \in All : evaluation[d] = [at |-> "multi", on |-> k]
        BY <2>2, <3>1
    <3> QED BY <1>4, <2>2, <3>2 DEF RestartEvaluations
  <2> QED BY <2>1, <2>2
<1>5. CASE UNCHANGED <<bonus, achieved, evaluation, lost>>
    BY <1>5
<1>6. CASE \/ ApproveOtherwise \/ GracePasses \/ SetLock \/ UNCHANGED rewardVars
           \/ \E t \in Tiers : \E locks \in BOOLEAN : AssignTier(t, locks)
           \/ \E t \in Tiers : \E n \in 0..MaxApproved : UpdateTier(t, n)
    BY <1>5, <1>6 DEF ApproveOtherwise, GracePasses, SetLock, AssignTier, UpdateTier, rewardVars
<1> QED BY <1>1, <1>2, <1>3, <1>4, <1>6 DEF RewardsNext, Tell, Evaluating, Counting

\* A promotion is answered by a fall before the next one.
LEMMA RisenStep == Typed /\ Risen /\ [RewardsNext]_rewardVars => Risen'
<1> SUFFICES ASSUME RewardsTypeOK, NamesMilestone, Risen, [RewardsNext]_rewardVars
             PROVE  Risen'
    BY DEF Typed
<1> USE DEF RewardsTypeOK, Risen, tierVars, tierHistory, bonusVars
<1>1. CASE UNCHANGED <<tier, promoted, fallen>>
    BY <1>1
<1>2. CASE Evaluating
  <2>1. PICK c \in All : Turns(c)
      BY <1>2, EvaluatingTurns
  <2>2. ASSUME NEW t \in Tiers, t > Current, Promote(c, t) PROVE Risen'
    <3>1. tier < t /\ tier' = t /\ fallen' = fallen /\ promoted' = [promoted EXCEPT ![t] = @ + 1]
        BY <2>2 DEF Promote, Current, Default, Tiers
    <3>2. promoted[t] <= fallen[t]
        BY <3>1
    <3>3. ASSUME NEW u \in Tiers
          PROVE  promoted'[u] <= 1 + fallen'[u] /\ (tier' < u => promoted'[u] <= fallen'[u])
      <4>1. CASE u = t
        <5>1. promoted'[u] = promoted[u] + 1 /\ fallen'[u] = fallen[u] /\ tier' = u
            BY <3>1, <4>1
        <5>2. promoted[u] \in Nat /\ fallen[u] \in Nat /\ u \in Nat /\ promoted[u] <= fallen[u]
            BY <3>2, <4>1 DEF Tiers
        <5> QED BY <5>1, <5>2
      <4>2. CASE u # t
        <5>1. promoted'[u] = promoted[u] /\ fallen'[u] = fallen[u]
            BY <3>1, <4>2
        <5>2. tier' < u => tier < u
            BY <3>1 DEF Tiers
        <5> QED BY <5>1, <5>2
      <4> QED BY <4>1, <4>2
    <3> QED BY <3>3
  <2>3. ASSUME NEW t \in Tiers, Demote(c, t) PROVE Risen'
    <3>1. /\ tier' = t /\ promoted' = promoted
          /\ \A u \in Tiers : fallen'[u] = IF t < u /\ u <= tier THEN fallen[u] + 1 ELSE fallen[u]
        BY <2>3 DEF Demote
    <3>2. ASSUME NEW u \in Tiers
          PROVE  promoted'[u] <= 1 + fallen'[u] /\ (tier' < u => promoted'[u] <= fallen'[u])
      <4>1. promoted[u] \in Nat /\ fallen[u] \in Nat /\ u \in Int /\ tier \in Int /\ t \in Int
          BY DEF Tiers
      <4>2. promoted[u] <= 1 + fallen[u] /\ (tier < u => promoted[u] <= fallen[u])
          OBVIOUS
      <4> QED BY <3>1, <4>1, <4>2
    <3> QED BY <3>2
  <2>4. CASE Stays(c)
    <3>1. UNCHANGED <<promoted, fallen>> /\ tier' = Current
        BY <2>4 DEF Stays, Stay
    <3>2. \A u \in Tiers : tier' < u => tier < u
        BY <3>1 DEF Current, Default, Tiers
    <3> QED BY <3>1, <3>2
  <2>5. CASE Sinks(c) \/ Achieves(c)
      BY <1>1, <2>5 DEF Sinks, StartGrace, Achieves, Achieve
  <2> QED BY <2>1, <2>2, <2>3, <2>4, <2>5 DEF Turns, Rises, Falls
<1>3. ASSUME NEW t \in Tiers, NEW locks \in BOOLEAN, AssignTier(t, locks) PROVE Risen'
  <2>1. /\ tier' = t /\ promoted' = promoted
        /\ \A u \in Tiers : fallen'[u] = IF t < u /\ u <= tier THEN fallen[u] + 1 ELSE fallen[u]
      BY <1>3 DEF AssignTier
  <2>2. ASSUME NEW u \in Tiers
        PROVE  promoted'[u] <= 1 + fallen'[u] /\ (tier' < u => promoted'[u] <= fallen'[u])
    <3>1. promoted[u] \in Nat /\ fallen[u] \in Nat /\ u \in Int /\ tier \in Int /\ t \in Int
        BY DEF Tiers
    <3>2. promoted[u] <= 1 + fallen[u] /\ (tier < u => promoted[u] <= fallen[u])
        OBVIOUS
    <3> QED BY <2>1, <3>1, <3>2
  <2> QED BY <2>2
<1>4. ASSUME NEW c \in All, SecondPart(c) \/ TierTold(c) PROVE Risen'
    BY <1>1, <1>4 DEF SecondPart, TierTold
<1>5. CASE \/ ApproveOtherwise \/ GracePasses \/ SetLock \/ RestartEvaluations
           \/ UNCHANGED rewardVars
           \/ \E t \in Tiers : \E n \in 0..MaxApproved : UpdateTier(t, n)
    BY <1>1, <1>5 DEF ApproveOtherwise, GracePasses, SetLock, RestartEvaluations, UpdateTier,
                      rewardVars
<1> QED BY <1>2, <1>3, <1>4, <1>5 DEF RewardsNext, Tell, Evaluating, Counting

\* The date that runs is that of the spell that runs.
LEMMA GraceStep == Typed /\ GraceRuns /\ [RewardsNext]_rewardVars => GraceRuns'
<1> SUFFICES ASSUME RewardsTypeOK, NamesMilestone, GraceRuns, [RewardsNext]_rewardVars
             PROVE  GraceRuns'
    BY DEF Typed
<1> USE DEF RewardsTypeOK, GraceRuns, tierVars, tierHistory
<1>1. CASE UNCHANGED <<grace, below, outlived>>
    BY <1>1
<1>2. CASE Evaluating
  <2>1. PICK c \in All : Turns(c)
      BY <1>2, EvaluatingTurns
  <2>2. CASE Achieves(c)
      BY <1>1, <2>2 DEF Achieves, Achieve
  <2>3. CASE Rises(c) \/ Falls(c)
      BY <2>3 DEF Rises, Falls, Promote, Demote, ClearGrace
  <2>4. CASE Sinks(c)
      BY <2>4 DEF Sinks, StartGrace
  <2>5. ASSUME NEW m \in Int, Eligible(m) \in Tiers, Stay(c, m) PROVE GraceRuns'
    <3>1. Current \in Tiers
        BY RewardsAssumption DEF Current, Tiers, Default
    <3>2. grace' = grace
        BY <2>5 DEF Stay
    <3>3. CASE Eligible(m) < Current
        BY <2>5, <3>2, <3>3 DEF Stay
    <3>4. CASE Eligible(m) >= Current
        BY <2>5, <3>2, <3>4 DEF Stay
    <3> QED BY <2>5, <3>1, <3>3, <3>4 DEF Tiers
  <2> QED BY <2>1, <2>2, <2>3, <2>4, <2>5 DEF Turns, Stays
<1>3. CASE GracePasses
    BY <1>3 DEF GracePasses
<1>4. ASSUME NEW t \in Tiers, NEW locks \in BOOLEAN, AssignTier(t, locks) PROVE GraceRuns'
    BY <1>4 DEF AssignTier
<1>5. ASSUME NEW c \in All, SecondPart(c) \/ TierTold(c) PROVE GraceRuns'
    BY <1>1, <1>5 DEF SecondPart, TierTold
<1>6. CASE \/ ApproveOtherwise \/ SetLock \/ RestartEvaluations \/ UNCHANGED rewardVars
           \/ \E t \in Tiers : \E n \in 0..MaxApproved : UpdateTier(t, n)
    BY <1>1, <1>6 DEF ApproveOtherwise, SetLock, RestartEvaluations, UpdateTier, rewardVars
<1> QED BY <1>2, <1>3, <1>4, <1>5, <1>6 DEF RewardsNext, Tell, Evaluating, Counting

-----------------------------------------------------------------------------

\* The inductive invariant of Rewards holds in every state.
THEOREM RewardsInvHolds == RewardsSafety => []RewardsInv
<1>1. RewardsInit => RewardsInv
  <2> SUFFICES ASSUME RewardsInit PROVE RewardsInv
      OBVIOUS
  <2> USE RewardsAssumption DEF RewardsInit, Resting
  <2>1. needed \in [Tiers -> Nat]
      BY DEF Tiers
  <2>2. RewardsTypeOK
    <3>1. /\ approved \in 0..MaxApproved /\ counted \in NoSummary..approved
          /\ changes \in 0..MaxChanges
        BY DEF NoSummary
    <3>2. evaluation \in [All -> Waiting]
        BY DEF Waiting
    <3>3. /\ bonus \in [Milestones -> Nat] /\ promoted \in [Tiers -> Nat]
          /\ fallen \in [Tiers -> Nat]
        OBVIOUS
    <3> QED BY <2>1, <3>1, <3>2, <3>3 DEF RewardsTypeOK, Waiting
  <2>3. NamesMilestone /\ BonusOnce /\ BonusComes /\ Risen /\ GraceRuns
      BY DEF NamesMilestone, BonusOnce, InMulti, BonusComes, Risen, GraceRuns
  <2> QED BY <2>2, <2>3 DEF RewardsInv
<1>2. RewardsInv /\ [RewardsNext]_rewardVars => RewardsInv'
    BY RewardsTypeStep, BonusStep, ComesStep, RisenStep, GraceStep DEF RewardsInv, Typed
<1> QED BY <1>1, <1>2, PTL DEF RewardsSafety

\* Every variable keeps its type.
THEOREM RewardsTypeCorrect == RewardsSafety => []RewardsTypeOK
BY RewardsInvHolds, PTL DEF RewardsInv

\* A milestone pays one bonus, and pays it unless a restart cut it off; a tier pays again
\* only after a fall (applyTierUpgrade, executeReward).
THEOREM RewardsOnce == RewardsSafety => []RewardedOnce
<1>1. RewardsInv => RewardedOnce
    BY DEF RewardsInv, RewardedOnce, BonusOnce, BonusComes, Risen
<1> QED BY <1>1, RewardsInvHolds, PTL

\* A tier with a grace period is left after a whole period below it, or by hand
\* (handlePotentialDowngrade).
THEOREM GraceGiven == RewardsSafety => GraceIsGiven
<1>1. ASSUME RewardsInv, [RewardsNext]_rewardVars,
             tier' < tier, DowngradeMode[tier] = "GRACE_PERIOD", ~outlived
      PROVE  below = "long" \/ changes' > changes
  <2> USE <1>1 DEF RewardsInv, RewardsTypeOK
  <2>1. tier \in Tiers /\ tier' # tier
    <3>1. tier' \in {0} \cup Tiers
        BY RewardsTypeStep DEF Typed
    <3> QED BY <1>1, <3>1 DEF Tiers
  <2>2. CASE Evaluating
    <3>1. PICK c \in All : Turns(c)
        BY <2>2, EvaluatingTurns
    <3>2. CASE Falls(c)
      <4>1. grace = "past"
          BY <3>2 DEF Falls, MayFall
      <4> QED BY <4>1 DEF GraceRuns
    <3>3. CASE Stays(c)
        BY <2>1, <3>3, RewardsAssumption DEF Stays, Stay, Current, Tiers
    <3>4. CASE Rises(c)
        BY <2>1, <3>4, RewardsAssumption DEF Rises, Promote, Current, Tiers
    <3>5. CASE Sinks(c) \/ Achieves(c)
        BY <2>1, <3>5 DEF Sinks, StartGrace, Achieves, Achieve, tierVars
    <3> QED BY <3>1, <3>2, <3>3, <3>4, <3>5 DEF Turns
  <2>3. ASSUME NEW t \in Tiers, NEW locks \in BOOLEAN, AssignTier(t, locks) PROVE changes' > changes
      BY <2>3 DEF AssignTier, CountAdminStep
  <2>4. ASSUME NEW c \in All, SecondPart(c) \/ TierTold(c) PROVE FALSE
      BY <2>1, <2>4 DEF SecondPart, TierTold, tierVars
  <2>5. CASE \/ ApproveOtherwise \/ GracePasses \/ SetLock \/ RestartEvaluations
             \/ UNCHANGED rewardVars
             \/ \E t \in Tiers : \E n \in 0..MaxApproved : UpdateTier(t, n)
      BY <2>1, <2>5 DEF ApproveOtherwise, GracePasses, SetLock, RestartEvaluations, UpdateTier,
                        rewardVars, tierVars
  <2> QED BY <2>2, <2>3, <2>4, <2>5 DEF RewardsNext, Tell, Evaluating, Counting
<1>2. RewardsInv /\ [RewardsNext]_rewardVars
      => [tier' < tier /\ DowngradeMode[tier] = "GRACE_PERIOD" /\ ~outlived
          => below = "long" \/ changes' > changes]_rewardVars
    BY <1>1
<1> QED BY <1>2, RewardsInvHolds, PTL DEF RewardsSafety, GraceIsGiven

=============================================================================

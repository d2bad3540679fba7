-------------------------- MODULE OperationsProofs --------------------------
(***************************************************************************)
(* Proofs about what happens around the core: Bookings and InstantPayout,  *)
(* PartnerDeals and Intake, for any number of bookings, commissions,       *)
(* handlers and requests.                                                  *)
(***************************************************************************)
EXTENDS Intake, PartnerDeals, InstantPayout, Bookings, FiniteSetTheorems, TLAPS

-----------------------------------------------------------------------------
(* Bookings *)

\* A booking keeps apart from those that were placed when it was checked; the others
\* made it hurried while it waited for the calendar.
CallsApart ==
    \A b \in Demos \ hurried : \A c \in Placed :
        demo[b] = "calling" => b # c /\ ~Near(slot[b], slot[c], 2)

BookingsInv == BookingsTypeOK /\ CallsApart /\ SlotsApart

\* The variables keep their types.
LEMMA BookingsTypeStep == BookingsTypeOK /\ [BookingsNext]_bookingVars => BookingsTypeOK'
<1> SUFFICES ASSUME BookingsTypeOK, [BookingsNext]_bookingVars
             PROVE  BookingsTypeOK'
    OBVIOUS
<1> USE DEF BookingsTypeOK, Place
<1>1. CASE RestartBookings
    BY <1>1 DEF RestartBookings
<1>2. ASSUME NEW b \in Demos, Confirmed(b) \/ CancelBooking(b)
      PROVE  BookingsTypeOK'
    BY <1>2 DEF Confirmed, CancelBooking
<1>3. ASSUME NEW b \in Demos, NEW t \in Times,
             Request(b, t) \/ RescheduleByToken(b, t) \/ Reschedule(b, t)
      PROVE  BookingsTypeOK'
    BY <1>3 DEF Request, RescheduleByToken, Reschedule
<1>4. ASSUME NEW b \in Demos, NEW status \in {"confirmed", "rescheduled", "completed"},
             SetBookingStatus(b, status)
      PROVE  BookingsTypeOK'
    BY <1>4 DEF SetBookingStatus
<1>5. CASE UNCHANGED bookingVars
    BY <1>5 DEF bookingVars
<1> QED BY <1>1, <1>2, <1>3, <1>4, <1>5 DEF BookingsNext

\* Near is symmetric.
LEMMA NearSymmetric ==
    ASSUME NEW s \in Int, NEW t \in Int
    PROVE  Near(s, t, 2) <=> Near(t, s, 2)
BY DEF Near

\* A step keeps placed bookings apart, and those that are checked from what is placed.
LEMMA ApartStep == BookingsInv /\ [BookingsNext]_bookingVars => CallsApart' /\ SlotsApart'
<1> SUFFICES ASSUME BookingsInv, [BookingsNext]_bookingVars
             PROVE  CallsApart' /\ SlotsApart'
    OBVIOUS
<1> USE DEF BookingsInv, BookingsTypeOK, CallsApart, SlotsApart, Placed, Place
<1>t. \A b, c \in Demos : slot[b] \in Int /\ (Near(slot[b], slot[c], 2) <=> Near(slot[c], slot[b], 2))
    BY BookingsAssumption, NearSymmetric
<1>u. \A b \in Demos, t \in Times : Near(slot[b], t, 2) <=> Near(t, slot[b], 2)
    BY BookingsAssumption, NearSymmetric
<1>1. CASE RestartBookings
    BY <1>1 DEF RestartBookings
<1>2. ASSUME NEW b \in Demos, Confirmed(b)
      PROVE  CallsApart' /\ SlotsApart'
    BY <1>2, <1>t DEF Confirmed
<1>3. ASSUME NEW b \in Demos, CancelBooking(b)
      PROVE  CallsApart' /\ SlotsApart'
    BY <1>3 DEF CancelBooking
<1>4. ASSUME NEW b \in Demos, NEW t \in Times, Request(b, t)
      PROVE  CallsApart' /\ SlotsApart'
    BY <1>4, <1>u DEF Request, Collides
<1>5. ASSUME NEW b \in Demos, NEW t \in Times, RescheduleByToken(b, t)
      PROVE  CallsApart' /\ SlotsApart'
    BY <1>5, <1>u DEF RescheduleByToken, Collides
<1>6. ASSUME NEW b \in Demos, NEW t \in Times, Reschedule(b, t)
      PROVE  CallsApart' /\ SlotsApart'
    BY <1>6 DEF Reschedule
<1>7. ASSUME NEW b \in Demos, NEW status \in {"confirmed", "rescheduled", "completed"},
             SetBookingStatus(b, status)
      PROVE  CallsApart' /\ SlotsApart'
    BY <1>7 DEF SetBookingStatus
<1>8. CASE UNCHANGED bookingVars
    BY <1>8 DEF bookingVars
<1> QED BY <1>1, <1>2, <1>3, <1>4, <1>5, <1>6, <1>7, <1>8 DEF BookingsNext

\* The inductive invariant of Bookings holds in every state.
THEOREM BookingsInvHolds == BookingsSafety => []BookingsInv
<1>1. BookingsInit => BookingsInv
    BY BookingsAssumption
       DEF BookingsInit, BookingsInv, BookingsTypeOK, CallsApart, SlotsApart, Placed
<1>2. BookingsInv /\ [BookingsNext]_bookingVars => BookingsInv'
    BY BookingsTypeStep, ApartStep DEF BookingsInv
<1> QED BY <1>1, <1>2, PTL DEF BookingsSafety

\* Every variable keeps its type.
THEOREM BookingsTypeCorrect == BookingsSafety => []BookingsTypeOK
BY BookingsInvHolds, PTL DEF BookingsInv

\* For any number of bookings, customers and times, two demonstrations never overlap unless
\* an admin placed one or it was placed during the other's calendar call
\* (DemoBookingsService.create, rescheduleByToken).
THEOREM NoOverlap == BookingsSafety => []SlotsApart
BY BookingsInvHolds, PTL DEF BookingsInv

-----------------------------------------------------------------------------
(* InstantPayout *)

\* What a request has read or paid is its own, and its rows stay PROCESSING unless a
\* write from memory reset them.
Reservations ==
    /\ \A r \in Asks : ask[r] \in {"new", "asking"} => reserved[r] = {}
    /\ \A r \in Asks : ask[r] \in {"paid", "cancelled"} =>
          \A k \in reserved[r] \ reset : row[k] = "PROCESSING"

InstantInv == InstantTypeOK /\ Reservations /\ InstantOnce

\* The variables keep their types.
LEMMA InstantTypeStep == InstantTypeOK /\ [InstantNext]_instantVars => InstantTypeOK'
<1> SUFFICES ASSUME InstantTypeOK, [InstantNext]_instantVars
             PROVE  InstantTypeOK'
    OBVIOUS
<1> USE InstantAssumption
        DEF InstantTypeOK, RowStatus, accountVars, askVars, Assigned, CountChange
<1>1. CASE DraftBatch
    BY <1>1 DEF DraftBatch
<1>2. CASE RestartPayouts
    BY <1>2 DEF RestartPayouts
<1>3. ASSUME NEW k \in Earnings,
             \/ Earn(k) \/ Post(k) \/ RejectCommission(k) \/ ApproveCommission(k) \/ Touch(k)
             \/ Save(k) \/ SaveFails(k)
      PROVE  InstantTypeOK'
    BY <1>3 DEF Earn, Post, RejectCommission, ApproveCommission, Touch, Save, SaveFails
<1>4. ASSUME NEW r \in Asks, Ask(r) \/ Select(r) \/ Commit(r) \/ RollBack(r)
      PROVE  InstantTypeOK'
    BY <1>4 DEF Ask, Select, Commit, RollBack, Payable
<1>5. ASSUME NEW r \in Asks, CancelInstant(r)
      PROVE  InstantTypeOK'
  <2>1. Cardinality(reserved[r]) \in Nat
      BY FS_Subset, FS_CardinalityType
  <2> QED BY <1>5, <2>1 DEF CancelInstant
<1>6. CASE UNCHANGED instantVars
    BY <1>6 DEF instantVars
<1> QED BY <1>1, <1>2, <1>3, <1>4, <1>5, <1>6 DEF InstantNext

\* A step keeps reservations apart: what is read is neither locked nor PROCESSING, and a
\* row that is not reset stays PROCESSING once it is paid.
LEMMA ReservationStep ==
    InstantInv /\ [InstantNext]_instantVars => Reservations' /\ InstantOnce'
<1> SUFFICES ASSUME InstantInv, [InstantNext]_instantVars
             PROVE  Reservations' /\ InstantOnce'
    OBVIOUS
<1> USE DEF InstantInv, InstantTypeOK, Reservations, InstantOnce, accountVars, askVars, RowStatus
<1>1. CASE DraftBatch
    BY <1>1 DEF DraftBatch
<1>2. CASE RestartPayouts
    BY <1>2 DEF RestartPayouts
<1>3. ASSUME NEW k \in Earnings,
             \/ Earn(k) \/ Post(k) \/ RejectCommission(k) \/ ApproveCommission(k) \/ Touch(k)
             \/ SaveFails(k)
      PROVE  Reservations' /\ InstantOnce'
    BY <1>3 DEF Earn, Post, RejectCommission, ApproveCommission, Touch, SaveFails
<1>4. ASSUME NEW k \in Earnings, Save(k)
      PROVE  Reservations' /\ InstantOnce'
    BY <1>4 DEF Save
<1>5. ASSUME NEW r \in Asks, Select(r)
      PROVE  Reservations' /\ InstantOnce'
  <2>1. \A q \in Asks \ {r} : reserved[q] \cap Payable \subseteq reset
    <3> SUFFICES ASSUME NEW q \in Asks \ {r}, NEW k \in reserved[q] \cap Payable
                 PROVE  k \in reset
        OBVIOUS
    <3>1. ask[q] # "reading"
        BY <1>5 DEF Select, Locked
    <3> QED BY <3>1 DEF Payable
  <2>2. \A q \in Asks : reserved'[q] = IF q = r THEN Payable ELSE reserved[q]
      BY <1>5 DEF Select
  <2>3. Reservations'
      BY <1>5 DEF Select
  <2>4. InstantOnce'
      BY <1>5, <2>1, <2>2 DEF Select
  <2> QED BY <2>3, <2>4
<1>6. ASSUME NEW r \in Asks, Commit(r)
      PROVE  Reservations' /\ InstantOnce'
    BY <1>6 DEF Commit
<1>7. ASSUME NEW r \in Asks, Ask(r) \/ RollBack(r) \/ CancelInstant(r)
      PROVE  Reservations' /\ InstantOnce'
    BY <1>7 DEF Ask, RollBack, CancelInstant
<1>8. CASE UNCHANGED instantVars
    BY <1>8 DEF instantVars
<1> QED BY <1>1, <1>2, <1>3, <1>4, <1>5, <1>6, <1>7, <1>8 DEF InstantNext

\* The inductive invariant of InstantPayout holds in every state.
THEOREM InstantInvHolds == InstantSafety => []InstantInv
<1>1. InstantInit => InstantInv
    BY InstantAssumption
       DEF InstantInit, InstantInv, InstantTypeOK, Reservations, InstantOnce, RowStatus
<1>2. InstantInv /\ [InstantNext]_instantVars => InstantInv'
    BY InstantTypeStep, ReservationStep DEF InstantInv
<1> QED BY <1>1, <1>2, PTL DEF InstantSafety

\* Every variable keeps its type.
THEOREM InstantTypeCorrect == InstantSafety => []InstantTypeOK
BY InstantInvHolds, PTL DEF InstantInv

\* For any number of commissions and requests, and whatever fails or restarts, a commission is
\* in one instant payout, unless a write from memory reset its row (requestInstantPayout).
THEOREM PaidByOne == InstantSafety => []InstantOnce
BY InstantInvHolds, PTL DEF InstantInv

-----------------------------------------------------------------------------
(* PartnerDeals *)

\* A conversion is made of the crmDealId the deal had; that may have changed since.
ConversionsKnown ==
    /\ wonAs # {} <=> conversions > 0
    /\ \A w \in Workers : Converting(w) => work[w].id \in wonAs
    /\ renamed \/ wonAs \subseteq {crmDealId}
    /\ commissionStatus = "TRIGGERED" => conversions > 0

\* Without a twin one export is under way at a time, and the deal knows its copy.
Alone ==
    /\ crmDeals > 0 => crmDealId # 0
    /\ \A v, w \in Workers :
          (work[v].at \in {"resolving", "creating"} /\ work[w].at \in {"resolving", "creating"})
              => v = w
    /\ \A w \in Workers : At(w, "creating") => crmDealId = 0
    /\ crmDeals <= 1
ExportsAlone == twinned \/ Alone

DealsInv == DealsTypeOK /\ ConversionsKnown /\ ExportsAlone /\ WonIsPaidOnce /\ OneCrmDeal

\* The parts of Next, each handler by itself.
DealStep(w) ==
    \/ Approve(w) \/ Sync(w) \/ Resolved(w) \/ CrmDealCreated(w) \/ ExportFails(w)
    \/ MoveToWon(w) \/ CrmReportsWon(w) \/ ConversionMade(w) \/ ConversionFails(w)
    \/ \E s \in {"SUBMITTED", "SYNC_PENDING", "CLOSED_LOST"} : MoveTo(w, s)
    \/ \E s \in {dealStatus, "SYNC_ERROR"} : StagePushed(w, s)

\* What is left of Next touches neither handlers, conversions nor the CRM.
Elsewhere ==
    /\ UNCHANGED <<commissionStatus, crmDealId, crmDeals, wonAs, conversions, work,
                   twinned, renamed, unpaid>>
    /\ dealStatus' \in {dealStatus, "SUBMITTED", "CLOSED_LOST"}
    /\ keyedAs' \subseteq keyedAs

\* A step is one handler's or touches none.
LEMMA DealSplit ==
    ASSUME [DealsNext]_dealVars
    PROVE  Elsewhere \/ \E w \in Workers : DealStep(w)
<1>1. CASE UNCHANGED dealVars
    BY <1>1 DEF dealVars, wonVars, Elsewhere
<1>2. CASE Close
    BY <1>2 DEF Close, wonVars, Elsewhere
<1>3. ASSUME NEW s \in {"SUBMITTED", "CLOSED_LOST"}, CrmReports(s)
      PROVE  Elsewhere
    BY <1>3 DEF CrmReports, wonVars, Elsewhere
<1>4. ASSUME NEW id \in Ids, DealKeyExpires(id)
      PROVE  Elsewhere
    BY <1>4 DEF DealKeyExpires, Elsewhere
<1> QED BY <1>1, <1>2, <1>3, <1>4 DEF DealsNext, DealStep

\* The flags stay Boolean.
LEMMA FlagsStep ==
    ASSUME DealsTypeOK, [DealsNext]_dealVars
    PROVE  twinned' \in BOOLEAN /\ renamed' \in BOOLEAN /\ unpaid' \in BOOLEAN
<1>1. twinned' \in {twinned, TRUE, twinned \/ Exporting}
  <2>1. CASE Elsewhere
      BY <2>1, Zenon DEF Elsewhere
  <2>2. ASSUME NEW w \in Workers, DealStep(w)
        PROVE  twinned' \in {twinned, TRUE, twinned \/ Exporting}
      BY <2>2, Zenon DEF DealStep, Approve, Sync, Export, Resolved, Synced, CrmDealCreated,
         ExportFails, MoveToWon, CloseWon, CrmReportsWon, ConversionMade, ConversionFails,
         MoveTo, StagePushed
  <2> QED BY <2>1, <2>2, DealSplit
<1>2. renamed' \in {renamed} \cup {renamed \/ (wonAs # {} /\ id # crmDealId) : id \in {crmDealId, crmDeals + 1}}
  <2>1. CASE Elsewhere
      BY <2>1, Zenon DEF Elsewhere
  <2>2. ASSUME NEW w \in Workers, DealStep(w)
        PROVE  renamed' \in {renamed} \cup {renamed \/ (wonAs # {} /\ id # crmDealId) : id \in {crmDealId, crmDeals + 1}}
      BY <2>2, Zenon DEF DealStep, Approve, Sync, Export, Resolved, Synced, CrmDealCreated,
         ExportFails, MoveToWon, CloseWon, CrmReportsWon, ConversionMade, ConversionFails,
         MoveTo, StagePushed
  <2> QED BY <2>1, <2>2, DealSplit
<1>3. unpaid' \in {unpaid, TRUE}
  <2>1. CASE Elsewhere
      BY <2>1, Zenon DEF Elsewhere
  <2>2. ASSUME NEW w \in Workers, DealStep(w)
        PROVE  unpaid' \in {unpaid, TRUE}
      BY <2>2, Zenon DEF DealStep, Approve, Sync, Export, Resolved, Synced, CrmDealCreated,
         ExportFails, MoveToWon, CloseWon, CrmReportsWon, ConversionMade, ConversionFails,
         MoveTo, StagePushed
  <2> QED BY <2>1, <2>2, DealSplit
<1> QED BY <1>1, <1>2, <1>3, Zenon DEF DealsTypeOK

\* A flag that is set stays so.
LEMMA FlagsGrow ==
    ASSUME [DealsNext]_dealVars
    PROVE  (twinned => twinned') /\ (renamed => renamed') /\ (unpaid => unpaid')
<1>1. CASE Elsewhere
    BY <1>1, Zenon DEF Elsewhere
<1> SUFFICES ASSUME NEW w \in Workers, DealStep(w)
             PROVE  (twinned => twinned') /\ (renamed => renamed') /\ (unpaid => unpaid')
    BY <1>1, DealSplit
<1>2. twinned => twinned'
    BY Zenon DEF DealStep, Approve, Sync, Export, Resolved, Synced, CrmDealCreated,
         ExportFails, MoveToWon, CloseWon, CrmReportsWon, ConversionMade, ConversionFails,
         MoveTo, StagePushed
<1>3. renamed => renamed'
    BY Zenon DEF DealStep, Approve, Sync, Export, Resolved, Synced, CrmDealCreated,
         ExportFails, MoveToWon, CloseWon, CrmReportsWon, ConversionMade, ConversionFails,
         MoveTo, StagePushed
<1>4. unpaid => unpaid'
    BY Zenon DEF DealStep, Approve, Sync, Export, Resolved, Synced, CrmDealCreated,
         ExportFails, MoveToWon, CloseWon, CrmReportsWon, ConversionMade, ConversionFails,
         MoveTo, StagePushed
<1> QED BY <1>2, <1>3, <1>4

\* What closeWon does to the deal and to its conversions.
LEMMA Closing ==
    ASSUME NEW w \in Workers, NEW s, NEW from, CloseWon(w, s, from)
    PROVE  /\ dealStatus' \in {s, "CLOSED_WON"}
           /\ commissionStatus' \in {commissionStatus, "TRIGGERED", "PENDING"}
           /\ commissionStatus' = commissionStatus \/ crmDealId \in keyedAs
           /\ \/ /\ UNCHANGED <<wonAs, keyedAs, conversions>>
                 /\ Stop(w) \/ GoTo(w, "pushing")
                 /\ \/ commissionStatus = "TRIGGERED" \/ crmDealId \in keyedAs \cup wonAs
                    \/ unpaid'
              \/ /\ conversions < MaxConversions /\ conversions' = conversions + 1
                 /\ crmDealId \notin wonAs
                 /\ wonAs' = wonAs \cup {crmDealId} /\ keyedAs' = keyedAs
                 /\ work' = [work EXCEPT ![w] = [at |-> from, id |-> crmDealId]]
                 /\ commissionStatus' = commissionStatus
BY Zenon DEF CloseWon, Onward, wonVars, Keyed, Won, AlreadyPaid

\* The variables keep their types.
LEMMA DealsTypeStep ==
    ASSUME DealsTypeOK, ConversionsKnown, [DealsNext]_dealVars
    PROVE  DealsTypeOK'
<1> DEFINE Places == [Workers -> [at : {"idle", "resolving", "creating", "board", "crm", "pushing"},
                                  id : Ids]]
           Typed ==
               /\ dealStatus \in DealStatus
               /\ commissionStatus \in {"NOT_ELIGIBLE", "PENDING", "TRIGGERED"}
               /\ crmDealId \in 0..crmDeals
               /\ crmDeals \in 0..MaxCrmDeals
               /\ wonAs \subseteq 0..crmDeals
               /\ keyedAs \subseteq wonAs
               /\ conversions \in 0..MaxConversions
               /\ work \in Places
<1>t. Typed
    BY DEF DealsTypeOK
<1> SUFFICES Typed'
    BY FlagsStep DEF DealsTypeOK
<1> USE DealsAssumption, <1>t DEF DealStatus, wonVars, Rest, Ids, GoTo, Stop, At
<1>1. CASE Elsewhere
    BY <1>1 DEF Elsewhere
<1> SUFFICES ASSUME NEW w \in Workers, DealStep(w)
             PROVE  Typed'
    BY <1>1, DealSplit
<1>2. ASSUME Approve(w) \/ Sync(w)
      PROVE  Typed'
  <2>1. UNCHANGED <<commissionStatus, crmDealId, crmDeals, wonAs, keyedAs, conversions>>
      BY <1>2, Zenon DEF Approve, Sync, Export
  <2>2. dealStatus' \in {dealStatus, "SYNC_PENDING"}
      BY <1>2, Zenon DEF Approve, Sync, Export
  <2>3. work' = work \/ GoTo(w, "resolving")
      BY <1>2, Zenon DEF Approve, Sync, Export
  <2> QED BY <2>1, <2>2, <2>3
<1>3. CASE Resolved(w)
  <2>1. UNCHANGED <<commissionStatus, wonAs, keyedAs, conversions, crmDeals, crmDealId>>
      BY <1>3, Zenon DEF Resolved, Synced
  <2>2. dealStatus' \in {dealStatus, "SYNCED"}
      BY <1>3, Zenon DEF Resolved, Synced
  <2>3. Stop(w) \/ GoTo(w, "creating")
      BY <1>3, Zenon DEF Resolved, Synced
  <2> QED BY <2>1, <2>2, <2>3
<1>4. CASE CrmDealCreated(w)
    BY <1>4 DEF CrmDealCreated, Synced
<1>5. CASE ExportFails(w)
    BY <1>5 DEF ExportFails
<1>6. ASSUME NEW s \in DealStatus, NEW from \in {"board", "crm"}, CloseWon(w, s, from),
             UNCHANGED <<crmDealId, crmDeals>>
      PROVE  Typed'
  <2>1. dealStatus' \in DealStatus /\ commissionStatus' \in {"NOT_ELIGIBLE", "PENDING", "TRIGGERED"}
      BY <1>6, Closing
  <2>2. CASE UNCHANGED <<wonAs, keyedAs, conversions>> /\ (Stop(w) \/ GoTo(w, "pushing"))
      BY <2>1, <2>2, <1>6
  <2>3. CASE /\ conversions < MaxConversions /\ conversions' = conversions + 1
             /\ wonAs' = wonAs \cup {crmDealId} /\ keyedAs' = keyedAs
             /\ work' = [work EXCEPT ![w] = [at |-> from, id |-> crmDealId]]
      BY <2>1, <2>3, <1>6
  <2> QED BY <2>2, <2>3, <1>6, Closing
<1>7. CASE MoveToWon(w)
    BY <1>6, <1>7 DEF MoveToWon
<1>8. CASE CrmReportsWon(w)
  <2>1. UNCHANGED <<crmDealId, crmDeals>>
      BY <1>8 DEF CrmReportsWon
  <2>2. \/ CloseWon(w, "CLOSED_WON", "crm")
        \/ dealStatus' = "CLOSED_WON" /\ UNCHANGED <<commissionStatus, wonVars, work>>
      BY <1>8, Zenon DEF CrmReportsWon
  <2>3. CASE CloseWon(w, "CLOSED_WON", "crm")
      BY <1>6, <2>1, <2>3
  <2>4. CASE dealStatus' = "CLOSED_WON" /\ UNCHANGED <<commissionStatus, wonVars, work>>
      BY <2>1, <2>4
  <2> QED BY <2>2, <2>3, <2>4
<1>9. CASE ConversionMade(w)
  <2>1. work[w].id \in wonAs
      BY <1>9 DEF ConversionMade, ConversionsKnown
  <2>2. /\ UNCHANGED <<dealStatus, crmDealId, crmDeals, wonAs, conversions>>
        /\ keyedAs' = keyedAs \cup {work[w].id}
        /\ commissionStatus' \in {"TRIGGERED", "PENDING"}
      BY <1>9, Zenon DEF ConversionMade
  <2>3. Stop(w) \/ GoTo(w, "pushing")
      BY <1>9, Zenon DEF ConversionMade, Onward
  <2>4. work' \in Places
      BY <2>3
  <2>5. keyedAs' \subseteq wonAs'
      BY <2>1, <2>2
  <2> QED BY <2>2, <2>4, <2>5
<1>10. CASE ConversionFails(w)
    BY <1>10 DEF ConversionFails
<1>11. ASSUME NEW s \in {"SUBMITTED", "SYNC_PENDING", "CLOSED_LOST"}, MoveTo(w, s)
       PROVE  Typed'
    BY <1>11 DEF MoveTo, Onward
<1>12. ASSUME NEW s \in {dealStatus, "SYNC_ERROR"}, StagePushed(w, s)
       PROVE  Typed'
    BY <1>12 DEF StagePushed
<1> QED BY <1>2, <1>3, <1>4, <1>5, <1>7, <1>8, <1>9, <1>10, <1>11, <1>12 DEF DealStep

\* A conversion is made once for the id the deal has, and a deal is won with one.
LEMMA WonStep ==
    ASSUME DealsTypeOK, ConversionsKnown, WonIsPaidOnce, [DealsNext]_dealVars
    PROVE  ConversionsKnown' /\ WonIsPaidOnce'
<1> USE DEF ConversionsKnown, WonIsPaidOnce, wonVars, Rest, GoTo, Stop, At, Converting
<1>t. /\ wonAs \subseteq Nat /\ keyedAs \subseteq wonAs /\ conversions \in Nat
      /\ DOMAIN work = Workers
    BY DEF DealsTypeOK
<1>1. CASE Elsewhere
    BY <1>1 DEF Elsewhere
<1> SUFFICES ASSUME NEW w \in Workers, DealStep(w)
             PROVE  ConversionsKnown' /\ WonIsPaidOnce'
    BY <1>1, DealSplit
<1>2. ASSUME UNCHANGED <<wonVars, commissionStatus>>,
             dealStatus' = "CLOSED_WON" => dealStatus = "CLOSED_WON" \/ commissionStatus = "TRIGGERED" \/ unpaid',
             renamed' \/ crmDealId' = crmDealId \/ wonAs = {},
             \A v \in Workers : Converting(v)' => Converting(v) /\ work'[v] = work[v]
      PROVE  ConversionsKnown' /\ WonIsPaidOnce'
    BY <1>2, <1>t, FlagsGrow
<1>3. ASSUME Approve(w) \/ Sync(w)
      PROVE  ConversionsKnown' /\ WonIsPaidOnce'
  <2>1. /\ UNCHANGED <<commissionStatus, wonVars, crmDealId>>
        /\ dealStatus' = dealStatus \/ dealStatus' = "SYNC_PENDING"
        /\ work' = work \/ GoTo(w, "resolving")
      BY <1>3, Zenon DEF Approve, Sync, Export
  <2> QED BY <2>1, <1>2, <1>t
<1>4. CASE Resolved(w) \/ CrmDealCreated(w)
  <2>1. /\ UNCHANGED <<commissionStatus, wonVars>>
        /\ dealStatus' = dealStatus \/ dealStatus' = "SYNCED"
        /\ Stop(w) \/ GoTo(w, "creating")
      BY <1>4, Zenon DEF Resolved, CrmDealCreated, Synced
  <2>2. renamed' \/ crmDealId' = crmDealId \/ wonAs = {}
      BY <1>4, Zenon DEF Resolved, CrmDealCreated, Synced
  <2> QED BY <2>1, <2>2, <1>2, <1>t
<1>5. CASE ExportFails(w)
  <2>1. /\ UNCHANGED <<commissionStatus, wonVars, crmDealId>>
        /\ dealStatus' = "SYNC_ERROR"
        /\ Stop(w)
      BY <1>5, Zenon DEF ExportFails
  <2> QED BY <2>1, <1>2, <1>t
<1>6. ASSUME NEW s, NEW from \in {"board", "crm"}, CloseWon(w, s, from), UNCHANGED crmDealId
      PROVE  ConversionsKnown' /\ WonIsPaidOnce'
  <2>1. CASE /\ UNCHANGED <<wonAs, keyedAs, conversions>>
             /\ Stop(w) \/ GoTo(w, "pushing")
             /\ \/ commissionStatus = "TRIGGERED" \/ crmDealId \in keyedAs \cup wonAs
                \/ unpaid'
    <3>1. conversions > 0 \/ unpaid'
        BY <2>1, <1>t
    <3>2. commissionStatus' = "TRIGGERED" => conversions > 0
        BY <1>6, <1>t, Closing
    <3>3. \A v \in Workers : Converting(v)' => Converting(v) /\ work'[v] = work[v]
        BY <2>1, <1>t
    <3> QED BY <2>1, <3>1, <3>2, <3>3, <1>6, <1>t, FlagsGrow
  <2>2. CASE /\ conversions' = conversions + 1
             /\ crmDealId \notin wonAs
             /\ wonAs' = wonAs \cup {crmDealId}
             /\ work' = [work EXCEPT ![w] = [at |-> from, id |-> crmDealId]]
    <3>3. renamed \/ (wonAs = {} /\ conversions = 0)
      <4>1. renamed \/ wonAs \subseteq {crmDealId}
          OBVIOUS
      <4>2. wonAs = {} => conversions = 0
          BY <1>t
      <4>3. wonAs \subseteq {crmDealId} => wonAs = {}
          BY <2>2, Zenon
      <4> QED BY <4>1, <4>2, <4>3, Zenon
    <3>4. conversions' > 0
        BY <2>2, <1>t
    <3>5. (wonAs = {} /\ conversions = 0) => (conversions' = 1 /\ wonAs' = {crmDealId'})
        BY <2>2, <1>6, <1>t
    <3>1. conversions' > 0 /\ (renamed' \/ (conversions' = 1 /\ wonAs' = {crmDealId'}))
        BY <3>3, <3>4, <3>5, FlagsGrow, Zenon
    <3>2. \A v \in Workers : Converting(v)' => work'[v].id \in wonAs'
        BY <2>2, <1>t
    <3> QED BY <2>2, <3>1, <3>2
  <2> QED BY <2>1, <2>2, <1>6, Closing
<1>7. CASE MoveToWon(w)
    BY <1>6, <1>7 DEF MoveToWon
<1>8. CASE CrmReportsWon(w)
  <2>1. CASE CloseWon(w, "CLOSED_WON", "crm")
      BY <1>6, <1>8, <2>1 DEF CrmReportsWon
  <2>2. CASE unpaid' /\ UNCHANGED <<commissionStatus, wonVars, work, crmDealId>>
      BY <2>2, <1>2
  <2> QED BY <1>8, <2>1, <2>2, Zenon DEF CrmReportsWon
<1>9. CASE ConversionMade(w)
  <2>1. work[w].id \in wonAs /\ UNCHANGED <<dealStatus, crmDealId, wonAs, conversions>>
      BY <1>9 DEF ConversionMade
  <2>2. conversions > 0
      BY <2>1
  <2>3. Stop(w) \/ GoTo(w, "pushing")
      BY <1>9, Zenon DEF ConversionMade, Onward
  <2>4. \A v \in Workers : Converting(v)' => Converting(v) /\ work'[v] = work[v]
      BY <2>3, <1>t
  <2> QED BY <2>1, <2>2, <2>4, FlagsGrow
<1>10. CASE ConversionFails(w)
    BY <1>10, <1>2, <1>t DEF ConversionFails
<1>11. ASSUME NEW s \in {"SUBMITTED", "SYNC_PENDING", "CLOSED_LOST"}, MoveTo(w, s)
       PROVE  ConversionsKnown' /\ WonIsPaidOnce'
  <2>1. /\ UNCHANGED <<commissionStatus, wonVars, crmDealId>> /\ dealStatus' # "CLOSED_WON"
        /\ Stop(w) \/ GoTo(w, "pushing")
      BY <1>11 DEF MoveTo, Onward
  <2> QED BY <2>1, <1>2, <1>t
<1>12. ASSUME NEW s \in {dealStatus, "SYNC_ERROR"}, StagePushed(w, s)
       PROVE  ConversionsKnown' /\ WonIsPaidOnce'
    BY <1>12, <1>2, <1>t DEF StagePushed
<1> QED BY <1>3, <1>4, <1>5, <1>7, <1>8, <1>9, <1>10, <1>11, <1>12 DEF DealStep

\* An export that is alone creates a copy only when there is none.
LEMMA ExportStep ==
    ASSUME DealsTypeOK, ExportsAlone, OneCrmDeal, [DealsNext]_dealVars
    PROVE  ExportsAlone' /\ OneCrmDeal'
<1> SUFFICES ASSUME ~twinned' PROVE Alone'
    BY Zenon DEF ExportsAlone, OneCrmDeal, Alone
<1>a. Alone
    BY FlagsGrow, Zenon DEF ExportsAlone
<1>t. crmDealId \in Nat /\ crmDeals \in Nat /\ DOMAIN work = Workers
    BY DealsAssumption DEF DealsTypeOK
<1> USE DEF Alone, Rest, GoTo, Stop, At
<1>1. CASE Elsewhere
    BY <1>1, <1>a DEF Elsewhere
<1> SUFFICES ASSUME NEW w \in Workers, DealStep(w)
             PROVE  Alone'
    BY <1>1, DealSplit
<1>2. ASSUME UNCHANGED <<crmDealId, crmDeals>>,
             \A v \in Workers : \/ work'[v] = work[v]
                                \/ work'[v].at \notin {"resolving", "creating"}
      PROVE  Alone'
    BY <1>a, <1>2
<1>3. ASSUME Approve(w) \/ Sync(w)
      PROVE  Alone'
  <2>1. UNCHANGED <<crmDealId, crmDeals>>
      BY <1>3, Zenon DEF Approve, Sync, Export
  <2>2. CASE work' = work
      BY <1>2, <2>1, <2>2
  <2>3. CASE Export(w)
    <3>1. GoTo(w, "resolving") /\ ~Exporting
        BY <2>3, Zenon DEF Export
    <3> QED BY <3>1, <2>1, <1>a, <1>t DEF Exporting
  <2> QED BY <1>3, <2>2, <2>3, Zenon DEF Approve, Sync
<1>4. CASE Resolved(w)
  <2>1. At(w, "resolving") /\ UNCHANGED <<crmDeals, crmDealId>>
      BY <1>4, Zenon DEF Resolved, Synced
  <2>2. Stop(w) \/ (GoTo(w, "creating") /\ crmDealId = 0)
      BY <1>4, Zenon DEF Resolved, Synced, HasCrmDeal
  <2> QED BY <2>1, <2>2, <1>a, <1>t
<1>5. CASE CrmDealCreated(w)
  <2>1. /\ At(w, "creating") /\ Stop(w)
        /\ crmDeals' = crmDeals + 1 /\ crmDealId' = crmDeals + 1
      BY <1>5, Zenon DEF CrmDealCreated, Synced
  <2>2. crmDeals = 0
      BY <2>1, <1>a, <1>t
  <2>3. \A v \in Workers : work'[v].at \notin {"resolving", "creating"}
      BY <2>1, <1>a, <1>t
  <2> QED BY <2>1, <2>2, <2>3, <1>t
<1>6. CASE ExportFails(w)
  <2>1. Stop(w) /\ UNCHANGED <<crmDealId, crmDeals>>
      BY <1>6, Zenon DEF ExportFails
  <2> QED BY <2>1, <1>2, <1>t
<1>7. ASSUME NEW s, NEW from \in {"board", "crm"}, CloseWon(w, s, from),
             UNCHANGED <<crmDealId, crmDeals>>
      PROVE  Alone'
  <2>1. \/ Stop(w) \/ GoTo(w, "pushing")
        \/ work' = [work EXCEPT ![w] = [at |-> from, id |-> crmDealId]]
      BY <1>7, Closing
  <2> QED BY <2>1, <1>2, <1>7, <1>t
<1>8. CASE MoveToWon(w)
    BY <1>7, <1>8 DEF MoveToWon
<1>9. CASE CrmReportsWon(w)
  <2>1. CASE CloseWon(w, "CLOSED_WON", "crm")
      BY <1>7, <1>9, <2>1 DEF CrmReportsWon
  <2>2. CASE UNCHANGED <<work, crmDealId, crmDeals>>
      BY <2>2, <1>2
  <2> QED BY <1>9, <2>1, <2>2, Zenon DEF CrmReportsWon
<1>10. CASE ConversionMade(w)
  <2>1. UNCHANGED <<crmDealId, crmDeals>> /\ (Stop(w) \/ GoTo(w, "pushing"))
      BY <1>10, Zenon DEF ConversionMade, Onward
  <2> QED BY <2>1, <1>2, <1>t
<1>11. CASE ConversionFails(w)
    BY <1>11, <1>2, <1>t DEF ConversionFails
<1>12. ASSUME NEW s \in {"SUBMITTED", "SYNC_PENDING", "CLOSED_LOST"}, MoveTo(w, s)
       PROVE  Alone'
  <2>1. UNCHANGED <<crmDealId, crmDeals>> /\ (Stop(w) \/ GoTo(w, "pushing"))
      BY <1>12, Zenon DEF MoveTo, Onward
  <2> QED BY <2>1, <1>2, <1>t
<1>13. ASSUME NEW s \in {dealStatus, "SYNC_ERROR"}, StagePushed(w, s)
       PROVE  Alone'
    BY <1>13, <1>2, <1>t DEF StagePushed
<1> QED BY <1>3, <1>4, <1>5, <1>6, <1>8, <1>9, <1>10, <1>11, <1>12, <1>13 DEF DealStep

\* The inductive invariant of PartnerDeals holds in every state.
THEOREM DealsInvHolds == DealsSafety => []DealsInv
<1>1. DealsInit => DealsInv
  <2> SUFFICES ASSUME DealsInit PROVE DealsInv
      OBVIOUS
  <2> USE DealsAssumption DEF DealsInit, Rest
  <2>1. DealsTypeOK
    <3>1. twinned \in BOOLEAN /\ renamed \in BOOLEAN /\ unpaid \in BOOLEAN
        BY Zenon
    <3> QED BY <3>1 DEF DealsTypeOK, DealStatus, Ids
  <2>2. ConversionsKnown
      BY DEF ConversionsKnown, Converting
  <2>3. ExportsAlone
      BY DEF ExportsAlone, Alone, At
  <2>4. WonIsPaidOnce /\ OneCrmDeal
      BY DEF WonIsPaidOnce, OneCrmDeal
  <2> QED BY <2>1, <2>2, <2>3, <2>4 DEF DealsInv
<1>2. DealsInv /\ [DealsNext]_dealVars => DealsInv'
  <2> SUFFICES ASSUME DealsInv, [DealsNext]_dealVars PROVE DealsInv'
      OBVIOUS
  <2> QED BY DealsTypeStep, WonStep, ExportStep DEF DealsInv
<1> QED BY <1>1, <1>2, PTL DEF DealsSafety

\* Every variable keeps its type.
THEOREM DealsTypeCorrect == DealsSafety => []DealsTypeOK
BY DealsInvHolds, PTL DEF DealsInv

\* For any number of handlers, failures and reports of the CRM, a deal pays its partner
\* once, and a deal that was won was paid for, with the exceptions the property names
\* (closeWon, handleHubSpotDealStage).
THEOREM DealPaysOnce == DealsSafety => []WonIsPaidOnce
BY DealsInvHolds, PTL DEF DealsInv

\* A deal has one copy in the CRM unless two exports overlapped or an answer was lost
\* (syncToHubSpot).
THEOREM OneCopy == DealsSafety => []OneCrmDeal
BY DealsInvHolds, PTL DEF DealsInv

-----------------------------------------------------------------------------
(* Intake *)

\* A payment that took effect made its order's conversion; a call that creates has a payment
\* that took effect; a refunded conversion has nothing left to refund.
OrdersKnown ==
    /\ \A p \in Payments : effects[p] > 0 => conversion[OrderOf[p]] # "NONE"
    /\ \A h \in Handlers : call[h].at \in {"evaluating", "recording"} =>
          call[h].on \in Payments /\ effects[call[h].on] > 0
    /\ \A o \in ShopOrders : conversion[o] = "REFUNDED" => refunded[o] = Amount

\* A request that took effect under a key is the one that is stored with it or is still being
\* answered; only such requests are stored, each under its own key.
KeysKnown ==
    /\ \A r \in Requests : effects[r] > 0 /\ KeyOf[r] \in Keys \ reopened =>
          stored[KeyOf[r]] = r \/ Creating(r)
    /\ \A k \in Keys : stored[k] # Nothing => KeyOf[stored[k]] = k
    /\ \A k \in Keys \ reopened : stored[k] # Nothing => effects[stored[k]] > 0

\* An event that was taken up is noted or still worked on, whatever its status is now; and a
\* refund noted as refused could not be applied.
EventsKnown ==
    \A r \in Delivered :
        /\ event[r] # "NONE" /\ r \notin cut \cup unverified /\ bridged[r] = "none" => Pending(r)
        /\ bridged[r] = "error" /\ r \in Refunds \ early =>
              Applied(r) \/ RefundOf[r] > Remaining(OrderOf[r])

IntakeInv ==
    IntakeTypeOK /\ OrdersKnown /\ KeysKnown /\ EventsKnown
    /\ OneConversionEach /\ TakesEffectOnce

\* A request is handled by a handler that was free, or that recorded it as an event.
Served(h, r) ==
    /\ h \in Handlers /\ r \in Requests
    /\ Handle(h, r)
    /\ \/ call[h] = Idle /\ r \notin Delivered
       \/ call[h].at = "recorded" /\ call[h].on = r
    /\ UNCHANGED <<event, trusted, attribution, cut, unverified>>
    /\ sends' \in {sends, [sends EXCEPT ![r] = @ + 1]} /\ (sends' # sends => sends[r] < MaxSends)

\* A step that is only about the record of an event, or about the secret.
Noted ==
    /\ UNCHANGED <<orderVars, call, bridged, reopened, markVars>>
    /\ \A r \in Delivered : event[r] = "NONE" => event'[r] = "NONE"
    /\ event' \in [Delivered -> {"NONE", "PROCESSED", "FAILED", "DUPLICATE"}]
    /\ sends' \in [Requests -> 0..MaxSends]

\* Every step is one of these.
LEMMA IntakeSplit ==
    ASSUME IntakeTypeOK, [IntakeNext]_intakeVars
    PROVE  \/ Noted
           \/ \E h \in Handlers, r \in Requests : Served(h, r)
           \/ \E h \in Handlers, r \in Delivered : Deliver(h, r)
           \/ \E h \in Handlers, d \in {"APPROVED", "REJECTED", "PENDING"} : EvaluationEnds(h, d)
           \/ \E h \in Handlers : CreationEnds(h)
           \/ \E h \in Handlers : CreationFails(h)
           \/ \E k \in Keys : KeyExpires(k)
           \/ Restart
<1>t. /\ event \in [Delivered -> {"NONE", "PROCESSED", "FAILED", "DUPLICATE"}]
      /\ sends \in [Requests -> 0..MaxSends]
      /\ call \in [Handlers -> [at : {"evaluating", "recording", "recorded"}, on : Requests] \cup {Idle}]
      /\ Delivered \subseteq Requests /\ MaxSends \in Nat
    BY IntakeAssumption DEF IntakeTypeOK
<1>1. CASE UNCHANGED intakeVars
    BY <1>1, <1>t DEF intakeVars, eventVars, Noted
<1>2. ASSUME NEW h \in Handlers, NEW r \in Requests, Call(h, r)
      PROVE  Served(h, r)
  <2>1. call[h] = Idle
      BY <1>2, <1>t DEF Call, Engaged, Idle
  <2> QED BY <1>2, <2>1, Zenon DEF Call, Sent, Served
<1>3. ASSUME NEW h \in Handlers, Bridge(h)
      PROVE  \E r \in Requests : Served(h, r)
  <2>1. call[h].on \in Requests
      BY <1>3, <1>t DEF Bridge, Idle
  <2>2. Served(h, call[h].on)
      BY <1>3, <2>1, Zenon DEF Bridge, Served
  <2> QED BY <2>1, <2>2
<1>4. ASSUME NEW r \in Delivered, Redeliver(r) \/ RetryOperation(r)
      PROVE  Noted
  <2>1. /\ UNCHANGED <<orderVars, call, bridged, reopened, markVars>>
        /\ event[r] # "NONE"
        /\ event' \in {[event EXCEPT ![r] = "DUPLICATE"], [event EXCEPT ![r] = "PROCESSED"]}
      BY <1>4, Zenon DEF Redeliver, RetryOperation
  <2>2. sends' \in [Requests -> 0..MaxSends]
      BY <1>4, <1>t DEF Redeliver, RetryOperation, Sent
  <2> QED BY <2>1, <2>2, <1>t DEF Noted
<1>5. ASSUME SetSecret \/ \E a \in Attributions : TrackClick(a) \/ AttributionExpires(a)
      PROVE  Noted
    BY <1>5, <1>t, Zenon DEF SetSecret, TrackClick, AttributionExpires, eventVars, Noted
<1> QED BY <1>1, <1>2, <1>3, <1>4, <1>5 DEF IntakeNext

\* The variables keep their types, and a refunded conversion was refunded whole.
LEMMA IntakeTypeStep ==
    ASSUME IntakeTypeOK, OrdersKnown, [IntakeNext]_intakeVars
    PROVE  IntakeTypeOK'
<1> DEFINE Status == {"NONE", "PENDING", "APPROVED", "REJECTED", "PARTIALLY_REFUNDED", "REFUNDED"}
           Orders ==
               /\ conversion \in [ShopOrders -> Status]
               /\ refunded \in [ShopOrders -> 0..Amount]
               /\ click \in [ShopOrders -> Clicks]
               /\ effects \in [Requests -> Nat]
               /\ stored \in [Keys -> Requests \cup {Nothing}]
           Work ==
               /\ call \in [Handlers -> [at : {"evaluating", "recording", "recorded"}, on : Requests]
                                        \cup {Idle}]
               /\ bridged \in [Delivered -> {"none", "done", "error"}]
           Marks ==
               /\ event \in [Delivered -> {"NONE", "PROCESSED", "FAILED", "DUPLICATE"}]
               /\ sends \in [Requests -> 0..MaxSends]
               /\ reopened \subseteq Keys \cup {NoKey}
               /\ cut \subseteq Delivered /\ unverified \subseteq Delivered
               /\ early \subseteq Refunds
<1>t. Orders /\ Work /\ Marks
    BY DEF IntakeTypeOK
<1>k. \A r \in Requests : KeyOf[r] \in Keys \cup {NoKey}
    BY DEF Keys
<1>a. /\ Amount \in Nat /\ MaxSends \in Nat /\ Delivered \subseteq Requests
      /\ Requests = Payments \cup Refunds
      /\ \A r \in Requests : OrderOf[r] \in ShopOrders
      /\ \A r \in Refunds : RefundOf[r] \in 1..Amount
      /\ Payments \cap Refunds = {}
    BY IntakeAssumption DEF Requests
<1>b. trusted' \in BOOLEAN
  <2>1. trusted' \in {trusted, ~trusted}
      BY Zenon DEF IntakeNext, intakeVars, Call, Bridge, Deliver, EvaluationEnds, CreationEnds, CreationFails,
         Redeliver, RetryOperation, SetSecret, TrackClick, AttributionExpires, KeyExpires, Restart
  <2> QED BY <2>1, Zenon DEF IntakeTypeOK
<1>c. attribution' \in [Attributions -> {"NONE", "LIVE", "EXPIRED"}]
  <2>1. \/ attribution' = attribution
        \/ \E a \in Attributions : TrackClick(a) \/ AttributionExpires(a)
      BY Zenon DEF IntakeNext, intakeVars, Call, Bridge, Deliver, EvaluationEnds, CreationEnds, CreationFails,
         Redeliver, RetryOperation, SetSecret, KeyExpires, Restart
  <2> QED BY <2>1 DEF IntakeTypeOK, TrackClick, AttributionExpires
<1>d. \A r \in Payments : StoredClicks(r) \subseteq Clicks
  <2>1. \A r \in Payments : Attributed(r) \subseteq Attributions
      BY IntakeAssumption DEF Attributed
  <2> QED BY <2>1 DEF StoredClicks, Clicks
<1>e. NoClick \in Clicks
    BY DEF Clicks
<1> SUFFICES Orders' /\ Work' /\ Marks'
    BY <1>b, <1>c DEF IntakeTypeOK
<1> HIDE DEF Orders, Work, Marks
<1> USE <1>t
<1>1. CASE Noted
    BY <1>1 DEF Noted, orderVars, markVars, Orders, Work, Marks
<1>2. ASSUME NEW h \in Handlers, NEW r \in Requests, Served(h, r)
      PROVE  Orders' /\ Work' /\ Marks'
  <2>s. sends' \in [Requests -> 0..MaxSends]
      BY <1>2, <1>a DEF Served, Marks
  <2>u. UNCHANGED <<event, cut, unverified>>
      BY <1>2 DEF Served
  <2>f. early' \subseteq Refunds /\ reopened' \subseteq Keys \cup {NoKey}
    <3>1. early' = early \/ (r \in Refunds /\ early' = early \cup {r})
        BY <1>2, Zenon DEF Served, Handle, Replay, Refuse, Create, Refund
    <3>2. reopened' = reopened \/ reopened' = reopened \cup {KeyOf[r]}
        BY <1>2, Zenon DEF Served, Handle, Replay, Refuse, Create, Refund, Reopen
    <3> QED BY <3>1, <3>2, <1>k DEF Marks
  <2>m. Marks'
      BY <2>s, <2>u, <2>f DEF Marks
  <2>w. Work'
    <3>1. \/ call' = [call EXCEPT ![h] = Idle]
          \/ call' = [call EXCEPT ![h] = [at |-> "evaluating", on |-> r]]
        BY <1>2, Zenon DEF Served, Handle, Replay, Refuse, Create, Refund, Answer
    <3>2. \/ bridged' = bridged
          \/ r \in Delivered /\ \E how \in {"done", "error"} : bridged' = [bridged EXCEPT ![r] = how]
        BY <1>2, Zenon DEF Served, Handle, Replay, Refuse, Create, Refund, Answer
    <3> QED BY <3>1, <3>2 DEF Work
  <2>1. CASE UNCHANGED orderVars
      BY <2>1, <2>w, <2>m DEF orderVars, Orders
  <2>2. CASE Create(h, r)
    <3>1. PICK c \in Clicks : click' = [click EXCEPT ![OrderOf[r]] = c]
        BY <2>2, <1>d DEF Create
    <3> QED BY <2>2, <2>w, <2>m, <3>1, <1>a DEF Create, Orders
  <2>3. CASE Refund(h, r)
    <3>1. /\ refunded[OrderOf[r]] + RefundOf[r] \in 0..Amount
          /\ OrderOf[r] \in ShopOrders
        BY <2>3, <1>a DEF Refund, RefundRefused, Remaining, Orders
    <3>2. /\ refunded' = [refunded EXCEPT ![OrderOf[r]] = refunded[OrderOf[r]] + RefundOf[r]]
          /\ \E s \in {"REFUNDED", "PARTIALLY_REFUNDED"} :
                conversion' = [conversion EXCEPT ![OrderOf[r]] = s]
          /\ effects' = [effects EXCEPT ![r] = @ + 1]
          /\ click' = click
        BY <2>3 DEF Refund
    <3>3. stored' \in [Keys -> Requests \cup {Nothing}]
        BY <2>3, <1>k DEF Refund, Store, Orders
    <3> QED BY <3>1, <3>2, <3>3, <2>w, <2>m DEF Orders
  <2> QED BY <1>2, <2>1, <2>2, <2>3, Zenon DEF Served, Handle, Replay, Refuse
<1>3. ASSUME NEW h \in Handlers, NEW r \in Delivered, Deliver(h, r)
      PROVE  Orders' /\ Work' /\ Marks'
  <2>1. \/ call' = call
        \/ call' = [call EXCEPT ![h] = [at |-> "recorded", on |-> r]]
      BY <1>3, Zenon DEF Deliver
  <2>2. Work'
      BY <2>1, <1>3, <1>a DEF Deliver, Work
  <2>3. sends' \in [Requests -> 0..MaxSends] /\ UNCHANGED <<orderVars, reopened, cut, early>>
      BY <1>3, <1>a DEF Deliver, Sent, Marks
  <2>4. \/ event' = [event EXCEPT ![r] = "PROCESSED"] /\ unverified' = unverified
        \/ event' = [event EXCEPT ![r] = "FAILED"] /\ unverified' = unverified \cup {r}
      BY <1>3, Zenon DEF Deliver
  <2> QED BY <2>2, <2>3, <2>4 DEF orderVars, Orders, Marks
<1>4. ASSUME NEW h \in Handlers, call[h].at \in {"evaluating", "recording"},
             UNCHANGED <<refunded, click, effects, event, sends, markVars>>,
             call' \in {[call EXCEPT ![h] = Idle], [call EXCEPT ![h] = [at |-> "recording", on |-> call[h].on]]},
             conversion' = conversion \/ \E d \in {"APPROVED", "REJECTED", "PENDING"} :
                 conversion' = [conversion EXCEPT ![OrderOf[call[h].on]] = d],
             stored' = stored \/ Store(call[h].on),
             bridged' = bridged \/ (call[h].on \in Delivered
                 /\ \E how \in {"done", "error"} : bridged' = [bridged EXCEPT ![call[h].on] = how]),
             reopened' = reopened \/ reopened' = reopened \cup {KeyOf[call[h].on]}
      PROVE  Orders' /\ Work' /\ Marks'
  <2>1. call[h].on \in Requests
      BY <1>4, <1>a DEF OrdersKnown
  <2>2. Orders'
      BY <1>4, <2>1, <1>a, <1>k DEF Orders, Store
  <2>3. Work'
      BY <1>4, <2>1 DEF Work
  <2>4. Marks'
      BY <1>4, <2>1, <1>k DEF Marks, markVars
  <2> QED BY <2>2, <2>3, <2>4
<1>5. ASSUME NEW h \in Handlers, NEW d \in {"APPROVED", "REJECTED", "PENDING"}, EvaluationEnds(h, d)
      PROVE  Orders' /\ Work' /\ Marks'
    BY <1>4, <1>5 DEF EvaluationEnds, eventVars
<1>6. ASSUME NEW h \in Handlers, CreationEnds(h)
      PROVE  Orders' /\ Work' /\ Marks'
    BY <1>4, <1>6 DEF CreationEnds, Answer
<1>7. ASSUME NEW h \in Handlers, CreationFails(h)
      PROVE  Orders' /\ Work' /\ Marks'
    BY <1>4, <1>7 DEF CreationFails, Answer, orderVars
<1>8. ASSUME NEW k \in Keys, KeyExpires(k)
      PROVE  Orders' /\ Work' /\ Marks'
    BY <1>8 DEF KeyExpires, eventVars, markVars, Orders, Work, Marks
<1>9. CASE Restart
  <2>1. conversion' \in [ShopOrders -> Status]
    <3>1. \A o \in ShopOrders : conversion'[o] \in {"NONE", "PENDING", conversion[o]}
        BY <1>9 DEF Restart
    <3>2. DOMAIN conversion' = ShopOrders /\ conversion' = [o \in ShopOrders |-> conversion'[o]]
        BY <1>9 DEF Restart
    <3> QED BY <3>1, <3>2 DEF Orders
  <2>2. Orders'
      BY <1>9, <2>1, <1>e DEF Restart, Orders
  <2>3. Work'
      BY <1>9 DEF Restart, eventVars, Work
  <2>4. \A h \in Handlers : Engaged(h) => call[h].on \in Requests
      BY DEF Work, Engaged, Idle
  <2>5. reopened' \subseteq Keys \cup {NoKey}
      BY <1>9, <2>4, <1>k DEF Restart, Marks
  <2> QED BY <1>9, <2>2, <2>3, <2>5 DEF Restart, eventVars, Marks
<1> QED BY IntakeSplit, <1>1, <1>2, <1>3, <1>5, <1>6, <1>7, <1>8, <1>9

\* What a request that is served does to orders and calls.
LEMMA Serving ==
    ASSUME NEW h \in Handlers, NEW r \in Requests, Served(h, r), IntakeTypeOK
    PROVE  /\ call[h].at \notin {"evaluating", "recording"}
           /\ \A g \in Handlers \ {h} : call'[g] = call[g]
           /\ \/ Create(h, r) /\ call'[h] = [at |-> "evaluating", on |-> r]
              \/ Refund(h, r) /\ call'[h] = Idle
              \/ UNCHANGED <<orderVars, reopened>> /\ call'[h] = Idle
                 /\ (early' = early \/ (r \in Refunds /\ ~Exists(r) /\ early' = early \cup {r}))
                 /\ (Replay(h, r) \/ Refuse(h, r))
<1>1. call \in [Handlers -> [at : {"evaluating", "recording", "recorded"}, on : Requests] \cup {Idle}]
    BY DEF IntakeTypeOK
<1>2. call[h].at \notin {"evaluating", "recording"}
    BY DEF Served, Idle
<1>3. \/ Create(h, r) /\ call' = [call EXCEPT ![h] = [at |-> "evaluating", on |-> r]]
      \/ Refund(h, r) /\ call' = [call EXCEPT ![h] = Idle]
      \/ UNCHANGED <<orderVars, reopened>> /\ call' = [call EXCEPT ![h] = Idle]
         /\ (early' = early \/ (r \in Refunds /\ ~Exists(r) /\ early' = early \cup {r}))
         /\ (Replay(h, r) \/ Refuse(h, r))
    BY Zenon DEF Served, Handle, Replay, Refuse, Create, Refund, Answer
<1> QED BY <1>1, <1>2, <1>3

\* An order keeps to one conversion, and a click to one of those that name it.
LEMMA OrdersStep ==
    ASSUME IntakeTypeOK, OrdersKnown, OneConversionEach, [IntakeNext]_intakeVars
    PROVE  OrdersKnown' /\ OneConversionEach'
<1> USE DEF OrdersKnown, OneConversionEach, CreditedAsNamed
<1>t. /\ effects \in [Requests -> Nat]
      /\ refunded \in [ShopOrders -> 0..Amount]
      /\ DOMAIN conversion = ShopOrders
      /\ click \in [ShopOrders -> Clicks]
      /\ call \in [Handlers -> [at : {"evaluating", "recording", "recorded"}, on : Requests] \cup {Idle}]
    BY DEF IntakeTypeOK
<1>a. /\ Amount \in Nat \ {0}
      /\ Payments \subseteq Requests /\ Refunds \subseteq Requests /\ Delivered \subseteq Requests
      /\ \A r \in Requests : OrderOf[r] \in ShopOrders
      /\ \A r \in Refunds : RefundOf[r] \in 1..Amount
      /\ Payments \cap Refunds = {}
    BY IntakeAssumption DEF Requests
<1>1. CASE Noted
    BY <1>1 DEF Noted, orderVars
<1>2. ASSUME NEW h \in Handlers, NEW r \in Requests, Served(h, r)
      PROVE  OrdersKnown' /\ OneConversionEach'
  <2>s. \A g \in Handlers \ {h} : call'[g] = call[g]
      BY <1>2, Serving
  <2>1. CASE UNCHANGED <<orderVars, reopened>> /\ call'[h] = Idle
      BY <2>1, <2>s DEF orderVars, Idle
  <2>2. CASE Create(h, r) /\ call'[h] = [at |-> "evaluating", on |-> r]
    <3>1. /\ r \in Payments /\ conversion[OrderOf[r]] = "NONE"
          /\ \A o \in ShopOrders : ClickOf[r] # NoClick => click[o] # ClickOf[r]
        BY <2>2 DEF Create, PaymentRefused, Exists, ClickUsed
    <3>2. /\ conversion' = [conversion EXCEPT ![OrderOf[r]] = "PENDING"]
          /\ effects' = [effects EXCEPT ![r] = @ + 1] /\ refunded' = refunded
        BY <2>2 DEF Create
    <3>3. \A q \in Payments : effects[q] > 0 => OrderOf[q] # OrderOf[r]
        BY <3>1
    <3>4. effects[r] = 0
        BY <3>1, <3>3, <1>t
    <3>5. OneConversionEach'
      <4>1. \A q \in Payments : effects[q] > 0 => click'[OrderOf[q]] = click[OrderOf[q]]
          BY <2>2, <3>3, <1>t, <1>a DEF Create
      <4>2. \A q \in Payments : effects[q] > 0 /\ ClickOf[q] = ClickOf[r] => ~CreditedAsNamed(q)'
          BY <3>1, <4>1, <1>a
      <4> QED BY <3>1, <3>2, <3>3, <3>4, <4>1, <4>2, <1>t, <1>a
    <3>6. OrdersKnown'
        BY <3>1, <3>2, <2>2, <2>s, <1>t, <1>a
    <3> QED BY <3>5, <3>6
  <2>3. CASE Refund(h, r) /\ call'[h] = Idle
    <3>1. r \in Refunds /\ r \notin Payments /\ RefundOf[r] <= Amount - refunded[OrderOf[r]]
        BY <2>3, <1>t, <1>a DEF Refund, RefundRefused, Remaining
    <3>2. /\ refunded' = [refunded EXCEPT ![OrderOf[r]] = refunded[OrderOf[r]] + RefundOf[r]]
          /\ effects' = [effects EXCEPT ![r] = @ + 1]
          /\ conversion' = [conversion EXCEPT ![OrderOf[r]] =
                 IF refunded[OrderOf[r]] + RefundOf[r] >= Amount THEN "REFUNDED" ELSE "PARTIALLY_REFUNDED"]
        BY <2>3 DEF Refund, FullyRefunded
    <3>c. click' = click
        BY <2>3 DEF Refund
    <3>3. \A p \in Payments : effects'[p] = effects[p]
        BY <3>1, <3>2, <1>t, <1>a
    <3>4. \A o \in ShopOrders : conversion'[o] = "REFUNDED" => refunded'[o] = Amount
        BY <3>1, <3>2, <1>t, <1>a
    <3>5. \A p \in Payments : effects'[p] > 0 => conversion'[OrderOf[p]] # "NONE"
        BY <3>2, <3>3, <1>t, <1>a
    <3>6. \A g \in Handlers : call'[g].at \in {"evaluating", "recording"} => call'[g] = call[g]
        BY <2>3, <2>s DEF Idle
    <3> QED BY <3>c, <3>3, <3>4, <3>5, <3>6
  <2> QED BY <1>2, <2>1, <2>2, <2>3, Serving
<1>3. ASSUME NEW h \in Handlers, NEW r \in Delivered, Deliver(h, r)
      PROVE  OrdersKnown' /\ OneConversionEach'
  <2>1. UNCHANGED orderVars /\ call' \in {call, [call EXCEPT ![h] = [at |-> "recorded", on |-> r]]}
      BY <1>3, Zenon DEF Deliver
  <2> QED BY <2>1, <1>t DEF orderVars
<1>4. ASSUME NEW h \in Handlers, NEW d \in {"APPROVED", "REJECTED", "PENDING"}, EvaluationEnds(h, d)
      PROVE  OrdersKnown' /\ OneConversionEach'
  <2>1. /\ call[h].at = "evaluating" /\ UNCHANGED <<refunded, click, effects>>
        /\ call' = [call EXCEPT ![h] = [at |-> "recording", on |-> call[h].on]]
        /\ conversion' = [conversion EXCEPT ![OrderOf[call[h].on]] = d]
      BY <1>4 DEF EvaluationEnds
  <2> QED BY <2>1, <1>t, <1>a
<1>5. ASSUME NEW h \in Handlers, CreationEnds(h) \/ CreationFails(h)
      PROVE  OrdersKnown' /\ OneConversionEach'
  <2>1. /\ UNCHANGED <<conversion, refunded, click, effects>>
        /\ call' = [call EXCEPT ![h] = Idle]
      BY <1>5 DEF CreationEnds, CreationFails, Answer, orderVars
  <2> QED BY <2>1, <1>t DEF Idle
<1>6. ASSUME NEW k \in Keys, KeyExpires(k)
      PROVE  OrdersKnown' /\ OneConversionEach'
    BY <1>6 DEF KeyExpires
<1>7. CASE Restart
  <2>1. PICK lost \in SUBSET {r \in Payments : MayBeLost(r)}, undecided \in SUBSET Decided :
            /\ conversion' = [o \in ShopOrders |->
                                CASE \E r \in lost : OrderOf[r] = o -> "NONE"
                                  [] o \in undecided -> "PENDING"
                                  [] OTHER -> conversion[o]]
            /\ click' = [o \in ShopOrders |->
                            IF \E r \in lost : OrderOf[r] = o THEN NoClick ELSE click[o]]
            /\ effects' = [r \in Requests |-> IF r \in lost THEN 0 ELSE effects[r]]
      BY <1>7 DEF Restart
  <2>2. ASSUME NEW r \in lost
        PROVE  r \in Payments /\ effects[r] > 0
    <3>1. r \in Payments /\ MayBeLost(r)
        BY <2>1
    <3>2. PICK h \in Handlers : call[h] = [at |-> "evaluating", on |-> r]
        BY <3>1, Zenon DEF MayBeLost
    <3>3. call[h].at = "evaluating" /\ call[h].on = r
        BY <3>2
    <3> QED BY <3>1, <3>3
  <2>3. \A q \in Payments : effects'[q] > 0 => effects'[q] = effects[q] /\ q \notin lost
      BY <2>1, <1>t, <1>a
  <2>4. OneConversionEach'
    <3>1. \A q \in Payments : CreditedAsNamed(q)' => CreditedAsNamed(q)
        BY <2>1, <1>a
    <3> QED BY <2>3, <3>1
  <2>5. ASSUME NEW q \in Payments, effects'[q] > 0
        PROVE  conversion'[OrderOf[q]] # "NONE"
    <3>1. effects[q] > 0 /\ ~\E r \in lost : OrderOf[r] = OrderOf[q]
        BY <2>2, <2>3, <2>5
    <3>2. conversion'[OrderOf[q]] \in {"PENDING", conversion[OrderOf[q]]}
        BY <2>1, <3>1, <1>a
    <3> QED BY <3>1, <3>2
  <2>6. \A o \in ShopOrders : conversion'[o] = "REFUNDED" => refunded'[o] = Amount
    <3>1. \A o \in ShopOrders : conversion'[o] \in {"NONE", "PENDING", conversion[o]}
        BY <2>1
    <3> QED BY <3>1, <1>7 DEF Restart
  <2>7. \A g \in Handlers : call'[g] = Idle
      BY <1>7 DEF Restart
  <2> QED BY <2>4, <2>5, <2>6, <2>7 DEF Idle
<1> QED BY IntakeSplit, <1>1, <1>2, <1>3, <1>4, <1>5, <1>6, <1>7

\* Under a key that was not opened again one request takes effect, once.
LEMMA KeysStep ==
    ASSUME IntakeTypeOK, OrdersKnown, KeysKnown, TakesEffectOnce, [IntakeNext]_intakeVars
    PROVE  KeysKnown' /\ TakesEffectOnce'
<1> DEFINE Mine(k) == {q \in Requests : KeyOf[q] = k /\ effects[q] > 0}
           Once == \A p, q \in Refunds :
                      IdOf[p] # NoId /\ effects[p] > 0 /\ effects[q] > 0
                      /\ OrderOf[p] = OrderOf[q] /\ IdOf[p] = IdOf[q] => p = q /\ effects[p] = 1
           Single == \A k \in Keys \ reopened : \A p, q \in Mine(k) : p = q /\ effects[p] = 1
<1>t. /\ effects \in [Requests -> Nat]
      /\ stored \in [Keys -> Requests \cup {Nothing}]
      /\ call \in [Handlers -> [at : {"evaluating", "recording", "recorded"}, on : Requests] \cup {Idle}]
    BY DEF IntakeTypeOK
<1>a. /\ Payments \subseteq Requests /\ Refunds \subseteq Requests /\ Delivered \subseteq Requests
      /\ Payments \cap Refunds = {} /\ Nothing \notin Requests
      /\ \A r \in Requests : KeyOf[r] # NoKey => KeyOf[r] \in Keys
      /\ NoKey \notin Keys
    BY IntakeAssumption DEF Requests, Keys
<1>o. Once /\ Single
    BY DEF TakesEffectOnce
<1>c. \A q \in Requests : Creating(q) => q \in Payments
    BY DEF Creating, OrdersKnown
<1> SUFFICES KeysKnown' /\ Once' /\ Single'
    BY DEF TakesEffectOnce
<1>1. ASSUME UNCHANGED <<effects, stored, reopened>>,
             \A q \in Requests : Creating(q) => Creating(q)'
      PROVE  KeysKnown' /\ Once' /\ Single'
    BY <1>1, <1>o DEF KeysKnown
<1>2. CASE Noted
    BY <1>1, <1>2 DEF Noted, orderVars, Creating
<1>3. ASSUME NEW h \in Handlers, NEW r \in Requests, Served(h, r)
      PROVE  KeysKnown' /\ Once' /\ Single'
  <2>s. /\ call[h].at \notin {"evaluating", "recording"}
        /\ \A g \in Handlers \ {h} : call'[g] = call[g]
      BY <1>3, Serving
  <2>c. \A q \in Requests : Creating(q) => Creating(q)'
      BY <2>s DEF Creating
  <2>1. CASE UNCHANGED <<orderVars, reopened>>
      BY <1>1, <2>1, <2>c DEF orderVars
  <2>2. ASSUME Create(h, r) \/ Refund(h, r)
        PROVE  /\ effects' = [effects EXCEPT ![r] = @ + 1]
               /\ reopened \subseteq reopened'
               /\ \A q \in Requests : Creating(q) /\ KeyOf[q] = KeyOf[r] => KeyOf[r] \in reopened'
               /\ KeyOf[r] # NoKey => stored[KeyOf[r]] = Nothing
    <3>1. effects' = [effects EXCEPT ![r] = @ + 1] /\ Reopen(r) /\ ~Replays(r) /\ ~KeyReused(r)
        BY <2>2, Zenon DEF Create, Refund
    <3> QED BY <3>1, <1>c DEF Reopen, Replays, KeyReused
  <2>3. ASSUME Create(h, r) \/ Refund(h, r), KeyOf[r] \in Keys \ reopened',
               NEW q \in Requests, KeyOf[q] = KeyOf[r]
        PROVE  ~(effects[q] > 0)
    <3>1. KeyOf[r] \in Keys \ reopened /\ ~Creating(q) /\ stored[KeyOf[r]] = Nothing
        BY <2>2, <2>3, <1>a
    <3> QED BY <3>1, <2>3, <1>a DEF KeysKnown
  <2>4. ASSUME Create(h, r) \/ Refund(h, r)
        PROVE  Single'
    <3> SUFFICES ASSUME NEW k \in Keys \ reopened', NEW p \in Mine(k)', NEW q \in Mine(k)'
                 PROVE  p = q /\ effects'[p] = 1
        OBVIOUS
    <3>1. /\ p \in Requests /\ KeyOf[p] = k /\ effects'[p] > 0
          /\ q \in Requests /\ KeyOf[q] = k /\ effects'[q] > 0
        OBVIOUS
    <3>2. CASE KeyOf[r] = k
        BY <3>1, <3>2, <2>2, <2>3, <2>4, <1>t
    <3>3. CASE KeyOf[r] # k
      <4>1. p \in Mine(k) /\ q \in Mine(k) /\ effects'[p] = effects[p] /\ k \in Keys \ reopened
          BY <3>1, <3>3, <2>2, <2>4, <1>t
      <4> QED BY <4>1, <1>o
    <3> QED BY <3>2, <3>3
  <2>5. ASSUME Create(h, r) \/ Refund(h, r),
               \A k \in Keys : stored'[k] = stored[k] \/ (k = KeyOf[r] /\ stored'[k] = r),
               KeyOf[r] \in Keys \ reopened' => stored'[KeyOf[r]] = r \/ Creating(r)'
        PROVE  KeysKnown'
    <3>1. ASSUME NEW q \in Requests, effects'[q] > 0, KeyOf[q] \in Keys \ reopened'
          PROVE  stored'[KeyOf[q]] = q \/ Creating(q)'
      <4>1. CASE q = r
          BY <4>1, <3>1, <2>5
      <4>2. CASE q # r
        <5>1. effects[q] > 0 /\ KeyOf[q] # KeyOf[r]
            BY <3>1, <4>2, <2>2, <2>3, <2>5, <1>t
        <5>2. stored[KeyOf[q]] = q \/ Creating(q)
            BY <5>1, <3>1, <2>2, <2>5 DEF KeysKnown
        <5> QED BY <5>1, <5>2, <3>1, <2>5, <2>c
      <4> QED BY <4>1, <4>2
    <3>2. \A k \in Keys : stored'[k] # Nothing => KeyOf[stored'[k]] = k
        BY <2>5 DEF KeysKnown
    <3>3. ASSUME NEW k \in Keys \ reopened', stored'[k] # Nothing
          PROVE  effects'[stored'[k]] > 0
      <4>1. \A q \in Requests : effects[q] > 0 \/ q = r => effects'[q] > 0
          BY <2>2, <2>5, <1>t
      <4>2. stored'[k] = r \/ (stored'[k] = stored[k] /\ stored[k] \in Requests /\ effects[stored[k]] > 0)
          BY <3>3, <2>2, <2>5, <1>t DEF KeysKnown
      <4> QED BY <4>1, <4>2
    <3> QED BY <3>1, <3>2, <3>3 DEF KeysKnown
  <2>6. CASE Create(h, r) /\ call'[h] = [at |-> "evaluating", on |-> r]
    <3>1. Creating(r)' /\ stored' = stored /\ r \in Payments
        BY <2>6 DEF Create, Creating
    <3>2. KeysKnown'
        BY <3>1, <2>5, <2>6
    <3>3. Once'
        BY <3>1, <2>2, <2>6, <1>o, <1>t, <1>a
    <3> QED BY <3>2, <3>3, <2>4, <2>6
  <2>7. CASE Refund(h, r)
    <3>1. /\ Store(r) /\ r \in Refunds
          /\ \A q \in Refunds : IdOf[r] # NoId /\ OrderOf[q] = OrderOf[r] /\ IdOf[q] = IdOf[r] => ~(effects[q] > 0)
        BY <2>7 DEF Refund, RefundRefused, Applied
    <3>2. /\ \A k \in Keys : stored'[k] = stored[k] \/ (k = KeyOf[r] /\ stored'[k] = r)
          /\ KeyOf[r] \in Keys => stored'[KeyOf[r]] = r
        BY <3>1, <2>2, <2>7, <1>t, <1>a DEF Store
    <3>3. KeysKnown'
        BY <3>2, <2>5, <2>7
    <3>4. Once'
        BY <3>1, <2>2, <2>7, <1>o, <1>t, <1>a
    <3> QED BY <3>3, <3>4, <2>4, <2>7
  <2> QED BY <1>3, <2>1, <2>6, <2>7, Serving
<1>4. ASSUME NEW h \in Handlers, NEW r \in Delivered, Deliver(h, r)
      PROVE  KeysKnown' /\ Once' /\ Single'
  <2>1. /\ UNCHANGED <<effects, stored, reopened>> /\ call[h].at = "idle"
        /\ call' \in {call, [call EXCEPT ![h] = [at |-> "recorded", on |-> r]]}
      BY <1>4, Zenon DEF Deliver, Engaged, orderVars
  <2>2. \A q \in Requests : Creating(q) => Creating(q)'
      BY <2>1, <1>t DEF Creating
  <2> QED BY <1>1, <2>1, <2>2
<1>5. ASSUME NEW h \in Handlers, NEW d \in {"APPROVED", "REJECTED", "PENDING"}, EvaluationEnds(h, d)
      PROVE  KeysKnown' /\ Once' /\ Single'
  <2>1. /\ UNCHANGED <<effects, stored, reopened>> /\ call[h].at = "evaluating"
        /\ call' = [call EXCEPT ![h] = [at |-> "recording", on |-> call[h].on]]
      BY <1>5 DEF EvaluationEnds
  <2>2. \A q \in Requests : Creating(q) => Creating(q)'
      BY <2>1, <1>t DEF Creating
  <2> QED BY <1>1, <2>1, <2>2
<1>6. ASSUME NEW h \in Handlers, CreationEnds(h)
      PROVE  KeysKnown' /\ Once' /\ Single'
  <2> DEFINE r == call[h].on
  <2>1. /\ call[h].at = "recording" /\ UNCHANGED <<effects, reopened>> /\ Store(r)
        /\ call' = [call EXCEPT ![h] = Idle]
      BY <1>6 DEF CreationEnds, Answer
  <2>2. r \in Payments /\ r \in Requests /\ effects[r] > 0
      BY <2>1, <1>a DEF OrdersKnown
  <2>3. Once' /\ Single'
      BY <2>1, <1>o
  <2>4. /\ \A k \in Keys : stored'[k] = stored[k] \/ (k = KeyOf[r] /\ stored'[k] = r)
        /\ KeyOf[r] \in Keys => stored'[KeyOf[r]] # Nothing
      BY <2>1, <2>2, <1>t, <1>a DEF Store
  <2> HIDE DEF r
  <2>5. ASSUME NEW q \in Requests, effects[q] > 0, KeyOf[q] \in Keys \ reopened
        PROVE  stored'[KeyOf[q]] = q \/ Creating(q)'
    <3>1. CASE KeyOf[q] = KeyOf[r]
      <4>1. q = r
          BY <3>1, <2>2, <2>5, <1>o
      <4>2. CASE stored[KeyOf[r]] = Nothing
          BY <4>1, <4>2, <2>4, <2>5
      <4>3. CASE stored[KeyOf[r]] # Nothing
        <5>1. stored[KeyOf[r]] \in Mine(KeyOf[r])
            BY <4>3, <3>1, <2>5, <1>t DEF KeysKnown
        <5>2. stored[KeyOf[r]] = r
            BY <5>1, <3>1, <2>2, <2>5, <1>o
        <5> QED BY <4>1, <5>2, <2>4, <2>5
      <4> QED BY <4>2, <4>3
    <3>2. CASE KeyOf[q] # KeyOf[r]
      <4>1. stored'[KeyOf[q]] = stored[KeyOf[q]] /\ q # r
          BY <3>2, <2>4, <2>5
      <4>2. Creating(q) => Creating(q)'
          BY <4>1, <2>1, <1>t DEF Creating, r
      <4> QED BY <4>1, <4>2, <2>5 DEF KeysKnown
    <3> QED BY <3>1, <3>2
  <2>6. KeysKnown'
      BY <2>1, <2>2, <2>4, <2>5 DEF KeysKnown
  <2> QED BY <2>3, <2>6
<1>7. ASSUME NEW h \in Handlers, CreationFails(h)
      PROVE  KeysKnown' /\ Once' /\ Single'
  <2>1. /\ UNCHANGED <<effects, stored>> /\ reopened' = reopened \cup {KeyOf[call[h].on]}
        /\ call' = [call EXCEPT ![h] = Idle]
      BY <1>7 DEF CreationFails, Answer, orderVars
  <2>2. \A q \in Requests : Creating(q) /\ q # call[h].on => Creating(q)'
      BY <2>1, <1>t DEF Creating
  <2>3. Once' /\ Single'
      BY <2>1, <1>o
  <2> QED BY <2>1, <2>2, <2>3 DEF KeysKnown
<1>8. ASSUME NEW k \in Keys, KeyExpires(k)
      PROVE  KeysKnown' /\ Once' /\ Single'
  <2>1. /\ UNCHANGED <<effects, call>> /\ reopened' = reopened \cup {k}
        /\ stored' = [stored EXCEPT ![k] = Nothing]
      BY <1>8 DEF KeyExpires
  <2>2. Once' /\ Single'
      BY <2>1, <1>o
  <2> QED BY <2>1, <2>2, <1>t DEF KeysKnown, Creating
<1>9. CASE Restart
  <2>1. PICK lost \in SUBSET {r \in Payments : MayBeLost(r)} :
            effects' = [r \in Requests |-> IF r \in lost THEN 0 ELSE effects[r]]
      BY <1>9 DEF Restart
  <2>2. /\ stored' = stored
        /\ reopened' = reopened \cup {KeyOf[call[h].on] : h \in {g \in Handlers : Engaged(g)}}
      BY <1>9 DEF Restart
  <2>3. \A q \in Requests : Creating(q) => KeyOf[q] \in reopened'
      BY <2>2 DEF Creating, Engaged
  <2>4. ASSUME NEW q \in lost
        PROVE  q \in Payments /\ q \in Requests /\ Creating(q)
    <3>1. q \in Payments /\ MayBeLost(q)
        BY <2>1
    <3>2. PICK h \in Handlers : call[h] = [at |-> "evaluating", on |-> q]
        BY <3>1, Zenon DEF MayBeLost
    <3>3. call[h].at = "evaluating" /\ call[h].on = q
        BY <3>2
    <3> QED BY <3>1, <3>3, <1>a DEF Creating
  <2>5. \A q \in Requests : \/ effects'[q] = effects[q]
                            \/ effects'[q] = 0 /\ Creating(q) /\ q \in Payments
      BY <2>1, <2>4
  <2>6. Once' /\ Single'
    <3>1. Once'
        BY <2>5, <1>o, <1>a
    <3>2. Single'
        BY <2>2, <2>5, <1>o
    <3> QED BY <3>1, <3>2
  <2>7. KeysKnown'
    <3>1. ASSUME NEW k \in Keys \ reopened', stored'[k] # Nothing
          PROVE  effects'[stored'[k]] > 0
      <4>1. stored[k] \in Requests /\ KeyOf[stored[k]] = k /\ effects[stored[k]] > 0
          BY <3>1, <2>2, <1>t DEF KeysKnown
      <4> QED BY <4>1, <3>1, <2>2, <2>3, <2>5
    <3>2. ASSUME NEW q \in Requests, effects'[q] > 0, KeyOf[q] \in Keys \ reopened'
          PROVE  stored'[KeyOf[q]] = q
        BY <3>2, <2>2, <2>3, <2>5 DEF KeysKnown
    <3> QED BY <3>1, <3>2, <2>2 DEF KeysKnown
  <2> QED BY <2>6, <2>7
<1> QED BY IntakeSplit, <1>2, <1>3, <1>4, <1>5, <1>6, <1>7, <1>8, <1>9

\* An event is not noted before it is handed on, nor refused without a reason.
LEMMA EventsStep ==
    ASSUME IntakeTypeOK, OrdersKnown, KeysKnown, EventsKnown, [IntakeNext]_intakeVars
    PROVE  EventsKnown'
<1> DEFINE Taken(r) == event[r] # "NONE" /\ r \notin cut \cup unverified /\ bridged[r] = "none"
           Unfit(r) == bridged[r] = "error" /\ r \in Refunds \ early
           Left(r) == Applied(r) \/ RefundOf[r] > Remaining(OrderOf[r])
<1>t. /\ effects \in [Requests -> Nat]
      /\ refunded \in [ShopOrders -> 0..Amount]
      /\ stored \in [Keys -> Requests \cup {Nothing}]
      /\ call \in [Handlers -> [at : {"evaluating", "recording", "recorded"}, on : Requests] \cup {Idle}]
      /\ event \in [Delivered -> {"NONE", "PROCESSED", "FAILED", "DUPLICATE"}]
      /\ bridged \in [Delivered -> {"none", "done", "error"}]
    BY DEF IntakeTypeOK
<1>a. /\ Amount \in Nat
      /\ Payments \subseteq Requests /\ Refunds \subseteq Requests /\ Delivered \subseteq Requests
      /\ \A r \in Requests : OrderOf[r] \in ShopOrders
      /\ \A r \in Refunds : RefundOf[r] \in 1..Amount
      /\ Payments \cap Refunds = {} /\ Nothing \notin Requests
      /\ \A r \in Delivered : KeyOf[r] \in Keys /\ \A q \in Requests : KeyOf[q] = KeyOf[r] => q = r
    BY IntakeAssumption DEF Requests, Keys
<1>e. \A r \in Delivered : (Taken(r) => Pending(r)) /\ (Unfit(r) => Left(r))
    BY DEF EventsKnown
<1> SUFFICES ASSUME NEW r \in Delivered
             PROVE  (Taken(r)' => Pending(r)') /\ (Unfit(r)' => Left(r)')
    BY DEF EventsKnown
<1>p. effects' \in [Requests -> Nat] /\ refunded' \in [ShopOrders -> 0..Amount]
    BY IntakeTypeStep DEF IntakeTypeOK
<1>1. ASSUME \A q \in Refunds : effects'[q] >= effects[q],
             \A o \in ShopOrders : refunded'[o] >= refunded[o], Left(r), r \in Refunds
      PROVE  Left(r)'
  <2>1. CASE RefundOf[r] > Remaining(OrderOf[r])
      BY <1>1, <2>1, <1>t, <1>p, <1>a DEF Remaining
  <2>2. CASE Applied(r)
    <3>1. PICK q \in Refunds : OrderOf[q] = OrderOf[r] /\ IdOf[q] = IdOf[r] /\ effects[q] > 0
        BY <2>2, Zenon DEF Applied
    <3>2. IdOf[r] # NoId
        BY <2>2, Zenon DEF Applied
    <3>3. effects'[q] > 0
        BY <3>1, <1>1, <1>t, <1>p, <1>a
    <3> QED BY <3>1, <3>2, <3>3, Zenon DEF Applied
  <2> QED BY <1>1, <2>1, <2>2
<1>2. ASSUME UNCHANGED <<effects, refunded>>, bridged'[r] = bridged[r], r \in early => r \in early'
      PROVE  Unfit(r)' => Left(r)'
  <2> SUFFICES ASSUME Unfit(r)' PROVE Left(r)'
      OBVIOUS
  <2>1. Unfit(r)
      BY <1>2
  <2>2. \A q \in Refunds : effects'[q] >= effects[q]
      BY <1>2, <1>t, <1>a
  <2>3. \A o \in ShopOrders : refunded'[o] >= refunded[o]
      BY <1>2, <1>t
  <2> QED BY <2>1, <2>2, <2>3, <1>1, <1>e
<1>3. CASE Noted
  <2>1. Unfit(r)' => Left(r)'
      BY <1>2, <1>3 DEF Noted, orderVars, markVars
  <2>2. Taken(r)' => Pending(r)'
      BY <1>3, <1>e DEF Noted, orderVars, markVars, Pending
  <2> QED BY <2>1, <2>2
<1>4. ASSUME NEW h \in Handlers, NEW q \in Requests, Served(h, q)
      PROVE  (Taken(r)' => Pending(r)') /\ (Unfit(r)' => Left(r)')
  <2>s. \A g \in Handlers \ {h} : call'[g] = call[g]
      BY <1>4, Serving
  <2>u. UNCHANGED <<event, cut, unverified>>
      BY <1>4 DEF Served
  <2>h. (call[h].on = r \/ q = r) => q = r /\ call[h].on = r
      BY <1>4, <1>a DEF Served, Idle
  <2>b. \/ bridged' = bridged /\ Create(h, q) /\ call'[h].on = q
        \/ \E how \in {"done", "error"} :
              bridged' = IF q \in Delivered THEN [bridged EXCEPT ![q] = how] ELSE bridged
    <3>1. \/ bridged' = bridged /\ Create(h, q) /\ call' = [call EXCEPT ![h] = [at |-> "evaluating", on |-> q]]
          \/ Answer(h, q, "done") \/ Answer(h, q, "error")
        BY <1>4, Zenon DEF Served, Handle, Replay, Refuse, Create, Refund
    <3> QED BY <3>1, <1>t DEF Answer
  <2>1. Taken(r)' => Pending(r)'
    <3>1. CASE q = r
      <4>1. bridged'[r] # "none" \/ call'[h].on = r
          BY <3>1, <2>b, <1>t
      <4> QED BY <4>1 DEF Pending
    <3>2. CASE q # r
      <4>1. bridged'[r] = bridged[r]
          BY <3>2, <2>b, <1>t
      <4>2. Pending(r) => Pending(r)'
          BY <3>2, <2>h, <2>s DEF Pending
      <4> QED BY <4>1, <4>2, <2>u, <1>e
    <3> QED BY <3>1, <3>2
  <2>2. Unfit(r)' => Left(r)'
    <3> SUFFICES ASSUME Unfit(r)' PROVE Left(r)'
        OBVIOUS
    <3>1. CASE Create(h, q)
      <4>1. q \in Payments /\ effects' = [effects EXCEPT ![q] = @ + 1] /\ refunded' = refunded
            /\ bridged' = bridged /\ early' = early
          BY <3>1, Zenon DEF Create
      <4> QED BY <4>1, <1>1, <1>e, <1>t, <1>a
    <3>2. CASE Refund(h, q)
      <4>1. /\ q \in Refunds /\ effects' = [effects EXCEPT ![q] = @ + 1] /\ early' = early
            /\ refunded' = [refunded EXCEPT ![OrderOf[q]] = refunded[OrderOf[q]] + RefundOf[q]]
            /\ Answer(h, q, "done")
          BY <3>2 DEF Refund
      <4>2. bridged[r] = "error"
          BY <4>1, <1>t DEF Answer
      <4> QED BY <4>1, <4>2, <1>1, <1>e, <1>t, <1>a
    <3>3. CASE Replay(h, q)
      <4>1. UNCHANGED <<effects, refunded, early>> /\ Answer(h, q, "done")
          BY <3>3 DEF Replay, orderVars
      <4>2. bridged[r] = "error"
          BY <4>1, <1>t DEF Answer
      <4> QED BY <4>1, <4>2, <1>1, <1>e, <1>t, <1>a
    <3>4. CASE Refuse(h, q)
      <4>1. UNCHANGED <<effects, refunded>> /\ Answer(h, q, "error")
            /\ early' = IF q \in Refunds /\ ~Exists(q) THEN early \cup {q} ELSE early
          BY <3>4 DEF Refuse, orderVars
      <4>2. CASE q # r
        <5>1. bridged'[r] = bridged[r]
            BY <4>1, <4>2, <1>t DEF Answer
        <5> QED BY <4>1, <5>1, <1>2
      <4>3. CASE q = r
        <5>1. r \in Refunds /\ r \notin Payments /\ Exists(r)
            BY <4>1, <4>3, <1>a
        <5>2. ~KeyReused(r)
            BY <3>4, <4>3, <1>a, <1>t DEF Refuse, Replays, KeyReused, KeysKnown
        <5>3. RefundRefused(r)
            BY <3>4, <4>3, <5>1, <5>2, Zenon DEF Refuse
        <5>4. Left(r)
            BY <5>1, <5>3, <1>t, <1>a DEF RefundRefused, Remaining, OrdersKnown
        <5> QED BY <4>1, <5>1, <5>4, <1>1, <1>t, <1>a
      <4> QED BY <4>2, <4>3
    <3> QED BY <1>4, <3>1, <3>2, <3>3, <3>4, Zenon DEF Served, Handle
  <2> QED BY <2>1, <2>2
<1>5. ASSUME NEW h \in Handlers, NEW q \in Delivered, Deliver(h, q)
      PROVE  (Taken(r)' => Pending(r)') /\ (Unfit(r)' => Left(r)')
  <2>1. /\ call[h].at = "idle" /\ UNCHANGED <<effects, refunded, bridged, cut, early>>
        /\ \/ /\ event' = [event EXCEPT ![q] = "PROCESSED"]
              /\ call' = [call EXCEPT ![h] = [at |-> "recorded", on |-> q]]
              /\ unverified' = unverified
           \/ /\ event' = [event EXCEPT ![q] = "FAILED"]
              /\ call' = call
              /\ unverified' = unverified \cup {q}
      BY <1>5, Zenon DEF Deliver, Engaged, orderVars
  <2>2. Unfit(r)' => Left(r)'
      BY <1>2, <2>1
  <2>3. CASE q = r
    <3>1. r \in unverified' \/ call'[h].on = r
        BY <2>1, <2>3, <1>t
    <3> QED BY <2>2, <3>1 DEF Pending
  <2>4. CASE q # r
    <3>1. call[h].on # r
        BY <2>1, <1>t, <1>a DEF Idle
    <3>2. Pending(r) => Pending(r)'
        BY <3>1, <2>1, <1>t DEF Pending
    <3>3. Taken(r)' => Taken(r)
        BY <2>1, <2>4, <1>t
    <3> QED BY <2>2, <3>2, <3>3, <1>e
  <2> QED BY <2>3, <2>4
<1>6. ASSUME NEW h \in Handlers, NEW d \in {"APPROVED", "REJECTED", "PENDING"}, EvaluationEnds(h, d)
      PROVE  (Taken(r)' => Pending(r)') /\ (Unfit(r)' => Left(r)')
  <2>1. /\ UNCHANGED <<effects, refunded, event, bridged, cut, unverified, early>>
        /\ call' = [call EXCEPT ![h] = [at |-> "recording", on |-> call[h].on]]
      BY <1>6 DEF EvaluationEnds, eventVars, markVars
  <2>2. Pending(r) => Pending(r)'
      BY <2>1, <1>t DEF Pending
  <2> QED BY <2>1, <2>2, <1>2, <1>e
<1>7. ASSUME NEW h \in Handlers, CreationEnds(h) \/ CreationFails(h)
      PROVE  (Taken(r)' => Pending(r)') /\ (Unfit(r)' => Left(r)')
  <2>1. /\ call[h].at \in {"evaluating", "recording"}
        /\ UNCHANGED <<effects, refunded, event, cut, unverified, early>>
        /\ Answer(h, call[h].on, "done") \/ Answer(h, call[h].on, "error")
      BY <1>7, Zenon DEF CreationEnds, CreationFails, orderVars, markVars
  <2>2. call[h].on \in Payments /\ call' = [call EXCEPT ![h] = Idle]
      BY <2>1, Zenon DEF OrdersKnown, Answer
  <2>3. CASE call[h].on = r
    <3>1. r \notin Refunds /\ bridged'[r] # "none"
        BY <2>1, <2>2, <2>3, <1>t, <1>a DEF Answer
    <3> QED BY <3>1
  <2>4. CASE call[h].on # r
    <3>1. bridged'[r] = bridged[r]
        BY <2>1, <2>4, <1>t DEF Answer
    <3>2. Pending(r) => Pending(r)'
        BY <2>2, <2>4, <1>t DEF Pending
    <3> QED BY <2>1, <3>1, <3>2, <1>2, <1>e
  <2> QED BY <2>3, <2>4
<1>8. ASSUME NEW k \in Keys, KeyExpires(k)
      PROVE  (Taken(r)' => Pending(r)') /\ (Unfit(r)' => Left(r)')
    BY <1>2, <1>8, <1>e DEF KeyExpires, eventVars, markVars, Pending
<1>9. CASE Restart
  <2>1. PICK lost \in SUBSET {p \in Payments : MayBeLost(p)} :
            effects' = [p \in Requests |-> IF p \in lost THEN 0 ELSE effects[p]]
      BY <1>9 DEF Restart
  <2>2. UNCHANGED <<refunded, event, bridged, unverified, early>> /\ cut' = cut \cup {p \in Delivered : Pending(p)}
      BY <1>9 DEF Restart, eventVars
  <2>3. \A q \in Refunds : effects'[q] = effects[q]
      BY <2>1, <1>a
  <2>4. Unfit(r)' => Left(r)'
      BY <2>2, <2>3, <1>1, <1>e, <1>t, <1>a
  <2>5. Taken(r)' => Taken(r) /\ ~Pending(r)
      BY <2>2
  <2> QED BY <2>4, <2>5, <1>e
<1> QED BY IntakeSplit, <1>3, <1>4, <1>5, <1>6, <1>7, <1>8, <1>9

\* The inductive invariant of Intake holds in every state.
THEOREM IntakeInvHolds == IntakeSafety => []IntakeInv
<1>1. IntakeInit => IntakeInv
  <2> SUFFICES ASSUME IntakeInit PROVE IntakeInv
      OBVIOUS
  <2>1. trusted \in BOOLEAN
      BY Zenon DEF IntakeInit
  <2>2. IntakeTypeOK
      BY <2>1, IntakeAssumption DEF IntakeInit, IntakeTypeOK, Clicks
  <2>3. OrdersKnown /\ OneConversionEach
      BY DEF IntakeInit, OrdersKnown, OneConversionEach, Idle, Requests
  <2>4. KeysKnown /\ TakesEffectOnce
      BY DEF IntakeInit, KeysKnown, TakesEffectOnce, Requests
  <2>5. EventsKnown
      BY DEF IntakeInit, EventsKnown
  <2> QED BY <2>2, <2>3, <2>4, <2>5 DEF IntakeInv
<1>2. IntakeInv /\ [IntakeNext]_intakeVars => IntakeInv'
  <2> SUFFICES ASSUME IntakeInv, [IntakeNext]_intakeVars PROVE IntakeInv'
      OBVIOUS
  <2> QED BY IntakeTypeStep, OrdersStep, KeysStep, EventsStep DEF IntakeInv
<1> QED BY <1>1, <1>2, PTL DEF IntakeSafety

\* Every variable keeps its type.
THEOREM IntakeTypeCorrect == IntakeSafety => []IntakeTypeOK
BY IntakeInvHolds, PTL DEF IntakeInv

\* For any requests, however often they are sent, whatever restarts cut off and whatever
\* attributions come and go: an order makes one conversion, and of the payments that name a
\* click one is credited to it (createConversion).
THEOREM OrderPaidOnce == IntakeSafety => []OneConversionEach
BY IntakeInvHolds, PTL DEF IntakeInv

\* For any requests and keys: a refund is applied once per id, and one request takes effect
\* under a key, once, unless the key was opened again (createConversion, refundConversion).
THEOREM KeyTakesEffectOnce == IntakeSafety => []TakesEffectOnce
BY IntakeInvHolds, PTL DEF IntakeInv

\* For any events: one recorded as processed was handed on, and refused for a reason
\* (receiveWebhook).
THEOREM NoEventUnhandled == IntakeSafety => []EventIsHandled
<1>1. IntakeInv => EventIsHandled
    BY DEF IntakeInv, EventsKnown, EventIsHandled
<1> QED BY <1>1, IntakeInvHolds, PTL
=============================================================================

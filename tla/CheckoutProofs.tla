--------------------------- MODULE CheckoutProofs ---------------------------
(***************************************************************************)
(* What holds of Checkout for every set of requests, organizations and     *)
(* accounts, every limit of the coupon and every number of retries.  The   *)
(* invariant has five parts, one for each promise; each is inductive next  *)
(* to TypeOK.                                                              *)
(***************************************************************************)
EXTENDS Checkout, FiniteSetTheorems, TLAPS

\* What says that a payment was captured is right, and stays right.
Captured ==
    /\ \A c \in Calls :
          /\ verifying[c] \in {"captured", "writing"} => paid[c] = "captured"
          /\ "captured" \in events[c] => paid[c] = "captured"
    /\ GivenIsPaid

\* A discount goes with a redemption that was consumed, and consumed for good.
Discounts ==
    /\ \A c \in discount : redemption[c[1]] = "CONSUMED"
    /\ DiscountedOnce

\* What is attached to a subscription was reserved, so that redeeming it late is the
\* only way beyond the limit.
Limit ==
    /\ \A r \in Discounted : attached[r] # 0 => redemption[r] # "NONE"
    /\ WithinLimit

\* The reply to a call that is done is on record, and before it is there only calls
\* that overlap open orders beside each other.
Keys ==
    \A r \in keyed :
        /\ \A n \in 1..Tries[r] : call[<<r, n>>] = "done" => record[r] # 0
        /\ r \notin overlapped =>
              \A m, n \in 1..Tries[r] :
                  (/\ call[<<r, m>>] \in {"ordering", "done"}
                   /\ call[<<r, n>>] \in {"ordering", "done"}) => m = n

-----------------------------------------------------------------------------
\* A call is its request and its number.
LEMMA CallParts ==
    /\ \A c \in Calls : /\ c[1] \in Requests
                        /\ c[2] \in 1..Tries[c[1]]
                        /\ c = <<c[1], c[2]>>
    /\ \A r \in Requests : \A n \in 1..Tries[r] : <<r, n>> \in Calls
<1>1. ASSUME NEW c \in Calls
      PROVE  c[1] \in Requests /\ c[2] \in 1..Tries[c[1]] /\ c = <<c[1], c[2]>>
  <2>1. PICK r \in Requests : c \in {r} \X (1..Tries[r])
    BY DEF Calls
  <2> QED
    BY <2>1
<1>2. ASSUME NEW r \in Requests, NEW n \in 1..Tries[r]
      PROVE  <<r, n>> \in Calls
  BY DEF Calls
<1> QED
  BY <1>1, <1>2

LEMMA CallNumber ==
    \A c \in Calls : c[2] \in Nat /\ c[2] # 0
BY CallParts, CheckoutAssumption

\* Activating a call keeps the types, makes it live and leaves live what was live
\* and of another account.
LEMMA ActivateKeeps ==
    ASSUME TypeOK, NEW c \in Calls, Activate(c)
    PROVE  /\ subscription' \in
                  [Calls -> {"NONE", "AUTHENTICATION_PENDING", "ACTIVE", "EXPIRED"}]
           /\ activated' \in SUBSET Calls
           /\ subscription'[c] = "ACTIVE"
           /\ \A d \in Calls \ {c} : subscription'[d] = "ACTIVE" =>
                  subscription[d] = "ACTIVE" /\ ~SameAccount(c, d)
BY DEF TypeOK, Activate, Superseded

LEMMA ConsumeKeeps ==
    ASSUME TypeOK, NEW c \in Calls, Consume(c)
    PROVE  /\ redemption' \in [Requests -> RedemptionStatus \cup {"NONE"}]
           /\ attached' = attached
           /\ discount' \in SUBSET Calls
           /\ late' \in SUBSET Requests
           /\ \A r \in Requests \ {c[1]} : redemption'[r] = redemption[r]
           /\ redemption'[c[1]] \in {redemption[c[1]], "CONSUMED"}
BY CallParts DEF TypeOK, Consume, RedemptionStatus

\* Expiry only takes subscriptions out of their pending state.
LEMMA ExpireKeeps ==
    ASSUME TypeOK, NEW o, ExpireStale(o)
    PROVE  /\ subscription' \in
                  [Calls -> {"NONE", "AUTHENTICATION_PENDING", "ACTIVE", "EXPIRED"}]
           /\ \A d \in Calls : subscription'[d] = "ACTIVE" <=> subscription[d] = "ACTIVE"
BY DEF TypeOK, ExpireStale, PendingCheckouts

LEMMA ReserveKeeps ==
    ASSUME TypeOK, NEW r \in Requests, Reserve(r)
    PROVE  /\ redemption' \in [Requests -> RedemptionStatus \cup {"NONE"}]
           /\ \A s \in Requests : redemption[s] = "CONSUMED" <=> redemption'[s] = "CONSUMED"
           /\ r \in Discounted => redemption'[r] # "NONE"
           /\ \A s \in Requests : redemption[s] # "NONE" => redemption'[s] # "NONE"
BY DEF TypeOK, Reserve, RedemptionStatus

-----------------------------------------------------------------------------
(* Types *)

LEMMA TypeStep == TypeOK /\ [Next]_vars => TypeOK'
<1> SUFFICES ASSUME TypeOK, [Next]_vars PROVE TypeOK'
  OBVIOUS
<1> USE CallParts, CallNumber, CheckoutAssumption
<1>1. ASSUME NEW c \in Calls, RefuseCheckout(c) \/ ReplayCheckout(c)
      PROVE  TypeOK'
  <2>1. ExpireStale(Organization[c[1]])
    BY <1>1 DEF RefuseCheckout, ReplayCheckout
  <2>2. call' \in [Calls -> {"none", "refused", "replayed", "ordering", "done", "failed"}]
    BY <1>1 DEF TypeOK, RefuseCheckout, ReplayCheckout
  <2> QED
    BY <1>1, <2>1, <2>2, ExpireKeeps
    DEF TypeOK, RefuseCheckout, ReplayCheckout, couponVars, paymentVars, effectVars
<1>2. ASSUME NEW c \in Calls, OpenCheckout(c)
      PROVE  TypeOK'
  <2>1. redemption' \in [Requests -> RedemptionStatus \cup {"NONE"}]
    BY <1>2, ReserveKeeps DEF OpenCheckout
  <2>2. attached' \in [Requests -> Nat]
    BY <1>2 DEF OpenCheckout, TypeOK
  <2>3. subscription' \in
            [Calls -> {"NONE", "AUTHENTICATION_PENDING", "ACTIVE", "EXPIRED"}]
    BY <1>2 DEF OpenCheckout, TypeOK
  <2>4. call' \in [Calls -> {"none", "refused", "replayed", "ordering", "done", "failed"}]
    BY <1>2 DEF OpenCheckout, TypeOK
  <2>5. overlapped' \in SUBSET Requests
    BY <1>2 DEF OpenCheckout, TypeOK
  <2> QED
    BY <1>2, <2>1, <2>2, <2>3, <2>4, <2>5
    DEF OpenCheckout, TypeOK, paymentVars, effectVars
<1>3. ASSUME NEW c \in Calls, OrderCreated(c) \/ OrderFails(c)
      PROVE  TypeOK'
  BY <1>3 DEF TypeOK, OrderCreated, OrderFails, couponVars, paymentVars, effectVars
<1>4. ASSUME NEW c \in Calls, FailPayment(c) \/ Authorize(c) \/ Capture(c)
      PROVE  TypeOK'
  <2>1. paid' \in [Calls -> {"none", "failed", "authorized", "captured"}]
    <3>1. \E p \in {"failed", "authorized", "captured"} : paid' = [paid EXCEPT ![c] = p]
      BY <1>4 DEF FailPayment, Authorize, Capture
    <3> QED
      BY <3>1 DEF TypeOK
  <2>2. events' \in [Calls -> SUBSET {"failed", "captured"}]
    <3>1. events' = events \/ \E e \in {"failed", "captured"} :
              events' = [events EXCEPT ![c] = events[c] \cup {e}]
      BY <1>4 DEF FailPayment, Authorize, Capture
    <3> QED
      BY <3>1 DEF TypeOK
  <2> QED
    BY <1>4, <2>1, <2>2
    DEF TypeOK, FailPayment, Authorize, Capture, couponVars, effectVars
<1>5. ASSUME NEW c \in Calls, FetchPayment(c)
      PROVE  TypeOK'
  BY <1>5 DEF TypeOK, FetchPayment, couponVars, effectVars
<1>6. ASSUME NEW c \in Calls, VerifyFetched(c)
      PROVE  TypeOK'
  <2>1. /\ payment' \in [Calls -> {"none", "FAILED", "AUTHORIZED", "CAPTURED"}]
        /\ verifying' \in [Calls -> {"idle", "authorized", "captured", "writing"}]
    <3>1. \/ UNCHANGED payment
          \/ payment' = [payment EXCEPT ![c] = StatusOf(verifying[c])]
      BY <1>6 DEF VerifyFetched
    <3>2. \E v \in {"idle", "writing"} : verifying' = [verifying EXCEPT ![c] = v]
      BY <1>6 DEF VerifyFetched
    <3> QED
      BY <3>1, <3>2 DEF TypeOK, StatusOf
  <2>2. CASE Activate(c) /\ Consume(c)
    BY <1>6, <2>1, <2>2, ActivateKeeps, ConsumeKeeps DEF TypeOK, VerifyFetched
  <2>3. CASE UNCHANGED <<subscription, couponVars, effectVars>>
    BY <1>6, <2>1, <2>3 DEF TypeOK, VerifyFetched, couponVars, effectVars
  <2> QED
    BY <1>6, <2>2, <2>3 DEF VerifyFetched
<1>7. ASSUME NEW c \in Calls, VerifyWritten(c)
      PROVE  TypeOK'
  BY <1>7, ActivateKeeps, ConsumeKeeps DEF TypeOK, VerifyWritten
<1>8. ASSUME NEW c \in Calls, HandlePaymentCaptured(c)
      PROVE  TypeOK'
  <2>1. /\ payment' \in [Calls -> {"none", "FAILED", "AUTHORIZED", "CAPTURED"}]
        /\ events' \in [Calls -> SUBSET {"failed", "captured"}]
    BY <1>8 DEF TypeOK, HandlePaymentCaptured
  <2>2. CASE Activate(c) /\ Consume(c)
    BY <1>8, <2>1, <2>2, ActivateKeeps, ConsumeKeeps DEF TypeOK, HandlePaymentCaptured
  <2>3. CASE UNCHANGED <<payment, subscription, couponVars, effectVars>>
    BY <1>8, <2>1, <2>3 DEF TypeOK, HandlePaymentCaptured, couponVars, effectVars
  <2> QED
    BY <1>8, <2>2, <2>3 DEF HandlePaymentCaptured
<1>9. ASSUME NEW c \in Calls, HandlePaymentFailed(c)
      PROVE  TypeOK'
  BY <1>9 DEF TypeOK, HandlePaymentFailed, couponVars, effectVars
<1>10. ASSUME NEW r \in Requests, ReservationTimesOut(r) \/ ReadSubscription(Organization[r])
       PROVE  TypeOK'
  BY <1>10 DEF TypeOK, ReservationTimesOut, ReadSubscription, ExpireStale, couponVars,
               paymentVars, effectVars
<1>11. CASE OpenOrCloseCoupon
  BY <1>11 DEF TypeOK, OpenOrCloseCoupon, couponVars, paymentVars, effectVars
<1>12. CASE UNCHANGED vars
  BY <1>12 DEF TypeOK, vars, couponVars, paymentVars, effectVars
<1> QED
  BY <1>1, <1>2, <1>3, <1>4, <1>5, <1>6, <1>7, <1>8, <1>9, <1>10, <1>11, <1>12
  DEF Next, Verify

\* Every variable keeps its type.
THEOREM TypeCorrect == Safety => []TypeOK
<1>1. Init => TypeOK
  BY DEF Init, TypeOK, RedemptionStatus
<1> QED
  BY <1>1, TypeStep, PTL DEF Safety

-----------------------------------------------------------------------------
(* Nothing unpaid *)

\* A payment that is captured stays captured.
LEMMA CapturedStays ==
    ASSUME TypeOK, Next, NEW d \in Calls, paid[d] = "captured"
    PROVE  paid'[d] = "captured"
<1>1. ASSUME NEW c \in Calls, FailPayment(c) \/ Authorize(c) \/ Capture(c)
      PROVE  paid'[d] = "captured"
  BY <1>1 DEF TypeOK, FailPayment, Authorize, Capture
<1>2. ASSUME NEW c \in Calls,
             RefuseCheckout(c) \/ ReplayCheckout(c) \/ OpenCheckout(c) \/
             OrderCreated(c) \/ OrderFails(c) \/ FetchPayment(c) \/ VerifyFetched(c) \/
             VerifyWritten(c) \/ HandlePaymentCaptured(c) \/ HandlePaymentFailed(c)
      PROVE  paid' = paid
  BY <1>2 DEF RefuseCheckout, ReplayCheckout, OpenCheckout, OrderCreated, OrderFails,
              FetchPayment, VerifyFetched, VerifyWritten, HandlePaymentCaptured,
              HandlePaymentFailed, paymentVars
<1>3. ASSUME NEW r \in Requests, ReservationTimesOut(r) \/ ReadSubscription(Organization[r])
      PROVE  paid' = paid
  BY <1>3 DEF ReservationTimesOut, ReadSubscription, paymentVars
<1>4. CASE OpenOrCloseCoupon
  BY <1>4 DEF OpenOrCloseCoupon, paymentVars
<1> QED
  BY <1>1, <1>2, <1>3, <1>4 DEF Next, Verify

\* What a payment that is captured gives is paid for.
LEMMA GivenPaid ==
    ASSUME TypeOK, Captured, NEW c \in Calls, Activate(c), Consume(c),
           paid[c] = "captured", paid' = paid
    PROVE  GivenIsPaid'
<1>1. ASSUME NEW d \in Calls, subscription'[d] = "ACTIVE"
      PROVE  paid'[d] = "captured"
  BY <1>1, ActivateKeeps DEF Captured, GivenIsPaid
<1>2. ASSUME NEW r \in Requests, redemption'[r] = "CONSUMED"
      PROVE  \E d \in Calls : d[1] = r /\ paid'[d] = "captured"
  <2>1. CASE r = c[1]
    BY <2>1
  <2>2. CASE r # c[1]
    BY <1>2, <2>2, ConsumeKeeps DEF Captured, GivenIsPaid
  <2> QED
    BY <2>1, <2>2
<1> QED
  BY <1>1, <1>2 DEF GivenIsPaid

\* Where neither subscriptions nor redemptions come alive, what was given stays paid.
LEMMA NothingGiven ==
    ASSUME TypeOK, Captured, Next,
           \A d \in Calls : subscription'[d] = "ACTIVE" => subscription[d] = "ACTIVE",
           \A r \in Requests : redemption'[r] = "CONSUMED" => redemption[r] = "CONSUMED"
    PROVE  GivenIsPaid'
BY CapturedStays DEF Captured, GivenIsPaid

LEMMA CapturedStep == TypeOK /\ Captured /\ [Next]_vars => Captured'
<1> SUFFICES ASSUME TypeOK, Captured, [Next]_vars PROVE Captured'
  OBVIOUS
<1>1. CASE UNCHANGED vars
  BY <1>1 DEF Captured, GivenIsPaid, vars, paymentVars, couponVars
<1> SUFFICES ASSUME Next PROVE Captured'
  BY <1>1
<1> DEFINE Reports == \A d \in Calls :
                        /\ verifying[d] \in {"captured", "writing"} => paid[d] = "captured"
                        /\ "captured" \in events[d] => paid[d] = "captured"
<1>2. Reports
  BY DEF Captured
<1>3. ASSUME Reports', GivenIsPaid' PROVE Captured'
  BY <1>3 DEF Captured
<1>4. ASSUME UNCHANGED <<verifying, events>> PROVE Reports'
  BY <1>2, <1>4, CapturedStays
<1>5. ASSUME NEW c \in Calls, RefuseCheckout(c) \/ ReplayCheckout(c)
      PROVE  Captured'
  <2>1. ExpireStale(Organization[c[1]]) /\ UNCHANGED <<redemption, verifying, events>>
    BY <1>5 DEF RefuseCheckout, ReplayCheckout, couponVars, paymentVars
  <2> QED
    BY <2>1, <1>3, <1>4, ExpireKeeps, NothingGiven
<1>6. ASSUME NEW c \in Calls, OpenCheckout(c)
      PROVE  Captured'
  <2>1. /\ Reserve(c[1])
        /\ UNCHANGED <<verifying, events>>
        /\ \A d \in Calls : subscription'[d] = "ACTIVE" => subscription[d] = "ACTIVE"
    BY <1>6 DEF OpenCheckout, paymentVars, TypeOK
  <2> QED
    BY <2>1, <1>3, <1>4, ReserveKeeps, NothingGiven, CallParts
<1>7. ASSUME NEW c \in Calls,
             OrderCreated(c) \/ OrderFails(c) \/ FailPayment(c) \/ Authorize(c) \/
             Capture(c) \/ FetchPayment(c) \/ HandlePaymentFailed(c)
      PROVE  Captured'
  <2>1. UNCHANGED <<subscription, redemption>>
    BY <1>7 DEF OrderCreated, OrderFails, FailPayment, Authorize, Capture, FetchPayment,
                HandlePaymentFailed, couponVars
  <2>2. CASE OrderCreated(c) \/ OrderFails(c)
    BY <2>1, <2>2, <1>3, <1>4, NothingGiven DEF OrderCreated, OrderFails, paymentVars
  <2>3. CASE FailPayment(c) \/ Authorize(c) \/ HandlePaymentFailed(c)
    <3>1. /\ UNCHANGED verifying
          /\ \A d \in Calls : "captured" \in events'[d] => "captured" \in events[d]
      BY <2>3 DEF FailPayment, Authorize, HandlePaymentFailed, TypeOK
    <3> QED
      BY <3>1, <2>1, <1>2, <1>3, CapturedStays, NothingGiven
  <2>4. CASE Capture(c)
    <3>1. /\ UNCHANGED verifying
          /\ paid'[c] = "captured"
          /\ \A d \in Calls \ {c} : events'[d] = events[d]
      BY <2>4 DEF Capture, TypeOK
    <3> QED
      BY <3>1, <2>1, <1>2, <1>3, CapturedStays, NothingGiven
  <2>5. CASE FetchPayment(c)
    <3>1. /\ UNCHANGED <<events, paid>>
          /\ verifying'[c] = paid[c]
          /\ paid[c] # "writing"
          /\ \A d \in Calls \ {c} : verifying'[d] = verifying[d]
      BY <2>5 DEF FetchPayment, TypeOK
    <3> QED
      BY <3>1, <2>1, <1>2, <1>3, CapturedStays, NothingGiven
  <2> QED
    BY <1>7, <2>2, <2>3, <2>4, <2>5
<1>8. ASSUME NEW c \in Calls, VerifyFetched(c)
      PROVE  Captured'
  <2>1. /\ UNCHANGED <<events, paid>>
        /\ \A d \in Calls \ {c} : verifying'[d] = verifying[d]
        /\ verifying'[c] = "idle" \/ (verifying'[c] = "writing" /\ verifying[c] = "captured")
    BY <1>8 DEF VerifyFetched, Activates, TypeOK
  <2>2. Reports'
    BY <2>1, <1>2
  <2>3. CASE Activate(c) /\ Consume(c) /\ Activates(verifying[c])
    BY <2>1, <2>2, <2>3, <1>2, <1>3, GivenPaid DEF Activates
  <2>4. CASE UNCHANGED <<subscription, couponVars, effectVars>>
    BY <2>2, <2>4, <1>3, NothingGiven DEF couponVars
  <2> QED
    BY <1>8, <2>3, <2>4 DEF VerifyFetched
<1>9. ASSUME NEW c \in Calls, VerifyWritten(c)
      PROVE  Captured'
  <2>1. /\ UNCHANGED <<events, paid>>
        /\ \A d \in Calls \ {c} : verifying'[d] = verifying[d]
        /\ verifying'[c] = "idle"
        /\ verifying[c] = "writing"
    BY <1>9 DEF VerifyWritten, TypeOK
  <2> QED
    BY <1>9, <2>1, <1>2, <1>3, GivenPaid DEF VerifyWritten
<1>10. ASSUME NEW c \in Calls, HandlePaymentCaptured(c)
       PROVE  Captured'
  <2>1. /\ UNCHANGED <<verifying, paid>>
        /\ "captured" \in events[c]
        /\ \A d \in Calls : "captured" \in events'[d] => "captured" \in events[d]
    BY <1>10 DEF HandlePaymentCaptured, TypeOK
  <2>2. Reports'
    BY <2>1, <1>2
  <2>3. CASE Activate(c) /\ Consume(c)
    BY <2>1, <2>2, <2>3, <1>2, <1>3, GivenPaid
  <2>4. CASE UNCHANGED <<subscription, couponVars>>
    BY <2>2, <2>4, <1>3, NothingGiven DEF couponVars
  <2> QED
    BY <1>10, <2>3, <2>4 DEF HandlePaymentCaptured
<1>11. ASSUME NEW r \in Requests, ReservationTimesOut(r)
       PROVE  Captured'
  BY <1>11, <1>3, <1>4, NothingGiven DEF ReservationTimesOut, couponVars, paymentVars
<1>12. ASSUME NEW r \in Requests, ReadSubscription(Organization[r])
       PROVE  Captured'
  BY <1>12, <1>3, <1>4, NothingGiven, ExpireKeeps
  DEF ReadSubscription, couponVars, paymentVars
<1>13. CASE OpenOrCloseCoupon
  BY <1>13, <1>3, <1>4, NothingGiven DEF OpenOrCloseCoupon, couponVars, paymentVars
<1> QED
  BY <1>5, <1>6, <1>7, <1>8, <1>9, <1>10, <1>11, <1>12, <1>13 DEF Next, Verify

\* Neither a live subscription nor a redeemed coupon without a captured payment.
THEOREM OnlyPaid == Safety => []GivenIsPaid
<1>1. Init => TypeOK /\ Captured
  BY DEF Init, TypeOK, RedemptionStatus, Captured, GivenIsPaid
<1>2. Captured => GivenIsPaid
  BY DEF Captured
<1> QED
  BY <1>1, <1>2, TypeStep, CapturedStep, PTL DEF Safety

-----------------------------------------------------------------------------
(* One live subscription, one discount *)

\* Only a payment gives something, to the call it is for.
LEMMA Gives ==
    ASSUME TypeOK, Next
    PROVE  \/ \E c \in Calls : Activate(c) /\ Consume(c)
           \/ /\ \A d \in Calls : subscription'[d] = "ACTIVE" => subscription[d] = "ACTIVE"
              /\ \A r \in Requests : redemption[r] = "CONSUMED" <=> redemption'[r] = "CONSUMED"
              /\ UNCHANGED effectVars
<1> DEFINE Goal == \/ \E c \in Calls : Activate(c) /\ Consume(c)
                   \/ /\ \A d \in Calls : subscription'[d] = "ACTIVE" => subscription[d] = "ACTIVE"
                      /\ \A r \in Requests : redemption[r] = "CONSUMED" <=> redemption'[r] = "CONSUMED"
                      /\ UNCHANGED effectVars
<1>1. ASSUME NEW c \in Calls, RefuseCheckout(c) \/ ReplayCheckout(c)
      PROVE  Goal
  <2>1. ExpireStale(Organization[c[1]]) /\ UNCHANGED <<redemption, effectVars>>
    BY <1>1 DEF RefuseCheckout, ReplayCheckout, couponVars
  <2> QED
    BY <2>1, ExpireKeeps
<1>2. ASSUME NEW c \in Calls, OpenCheckout(c)
      PROVE  Goal
  <2>1. /\ Reserve(c[1])
        /\ UNCHANGED effectVars
        /\ \A d \in Calls : subscription'[d] = "ACTIVE" => subscription[d] = "ACTIVE"
    BY <1>2 DEF OpenCheckout, TypeOK
  <2> QED
    BY <2>1, ReserveKeeps, CallParts
<1>3. ASSUME NEW c \in Calls,
             OrderCreated(c) \/ OrderFails(c) \/ FailPayment(c) \/ Authorize(c) \/
             Capture(c) \/ FetchPayment(c) \/ HandlePaymentFailed(c)
      PROVE  Goal
  BY <1>3 DEF OrderCreated, OrderFails, FailPayment, Authorize, Capture, FetchPayment,
              HandlePaymentFailed, couponVars
<1>4. ASSUME NEW c \in Calls,
             VerifyFetched(c) \/ VerifyWritten(c) \/ HandlePaymentCaptured(c)
      PROVE  Goal
  <2>1. (Activate(c) /\ Consume(c)) \/ UNCHANGED <<subscription, couponVars, effectVars>>
    BY <1>4 DEF VerifyFetched, VerifyWritten, HandlePaymentCaptured
  <2> QED
    BY <2>1 DEF couponVars
<1>5. ASSUME NEW r \in Requests, ReservationTimesOut(r) \/ ReadSubscription(Organization[r])
      PROVE  Goal
  BY <1>5, ExpireKeeps DEF ReservationTimesOut, ReadSubscription, couponVars
<1>6. CASE OpenOrCloseCoupon
  BY <1>6 DEF OpenOrCloseCoupon, couponVars
<1>7. Goal
  <2>1. CASE \E c \in Calls :
                 \/ RefuseCheckout(c) \/ ReplayCheckout(c) \/ OpenCheckout(c)
                 \/ OrderCreated(c) \/ OrderFails(c) \/ FailPayment(c) \/ Authorize(c)
                 \/ Capture(c) \/ FetchPayment(c) \/ Verify(c)
                 \/ HandlePaymentCaptured(c) \/ HandlePaymentFailed(c)
    BY <2>1, <1>1, <1>2, <1>3, <1>4 DEF Verify
  <2>2. CASE \E r \in Requests :
                 ReservationTimesOut(r) \/ ReadSubscription(Organization[r])
    BY <2>2, <1>5
  <2> QED
    BY <2>1, <2>2, <1>6 DEF Next
<1> QED
  BY <1>7 DEF Goal

LEMMA LiveStep == TypeOK /\ OneLiveSubscription /\ [Next]_vars => OneLiveSubscription'
<1> SUFFICES ASSUME TypeOK, OneLiveSubscription, [Next]_vars
             PROVE  OneLiveSubscription'
  OBVIOUS
<1>1. CASE UNCHANGED vars
  BY <1>1 DEF OneLiveSubscription, vars, SameAccount
<1>2. CASE Next
  <2>1. ASSUME NEW c \in Calls, Activate(c)
        PROVE  OneLiveSubscription'
    BY <2>1, ActivateKeeps DEF OneLiveSubscription, SameAccount
  <2>2. CASE \A d \in Calls : subscription'[d] = "ACTIVE" => subscription[d] = "ACTIVE"
    BY <2>2 DEF OneLiveSubscription, SameAccount
  <2> QED
    BY <1>2, <2>1, <2>2, Gives
<1> QED
  BY <1>1, <1>2

LEMMA DiscountsStep == TypeOK /\ Discounts /\ [Next]_vars => Discounts'
<1> SUFFICES ASSUME TypeOK, Discounts, [Next]_vars PROVE Discounts'
  OBVIOUS
<1>1. CASE UNCHANGED vars
  BY <1>1 DEF Discounts, DiscountedOnce, vars, couponVars, effectVars
<1>2. CASE Next
  <2>1. ASSUME NEW c \in Calls, Consume(c)
        PROVE  Discounts'
    <3>1. CASE Redeemable(c)
      <4>1. /\ discount' = discount \cup {c}
            /\ redemption' = [redemption EXCEPT ![c[1]] = "CONSUMED"]
            /\ redemption[c[1]] # "CONSUMED"
        BY <2>1, <3>1 DEF Consume, Redeemable
      <4>2. \A d \in discount : d[1] # c[1]
        BY <4>1 DEF Discounts
      <4>3. redemption'[c[1]] = "CONSUMED"
        BY <4>1, CallParts DEF TypeOK
      <4>4. \A d \in discount : redemption'[d[1]] = "CONSUMED"
        BY <4>1, <4>2, CallParts DEF TypeOK, Discounts
      <4> QED
        BY <4>1, <4>2, <4>3, <4>4 DEF Discounts, DiscountedOnce
    <3>2. CASE ~Redeemable(c)
      BY <2>1, <3>2 DEF Consume, Discounts, DiscountedOnce
    <3> QED
      BY <3>1, <3>2
  <2>2. CASE /\ \A r \in Requests : redemption[r] = "CONSUMED" <=> redemption'[r] = "CONSUMED"
             /\ UNCHANGED effectVars
    BY <2>2, CallParts DEF Discounts, DiscountedOnce, effectVars, TypeOK
  <2> QED
    BY <1>2, <2>1, <2>2, Gives
<1> QED
  BY <1>1, <1>2

\* An account has one live subscription, whatever is paid, verified and reported.
THEOREM OneLive == Safety => []OneLiveSubscription
<1>1. Init => TypeOK /\ OneLiveSubscription
  BY DEF Init, TypeOK, RedemptionStatus, OneLiveSubscription
<1> QED
  BY <1>1, TypeStep, LiveStep, PTL DEF Safety

\* A purchase takes its discount to one subscription.
THEOREM OneDiscount == Safety => []DiscountedOnce
<1>1. Init => TypeOK /\ Discounts
  BY DEF Init, TypeOK, RedemptionStatus, Discounts, DiscountedOnce
<1>2. Discounts => DiscountedOnce
  BY DEF Discounts
<1> QED
  BY <1>1, <1>2, TypeStep, DiscountsStep, PTL DEF Safety

-----------------------------------------------------------------------------
(* The limit of the coupon *)

\* Fewer requests held, or one more below the limit, stay within the limit.
LEMMA WithinIfSubset ==
    ASSUME NEW S \in SUBSET Requests, NEW T, T \subseteq S,
           Cardinality(S) <= MaxRedemptions
    PROVE  Cardinality(T) <= MaxRedemptions
<1>1. IsFiniteSet(S)
  BY CheckoutAssumption, FS_Subset
<1>2. IsFiniteSet(T) /\ Cardinality(T) <= Cardinality(S)
  BY <1>1, FS_Subset
<1> QED
  BY <1>1, <1>2, FS_CardinalityType, CheckoutAssumption

LEMMA WithinIfOneMore ==
    ASSUME NEW S \in SUBSET Requests, NEW r, Cardinality(S) < MaxRedemptions,
           NEW T, T \subseteq S \cup {r}
    PROVE  Cardinality(T) <= MaxRedemptions
<1>1. IsFiniteSet(S)
  BY CheckoutAssumption, FS_Subset
<1>2. /\ IsFiniteSet(S \cup {r})
      /\ Cardinality(S \cup {r}) <= Cardinality(S) + 1
  <2>1. Cardinality(S) \in Nat
    BY <1>1, FS_CardinalityType
  <2>2. /\ IsFiniteSet(S \cup {r})
        /\ Cardinality(S \cup {r}) \in {Cardinality(S), Cardinality(S) + 1}
    BY <1>1, FS_AddElement
  <2> QED
    BY <2>1, <2>2
<1>3. IsFiniteSet(T) /\ Cardinality(T) <= Cardinality(S \cup {r})
  BY <1>2, FS_Subset
<1> QED
  BY <1>1, <1>2, <1>3, FS_CardinalityType, CheckoutAssumption

LEMMA LimitStep == TypeOK /\ Limit /\ [Next]_vars => Limit'
<1> SUFFICES ASSUME TypeOK, Limit, [Next]_vars PROVE Limit'
  OBVIOUS
<1>0. ASSUME UNCHANGED <<couponVars, late>> PROVE Limit'
  BY <1>0 DEF Limit, WithinLimit, Held, couponVars
<1>1. CASE UNCHANGED vars
  BY <1>0, <1>1 DEF vars, effectVars
<1>2. ASSUME NEW c \in Calls, OpenCheckout(c)
      PROVE  Limit'
  <2> DEFINE r == c[1]
  <2>1. /\ r \in Requests
        /\ Reserve(r)
        /\ late' = late
        /\ attached' = [attached EXCEPT ![r] = IF r \in Discounted THEN c[2] ELSE 0]
    BY <1>2, CallParts DEF OpenCheckout, effectVars
  <2>2. \A s \in Discounted : attached'[s] # 0 => redemption'[s] # "NONE"
    <3>1. ASSUME NEW s \in Discounted, attached'[s] # 0
          PROVE  redemption'[s] # "NONE"
      <4>1. CASE s = r
        BY <2>1, <4>1, ReserveKeeps
      <4>2. CASE s # r
        BY <2>1, <3>1, <4>2, ReserveKeeps, CheckoutAssumption DEF Limit, TypeOK
      <4> QED
        BY <4>1, <4>2
    <3> QED
      BY <3>1
  <2>3. CASE r \notin Discounted \/ redemption[r] # "NONE"
    <3>1. redemption' = redemption
      BY <2>1, <2>3 DEF Reserve
    <3> QED
      BY <2>1, <2>2, <3>1 DEF Limit, WithinLimit, Held
  <2>4. CASE r \in Discounted /\ redemption[r] = "NONE"
    <3>1. Held' \subseteq Held \cup {r}
      BY <2>1, <2>4 DEF Reserve, Held, TypeOK
    <3>2. Cardinality(Held) < MaxRedemptions
      BY <1>2, <2>4 DEF OpenCheckout, QuoteIsValid
    <3>3. Held' \ late' \subseteq Held \cup {r} /\ Held \in SUBSET Requests
      BY <3>1 DEF Held
    <3>4. Cardinality(Held' \ late') <= MaxRedemptions
      BY <3>2, <3>3, WithinIfOneMore
    <3> QED
      BY <2>2, <3>4 DEF Limit, WithinLimit
  <2> QED
    BY <2>3, <2>4
<1>3. ASSUME NEW c \in Calls, Consume(c)
      PROVE  Limit'
  <2>1. CASE ~Redeemable(c)
    BY <1>0, <1>3, <2>1 DEF Consume, couponVars
  <2>2. CASE Redeemable(c)
    <3> DEFINE r == c[1]
    <3>1. /\ r \in Requests
          /\ redemption' = [redemption EXCEPT ![r] = "CONSUMED"]
          /\ attached' = attached
          /\ late' = IF redemption[r] = "EXPIRED" THEN late \cup {r} ELSE late
      BY <1>3, <2>2, CallParts DEF Consume
    <3>2. redemption[r] \in {"RESERVED", "EXPIRED"}
      BY <2>2, <3>1, CallNumber DEF Redeemable, Limit, TypeOK, RedemptionStatus
    <3>3. Held' \ late' \subseteq Held \ late /\ Held \ late \in SUBSET Requests
      BY <3>1, <3>2 DEF Held, TypeOK
    <3>4. Cardinality(Held' \ late') <= MaxRedemptions
      BY <3>3, WithinIfSubset DEF Limit, WithinLimit
    <3>5. \A s \in Discounted : attached'[s] # 0 => redemption'[s] # "NONE"
      BY <3>1, CheckoutAssumption DEF Limit, TypeOK
    <3> QED
      BY <3>4, <3>5 DEF Limit, WithinLimit
  <2> QED
    BY <2>1, <2>2
<1>4. ASSUME NEW c \in Calls,
             VerifyFetched(c) \/ VerifyWritten(c) \/ HandlePaymentCaptured(c)
      PROVE  Limit'
  <2>1. Consume(c) \/ UNCHANGED <<couponVars, effectVars>>
    BY <1>4 DEF VerifyFetched, VerifyWritten, HandlePaymentCaptured
  <2> QED
    BY <2>1, <1>0, <1>3 DEF effectVars
<1>5. ASSUME NEW c \in Calls,
             RefuseCheckout(c) \/ ReplayCheckout(c) \/ OrderCreated(c) \/ OrderFails(c) \/
             FailPayment(c) \/ Authorize(c) \/ Capture(c) \/ FetchPayment(c) \/
             HandlePaymentFailed(c)
      PROVE  Limit'
  <2>1. UNCHANGED <<couponVars, effectVars>>
    BY <1>5 DEF RefuseCheckout, ReplayCheckout, OrderCreated, OrderFails, FailPayment,
                Authorize, Capture, FetchPayment, HandlePaymentFailed
  <2> QED
    BY <2>1, <1>0 DEF effectVars
<1>6. ASSUME NEW r \in Requests, ReservationTimesOut(r) \/ ReadSubscription(Organization[r])
      PROVE  Limit'
  BY <1>0, <1>6 DEF ReservationTimesOut, ReadSubscription, effectVars
<1>7. CASE OpenOrCloseCoupon
  BY <1>0, <1>7 DEF OpenOrCloseCoupon, effectVars
<1> QED
  BY <1>1, <1>2, <1>4, <1>5, <1>6, <1>7 DEF Next, Verify

\* The coupon stays within its limit but for reservations paid after their release.
THEOREM CouponLimit == Safety => []WithinLimit
<1>1. Init => TypeOK /\ Limit
  <2>1. Init => TypeOK
    BY DEF Init, TypeOK, RedemptionStatus
  <2>2. ASSUME Init PROVE Limit
    <3>1. Held \ late = {}
      BY <2>2 DEF Init, Held
    <3>2. Cardinality(Held \ late) = 0
      BY <3>1, FS_EmptySet
    <3>3. \A r \in Discounted : attached[r] = 0
      BY <2>2, CheckoutAssumption DEF Init
    <3> QED
      BY <3>2, <3>3, CheckoutAssumption DEF Limit, WithinLimit
  <2> QED
    BY <2>1, <2>2
<1>2. Limit => WithinLimit
  BY DEF Limit
<1> QED
  BY <1>1, <1>2, TypeStep, LimitStep, PTL DEF Safety

-----------------------------------------------------------------------------
(* Idempotency keys *)

LEMMA KeysStep == TypeOK /\ Keys /\ [Next]_vars => Keys'
<1> SUFFICES ASSUME TypeOK, Keys, [Next]_vars PROVE Keys'
  OBVIOUS
<1> DEFINE Ordered == {"ordering", "done"}
<1>1. ASSUME keyed' = keyed, record' = record, overlapped' = overlapped,
             \A d \in Calls : /\ call'[d] \in Ordered => call[d] \in Ordered
                              /\ call'[d] = "done" => call[d] = "done"
      PROVE  Keys'
  <2> SUFFICES ASSUME NEW r \in keyed'
               PROVE  /\ \A n \in 1..Tries[r] : call'[<<r, n>>] = "done" => record'[r] # 0
                      /\ r \notin overlapped' =>
                            \A m, n \in 1..Tries[r] :
                                (call'[<<r, m>>] \in Ordered /\ call'[<<r, n>>] \in Ordered)
                                    => m = n
    BY DEF Keys
  <2>1. r \in keyed /\ r \in Requests
    BY <1>1, CheckoutAssumption DEF TypeOK
  <2>2. \A n \in 1..Tries[r] : <<r, n>> \in Calls
    BY <2>1, CallParts
  <2> QED
    BY <1>1, <2>1, <2>2 DEF Keys
<1>2. CASE UNCHANGED vars
  BY <1>1, <1>2 DEF vars
<1>3. ASSUME NEW c \in Calls, RefuseCheckout(c) \/ ReplayCheckout(c) \/ OrderFails(c)
      PROVE  Keys'
  <2>1. /\ UNCHANGED <<keyed, record, overlapped>>
        /\ \A d \in Calls \ {c} : call'[d] = call[d]
        /\ call'[c] \in {"refused", "replayed", "failed"}
    BY <1>3 DEF RefuseCheckout, ReplayCheckout, OrderFails, TypeOK
  <2> QED
    BY <1>1, <2>1
<1>4. ASSUME NEW c \in Calls, OpenCheckout(c)
      PROVE  Keys'
  <2>1. /\ c[1] \in Requests /\ c[2] \in 1..Tries[c[1]] /\ c = <<c[1], c[2]>>
        /\ keyed' = keyed /\ record' = record
        /\ call' = [call EXCEPT ![c] = "ordering"]
        /\ overlapped' = IF Waiting(c[1]) THEN overlapped \cup {c[1]} ELSE overlapped
        /\ ~HasReply(c[1])
    BY <1>4, CallParts DEF OpenCheckout
  <2> SUFFICES ASSUME NEW r \in keyed
               PROVE  /\ \A n \in 1..Tries[r] : call'[<<r, n>>] = "done" => record'[r] # 0
                      /\ r \notin overlapped' =>
                            \A m, n \in 1..Tries[r] :
                                (call'[<<r, m>>] \in Ordered /\ call'[<<r, n>>] \in Ordered)
                                    => m = n
    BY <2>1 DEF Keys
  <2>2. r \in Requests /\ \A n \in 1..Tries[r] : <<r, n>> \in Calls
    BY CallParts, CheckoutAssumption DEF TypeOK
  <2>3. CASE r # c[1]
    <3>1. \A n \in 1..Tries[r] : call'[<<r, n>>] = call[<<r, n>>]
      BY <2>1, <2>2, <2>3 DEF TypeOK
    <3> QED
      BY <2>1, <2>3, <3>1 DEF Keys
  <2>4. CASE r = c[1]
    <3>1. record[r] = 0
      BY <2>1, <2>4 DEF HasReply
    <3>2. \A n \in 1..Tries[r] : call[<<r, n>>] # "done"
      BY <3>1 DEF Keys
    <3>3. \A n \in 1..Tries[r] :
              n # c[2] => call'[<<r, n>>] = call[<<r, n>>]
      BY <2>1, <2>2, <2>4 DEF TypeOK
    <3>4. call'[c] = "ordering"
      BY <2>1 DEF TypeOK
    <3>5. \A n \in 1..Tries[r] : call'[<<r, n>>] # "done"
      BY <2>1, <2>4, <3>2, <3>3, <3>4
    <3>6. r \notin overlapped' => \A n \in 1..Tries[r] : call[<<r, n>>] # "ordering"
      BY <2>1, <2>4 DEF Waiting
    <3>7. r \notin overlapped' =>
              \A n \in 1..Tries[r] : call'[<<r, n>>] \in Ordered => n = c[2]
      BY <3>2, <3>3, <3>6
    <3> QED
      BY <3>5, <3>7
  <2> QED
    BY <2>3, <2>4
<1>5. ASSUME NEW c \in Calls, OrderCreated(c)
      PROVE  Keys'
  <2>1. /\ c[1] \in Requests /\ c[2] # 0
        /\ keyed' = keyed /\ overlapped' = overlapped
        /\ call[c] = "ordering"
        /\ call' = [call EXCEPT ![c] = "done"]
        /\ record' = [record EXCEPT ![c[1]] = IF c[1] \in keyed /\ record[c[1]] = 0
                                               THEN c[2] ELSE record[c[1]]]
    BY <1>5, CallParts, CallNumber DEF OrderCreated
  <2> SUFFICES ASSUME NEW r \in keyed
               PROVE  /\ \A n \in 1..Tries[r] : call'[<<r, n>>] = "done" => record'[r] # 0
                      /\ r \notin overlapped' =>
                            \A m, n \in 1..Tries[r] :
                                (call'[<<r, m>>] \in Ordered /\ call'[<<r, n>>] \in Ordered)
                                    => m = n
    BY <2>1 DEF Keys
  <2>2. r \in Requests /\ \A n \in 1..Tries[r] : <<r, n>> \in Calls
    BY CallParts, CheckoutAssumption DEF TypeOK
  <2>3. \A d \in Calls : call'[d] \in Ordered <=> call[d] \in Ordered
    BY <2>1 DEF TypeOK
  <2>4. record[r] # 0 \/ r = c[1] => record'[r] # 0
    BY <2>1, <2>2 DEF TypeOK
  <2>5. \A n \in 1..Tries[r] : <<r, n>> # c => call'[<<r, n>>] = call[<<r, n>>]
    BY <2>1, <2>2 DEF TypeOK
  <2>6. \A n \in 1..Tries[r] : call'[<<r, n>>] = "done" => record'[r] # 0
    BY <2>4, <2>5 DEF Keys
  <2> QED
    BY <2>1, <2>2, <2>3, <2>6 DEF Keys
<1>6. ASSUME NEW c \in Calls,
             FailPayment(c) \/ Authorize(c) \/ Capture(c) \/ FetchPayment(c) \/
             VerifyFetched(c) \/ VerifyWritten(c) \/ HandlePaymentCaptured(c) \/
             HandlePaymentFailed(c)
      PROVE  Keys'
  <2>1. UNCHANGED <<keyed, call, record, overlapped>>
    BY <1>6 DEF FailPayment, Authorize, Capture, FetchPayment, VerifyFetched,
                VerifyWritten, HandlePaymentCaptured, HandlePaymentFailed
  <2> QED
    BY <1>1, <2>1
<1>7. ASSUME NEW r \in Requests, ReservationTimesOut(r) \/ ReadSubscription(Organization[r])
      PROVE  Keys'
  BY <1>1, <1>7 DEF ReservationTimesOut, ReadSubscription
<1>8. CASE OpenOrCloseCoupon
  BY <1>1, <1>8 DEF OpenOrCloseCoupon
<1> QED
  BY <1>2, <1>3, <1>4, <1>5, <1>6, <1>7, <1>8 DEF Next, Verify

\* A key opens one order, however often it is sent.
THEOREM OneOrder == Safety => []OneOrderPerKey
<1>1. Init => TypeOK /\ Keys
  <2>1. Init => TypeOK
    BY DEF Init, TypeOK, RedemptionStatus
  <2>2. ASSUME Init, NEW r \in keyed, NEW n \in 1..Tries[r]
        PROVE  call[<<r, n>>] = "none"
    BY <2>2, CallParts, CheckoutAssumption DEF Init
  <2> QED
    BY <2>1, <2>2 DEF Keys
<1>2. Keys => OneOrderPerKey
  BY DEF Keys, OneOrderPerKey
<1> QED
  BY <1>1, <1>2, TypeStep, KeysStep, PTL DEF Safety
=============================================================================

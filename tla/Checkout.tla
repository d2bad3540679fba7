------------------------------ MODULE Checkout ------------------------------
(***************************************************************************)
(* Buying a subscription with a billing coupon: checkout calls and their   *)
(* retries, the reservation of the coupon, the provider's order, and the   *)
(* payment that reaches the backend twice, by the customer's verify call   *)
(* and by the provider's webhook (BillingService, BillingCouponService,    *)
(* SubscriptionService, BillingWebhookService).                            *)
(*                                                                         *)
(* A request is one purchase: an Idempotency-Key with the body sent under  *)
(* it.  Sending it for the n-th time is the call <<r, n>>, which names the *)
(* pending subscription it creates and the provider order it opens.        *)
(* checkout waits once, for provider.createOrder; verify waits for         *)
(* provider.fetchPayment and for the write of the payment; the webhook     *)
(* handler changes no more state after its first wait.                     *)
(*                                                                         *)
(* Payments are one-time orders, BILLING_USE_RAZORPAY_SUBSCRIPTIONS unset. *)
(***************************************************************************)
EXTENDS Naturals, FiniteSets

CONSTANTS
    Requests,           \* purchases that organizations ask for
    Organization,       \* the organization of a request
    Account,            \* the billing account of an organization
    Keyed,              \* the requests that may carry an Idempotency-Key
    Discounted,         \* the requests that name the coupon
    Declined,           \* the requests whose payment may fail before it succeeds
    MaxRedemptions,     \* coupon.maxRedemptions
    MaxPerOrganization, \* coupon.maxRedemptionsPerOrganization
    Tries               \* bound: how often a request is sent

ASSUME CheckoutAssumption ==
    /\ Keyed \subseteq Requests
    /\ Discounted \subseteq Requests
    /\ Declined \subseteq Requests
    /\ IsFiniteSet(Requests)
    /\ MaxRedemptions \in Nat \ {0}
    /\ MaxPerOrganization \in Nat \ {0}
    /\ Tries \in [Requests -> Nat]

VARIABLES
    keyed,          \* the requests that carry an Idempotency-Key
    open,           \* the coupon is ACTIVE and within its validity
    redemption,     \* status of the redemption of a request
    attached,       \* redemption.subscriptionId: the call that created it, by number
    call,           \* where a checkout call stands
    record,         \* call whose response the idempotency record holds, 0 for none
    subscription,   \* status of the subscription of a call
    paid,           \* status of the payment at the provider, none before the first
    payment,        \* status of the row in billingPayments
    verifying,      \* where verify stands: idle, or the status it fetched, or writing
    events,         \* what the provider reports and the backend has not yet seen
    discount,       \* calls with a row in billingSubscriptionDiscounts
    overdue,        \* clock: redemptions past expiresAt
    activated,      \* history: calls whose subscription was activated
    late,           \* history: requests redeemed after their reservation EXPIRED
    overlapped      \* history: requests sent again while a call was waiting

couponVars  == <<redemption, attached>>
paymentVars == <<paid, payment, verifying, events>>
effectVars  == <<discount, activated, late>>
vars == <<keyed, open, couponVars, call, record, subscription, paymentVars, effectVars,
          overdue, overlapped>>

Calls == UNION {{r} \X (1..Tries[r]) : r \in Requests}

SameOrganization(c, d) == Organization[c[1]] = Organization[d[1]]
SameAccount(c, d) == Account[Organization[c[1]]] = Account[Organization[d[1]]]

Init ==
    /\ keyed \in SUBSET Keyed
    /\ open = TRUE
    /\ redemption = [r \in Requests |-> "NONE"]
    /\ attached = [r \in Requests |-> 0]
    /\ call = [c \in Calls |-> "none"]
    /\ record = [r \in Requests |-> 0]
    /\ subscription = [c \in Calls |-> "NONE"]
    /\ paid = [c \in Calls |-> "none"]
    /\ payment = [c \in Calls |-> "none"]
    /\ verifying = [c \in Calls |-> "idle"]
    /\ events = [c \in Calls |-> {}]
    /\ discount = {}
    /\ overdue = {}
    /\ activated = {}
    /\ late = {}
    /\ overlapped = {}

-----------------------------------------------------------------------------
(* The coupon.  As in the other modules, an operator whose name has an       *)
(* underscore is the operator before the underscore with a slip in it.       *)

\* The redemptions that count against the limits of the coupon.
Held_Consumed == {r \in Requests : redemption[r] = "CONSUMED"}
Held == {r \in Requests : redemption[r] \in {"RESERVED", "CONSUMED"}}

\* BillingPricingService.quote, with the validation of the coupon.
QuoteIsValid(r) ==
    r \in Discounted =>
        /\ open
        /\ Cardinality(Held) < MaxRedemptions
        /\ Cardinality({s \in Held : Organization[s] = Organization[r]})
               < MaxPerOrganization

\* reserve returns the redemption of an earlier call with the same key, whatever
\* became of it; otherwise it first releases what expired.  The coupon-code mutex is
\* held over no wait.
Reserve(r) ==
    redemption' =
        IF r \notin Discounted \/ redemption[r] # "NONE" THEN redemption
        ELSE [s \in Requests |->
                 IF s = r THEN "RESERVED"
                 ELSE IF redemption[s] = "RESERVED" /\ s \in overdue THEN "EXPIRED"
                 ELSE redemption[s]]

\* Pending checkouts of an organization, some of which are older than half an hour.
PendingCheckouts(o) ==
    {d \in Calls : /\ subscription[d] = "AUTHENTICATION_PENDING"
                   /\ Organization[d[1]] = o}

-----------------------------------------------------------------------------
(* Checkout *)

\* A request is sent again when its caller gave up on the calls before.
Sent(c) ==
    /\ call[c] = "none"
    /\ c[2] > 1 => call[<<c[1], c[2] - 1>>] # "none"

Waiting(r) == \E n \in 1..Tries[r] : call[<<r, n>>] = "ordering"

HasReply_Never(r) == FALSE
HasReply(r) == r \in keyed /\ record[r] # 0

\* Stale checkouts expire whatever becomes of the call; the clock chooses which.
ExpireStale(o) ==
    \E stale \in SUBSET PendingCheckouts(o) :
        subscription' = [d \in Calls |-> IF d \in stale THEN "EXPIRED"
                                         ELSE subscription[d]]

\* The price is quoted first, for a retry as well.
RefuseCheckout(c) ==
    /\ Sent(c)
    /\ ~QuoteIsValid(c[1])
    /\ call' = [call EXCEPT ![c] = "refused"]
    /\ ExpireStale(Organization[c[1]])
    /\ UNCHANGED <<keyed, open, couponVars, record, paymentVars, effectVars, overdue,
                   overlapped>>

ReplayCheckout(c) ==
    /\ Sent(c)
    /\ QuoteIsValid(c[1])
    /\ HasReply(c[1])
    /\ call' = [call EXCEPT ![c] = "replayed"]
    /\ ExpireStale(Organization[c[1]])
    /\ UNCHANGED <<keyed, open, couponVars, record, paymentVars, effectVars, overdue,
                   overlapped>>

\* Reservation and pending subscription, up to the wait for the order.
OpenCheckout(c) ==
    LET r == c[1]
    IN  /\ Sent(c)
        /\ QuoteIsValid(r)
        /\ ~HasReply(r)
        /\ Reserve(r)
        /\ attached' = [attached EXCEPT ![r] = IF r \in Discounted THEN c[2] ELSE 0]
        /\ \E stale \in SUBSET PendingCheckouts(Organization[r]) :
               subscription' = [d \in Calls |->
                                   IF d = c THEN "AUTHENTICATION_PENDING"
                                   ELSE IF d \in stale THEN "EXPIRED"
                                   ELSE subscription[d]]
        /\ call' = [call EXCEPT ![c] = "ordering"]
        /\ overlapped' = IF Waiting(r) THEN overlapped \cup {r} ELSE overlapped
        /\ UNCHANGED <<keyed, open, record, paymentVars, effectVars, overdue>>

\* The first record of a key is the one that is found.
OrderCreated(c) ==
    /\ call[c] = "ordering"
    /\ call' = [call EXCEPT ![c] = "done"]
    /\ record' = [record EXCEPT ![c[1]] =
                     IF c[1] \in keyed /\ @ = 0 THEN c[2] ELSE @]
    /\ UNCHANGED <<keyed, open, couponVars, subscription, paymentVars, effectVars,
                   overdue, overlapped>>

\* PROVIDER_UNAVAILABLE: nothing is undone.
OrderFails(c) ==
    /\ call[c] = "ordering"
    /\ call' = [call EXCEPT ![c] = "failed"]
    /\ UNCHANGED <<keyed, open, couponVars, record, subscription, paymentVars, effectVars,
                   overdue, overlapped>>

-----------------------------------------------------------------------------
(* Payment *)

\* activateSubscription supersedes what else is live on the account.
Superseded(c, d) ==
    SameAccount(c, d) /\ subscription[d] \in {"ACTIVE", "AUTHENTICATION_PENDING"}

Activate(c) ==
    /\ subscription' = [d \in Calls |-> IF d = c THEN "ACTIVE"
                                        ELSE IF Superseded(c, d) THEN "EXPIRED"
                                        ELSE subscription[d]]
    /\ activated' = activated \cup {c}

\* consumeForSubscription redeems what is attached to the subscription, unless it
\* was redeemed already; an EXPIRED reservation is redeemed like any other.
Redeemable_Again(c) == c[1] \in Discounted /\ attached[c[1]] = c[2]
Redeemable(c) ==
    /\ c[1] \in Discounted
    /\ attached[c[1]] = c[2]
    /\ redemption[c[1]] # "CONSUMED"

Consume(c) ==
    /\ UNCHANGED attached
    /\ IF Redeemable(c)
       THEN /\ redemption' = [redemption EXCEPT ![c[1]] = "CONSUMED"]
            /\ discount' = discount \cup {c}
            /\ late' = IF redemption[c[1]] = "EXPIRED" THEN late \cup {c[1]} ELSE late
       ELSE UNCHANGED <<redemption, discount, late>>

\* The customer pays an order that a checkout returned.  A payment that failed may
\* still be authorized later.
FailPayment(c) ==
    /\ c[1] \in Declined
    /\ call[c] = "done"
    /\ paid[c] = "none"
    /\ paid' = [paid EXCEPT ![c] = "failed"]
    /\ events' = [events EXCEPT ![c] = @ \cup {"failed"}]
    /\ UNCHANGED <<keyed, open, couponVars, call, record, subscription, payment, verifying,
                   effectVars, overdue, overlapped>>

Authorize(c) ==
    /\ call[c] = "done"
    /\ paid[c] \in {"none", "failed"}
    /\ paid' = [paid EXCEPT ![c] = "authorized"]
    /\ UNCHANGED <<keyed, open, couponVars, call, record, subscription, payment, verifying,
                   events, effectVars, overdue, overlapped>>

Capture(c) ==
    /\ paid[c] = "authorized"
    /\ paid' = [paid EXCEPT ![c] = "captured"]
    /\ events' = [events EXCEPT ![c] = @ \cup {"captured"}]
    /\ UNCHANGED <<keyed, open, couponVars, call, record, subscription, payment, verifying,
                   effectVars, overdue, overlapped>>

\* What verify makes of the status the provider reports.
StatusOf(reported) == IF reported = "captured" THEN "CAPTURED" ELSE "AUTHORIZED"

Activates_Authorized(reported) == reported \in {"authorized", "captured"}
Activates_Webhook(reported) == FALSE
Activates(reported) == reported = "captured"

\* verify, and the answer of fetchPayment.
FetchPayment(c) ==
    /\ verifying[c] = "idle"
    /\ paid[c] \in {"authorized", "captured"}
    /\ verifying' = [verifying EXCEPT ![c] = paid[c]]
    /\ UNCHANGED <<keyed, open, couponVars, call, record, subscription, paid, payment, events,
                   effectVars, overdue, overlapped>>

\* A payment that is new is written; one that is known is not looked at again, and
\* activates at once if it was captured.
VerifyFetched(c) ==
    /\ verifying[c] \in {"authorized", "captured"}
    /\ IF payment[c] = "none"
       THEN /\ payment' = [payment EXCEPT ![c] = StatusOf(verifying[c])]
            /\ verifying' = [verifying EXCEPT ![c] =
                                IF Activates(@) THEN "writing" ELSE "idle"]
            /\ UNCHANGED <<subscription, couponVars, effectVars>>
       ELSE /\ verifying' = [verifying EXCEPT ![c] = "idle"]
            /\ UNCHANGED payment
            /\ IF Activates(verifying[c])
               THEN Activate(c) /\ Consume(c)
               ELSE UNCHANGED <<subscription, couponVars, effectVars>>
    /\ UNCHANGED <<keyed, open, call, record, paid, events, overdue, overlapped>>

VerifyWritten(c) ==
    /\ verifying[c] = "writing"
    /\ verifying' = [verifying EXCEPT ![c] = "idle"]
    /\ Activate(c)
    /\ Consume(c)
    /\ UNCHANGED <<keyed, open, call, record, paid, payment, events, overdue, overlapped>>

\* The provider's events, in any order; one that was seen is answered as a duplicate.
HandlePaymentCaptured(c) ==
    /\ "captured" \in events[c]
    /\ events' = [events EXCEPT ![c] = @ \ {"captured"}]
    /\ IF payment[c] = "none"
       THEN /\ payment' = [payment EXCEPT ![c] = "CAPTURED"]
            /\ Activate(c)
            /\ Consume(c)
       ELSE UNCHANGED <<payment, subscription, couponVars, effectVars>>
    /\ UNCHANGED <<keyed, open, call, record, paid, verifying, overdue, overlapped>>

\* An order names no provider subscription, so that a failure is only recorded.
HandlePaymentFailed(c) ==
    /\ "failed" \in events[c]
    /\ events' = [events EXCEPT ![c] = @ \ {"failed"}]
    /\ payment' = [payment EXCEPT ![c] = IF @ = "none" THEN "FAILED" ELSE @]
    /\ UNCHANGED <<keyed, open, couponVars, call, record, subscription, paid, verifying,
                   effectVars, overdue, overlapped>>

-----------------------------------------------------------------------------
(* Admins, readers and the clock *)

\* changeStatus, or the validity window opens or closes.
OpenOrCloseCoupon ==
    /\ open' = ~open
    /\ UNCHANGED <<keyed, couponVars, call, record, subscription, paymentVars, effectVars,
                   overdue, overlapped>>

\* current() expires stale checkouts whenever somebody reads the subscription.
ReadSubscription(o) ==
    /\ PendingCheckouts(o) # {}
    /\ ExpireStale(o)
    /\ UNCHANGED <<keyed, open, couponVars, call, record, paymentVars, effectVars, overdue,
                   overlapped>>

ReservationTimesOut(r) ==
    /\ redemption[r] = "RESERVED"
    /\ r \notin overdue
    /\ overdue' = overdue \cup {r}
    /\ UNCHANGED <<keyed, open, couponVars, call, record, subscription, paymentVars,
                   effectVars, overlapped>>

-----------------------------------------------------------------------------
Verify(c) == VerifyFetched(c) \/ VerifyWritten(c)

Next ==
    \/ \E c \in Calls :
          \/ RefuseCheckout(c)
          \/ ReplayCheckout(c)
          \/ OpenCheckout(c)
          \/ OrderCreated(c)
          \/ OrderFails(c)
          \/ FailPayment(c)
          \/ Authorize(c)
          \/ Capture(c)
          \/ FetchPayment(c)
          \/ Verify(c)
          \/ HandlePaymentCaptured(c)
          \/ HandlePaymentFailed(c)
    \/ \E r \in Requests :
          ReservationTimesOut(r) \/ ReadSubscription(Organization[r])
    \/ OpenOrCloseCoupon

Safety == Init /\ [][Next]_vars

\* A verify call that waits is resumed, and the provider sends its event until it is
\* accepted.  Customers need not pay, verify or retry, nor providers capture.
Spec ==
    /\ Safety
    /\ \A c \in Calls : WF_vars(Verify(c)) /\ WF_vars(HandlePaymentCaptured(c))

-----------------------------------------------------------------------------
(* Properties *)

RedemptionStatus == {"RESERVED", "CONSUMED", "EXPIRED"}

TypeOK ==
    /\ keyed \in SUBSET Keyed
    /\ open \in BOOLEAN
    /\ redemption \in [Requests -> RedemptionStatus \cup {"NONE"}]
    /\ attached \in [Requests -> Nat]
    /\ call \in [Calls -> {"none", "refused", "replayed", "ordering", "done", "failed"}]
    /\ record \in [Requests -> Nat]
    /\ subscription \in
           [Calls -> {"NONE", "AUTHENTICATION_PENDING", "ACTIVE", "EXPIRED"}]
    /\ paid \in [Calls -> {"none", "failed", "authorized", "captured"}]
    /\ payment \in [Calls -> {"none", "FAILED", "AUTHORIZED", "CAPTURED"}]
    /\ verifying \in [Calls -> {"idle", "authorized", "captured", "writing"}]
    /\ events \in [Calls -> SUBSET {"failed", "captured"}]
    /\ discount \in SUBSET Calls
    /\ overdue \in SUBSET Requests
    /\ activated \in SUBSET Calls
    /\ late \in SUBSET Requests
    /\ overlapped \in SUBSET Requests

\* An account has one live subscription, however many checkouts it opened and in
\* whatever order their payments are verified and reported.
OneLiveSubscription ==
    \A c, d \in Calls :
        (SameAccount(c, d) /\ subscription[c] = "ACTIVE" /\ subscription[d] = "ACTIVE")
            => c = d

\* The coupon is not redeemed, or held for redemption, more often than its limit
\* allows, except by customers that pay after their reservation was released.
WithinLimit == Cardinality(Held \ late) <= MaxRedemptions

\* Neither a live subscription nor a redeemed coupon without a payment the provider
\* captured for it, whoever reports the payment and whatever its status was then.
GivenIsPaid ==
    /\ \A c \in Calls : subscription[c] = "ACTIVE" => paid[c] = "captured"
    /\ \A r \in Requests :
          redemption[r] = "CONSUMED" =>
              \E c \in Calls : c[1] = r /\ paid[c] = "captured"

\* A purchase takes its discount to one subscription, although verify and the webhook
\* both redeem, and retries attach the redemption to another subscription.
DiscountedOnce ==
    \A c, d \in discount : c[1] = d[1] => c = d

\* Retrying a request that carries a key opens no second order, unless the retry
\* overtakes the first call or that call failed.
OneOrderPerKey ==
    \A r \in keyed \ overlapped : \A m, n \in 1..Tries[r] :
        (call[<<r, m>>] = "done" /\ call[<<r, n>>] \in {"ordering", "done"}) => m = n

\* A captured payment activates its subscription in the end, whichever of verify and
\* webhook comes first, unless an earlier status of it was recorded.
CapturedIsActivated ==
    \A c \in Calls :
        paid[c] = "captured" ~> c \in activated \/ payment[c] \in {"FAILED", "AUTHORIZED"}
=============================================================================

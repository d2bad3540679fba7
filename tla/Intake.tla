------------------------------- MODULE Intake -------------------------------
(***************************************************************************)
(* How the outside world reports payments and refunds: createConversion    *)
(* and refundConversion with their idempotency keys, and receiveWebhook,   *)
(* which records a payment provider's event and then makes the same calls  *)
(* (ConversionsService, IntegrationsService).  One organization.           *)
(*                                                                         *)
(* A request is one message, which may be sent again; "the same body"      *)
(* means the same request.  createConversion waits for the fraud check and *)
(* for the write of the commission; refundConversion works in one turn.    *)
(* A conversion is stored under the click of the attribution it is         *)
(* credited to, which need not be the click that the request names.        *)
(* What becomes of commissions and of the ledger is the module             *)
(* Conversions.  The writes that a call waits for last are taken as one    *)
(* with its last turn: what a restart between the two can lose of a row is *)
(* the module Store.                                                       *)
(***************************************************************************)
EXTENDS Naturals, FiniteSets

CONSTANTS
    ShopOrders,         \* external ids of conversions
    Amount,         \* conversion.amount
    Payments,       \* requests to create a conversion
    Refunds,        \* requests to refund one
    OrderOf,        \* the order a request is about
    ClickOf,        \* dto.clickId, the click a payment names, or NoClick
    AttributionOf,  \* dto.attributionId, the attribution it names, or Nothing
    Attributions,   \* attributions that tracking may make
    AttributedClick,    \* the click of an attribution
    Credits,        \* the attributions that have the customer of a payment
    RefundOf,       \* dto.amount of a refund
    IdOf,           \* refundExternalId of a refund, or NoId
    KeyOf,          \* the idempotency key of a request, or NoKey
    Delivered,      \* requests that are events of a provider
    Handlers,       \* handlers that may run at the same time
    MaxSends,       \* bound: how often a request is sent
    NoClick, NoKey, NoId, Nothing

Requests == Payments \cup Refunds
Keys == {KeyOf[r] : r \in Requests} \ {NoKey}
Clicks == {ClickOf[r] : r \in Payments} \cup {AttributedClick[a] : a \in Attributions}
              \cup {NoClick}

ASSUME IntakeAssumption ==
    /\ Amount \in Nat \ {0} /\ MaxSends \in Nat
    /\ Payments \cap Refunds = {}
    /\ IsFiniteSet(Requests)
    /\ OrderOf \in [Requests -> ShopOrders]
    /\ RefundOf \in [Refunds -> 1..Amount]
    /\ Credits \in [Payments -> SUBSET Attributions]
    /\ DOMAIN ClickOf = Payments /\ DOMAIN IdOf = Refunds /\ DOMAIN KeyOf = Requests
    /\ Delivered \subseteq Requests
    /\ \A r \in Refunds \cap Delivered : IdOf[r] # NoId
    /\ \A r \in Delivered : KeyOf[r] # NoKey /\ \A q \in Requests : KeyOf[q] = KeyOf[r] => q = r
    /\ Nothing \notin Requests

VARIABLES
    conversion,     \* status of the conversion of an order
    refunded,       \* its refundedAmount
    click,          \* its clickId
    effects,        \* how often a request took effect on what is there now
    stored,         \* the request answered under a key
    call,           \* what a handler works on and where it stands
    event,          \* status of the record of a provider's event
    bridged,        \* history: how the call made for an event ended, as event.metadata say
                    \* until a restart (they are set past the proxy)
    trusted,        \* the webhook secret is configured
    attribution,    \* whether an attribution is there
    sends,          \* how often a request was sent
    reopened,       \* history: keys used while a call with them was unanswered, or whose record is gone
    cut,            \* history: events whose handling a restart cut off
    unverified,     \* history: events recorded with a bad signature
    early           \* history: refunds handled before their payment

orderVars   == <<conversion, refunded, click, effects, stored>>
eventVars   == <<event, bridged>>
markVars    == <<cut, unverified, early>>
intakeVars  == <<orderVars, call, eventVars, trusted, attribution, sends, reopened, markVars>>

Idle == [at |-> "idle", on |-> Nothing]

IntakeInit ==
    /\ conversion = [o \in ShopOrders |-> "NONE"]
    /\ refunded = [o \in ShopOrders |-> 0]
    /\ click = [o \in ShopOrders |-> NoClick]
    /\ effects = [r \in Requests |-> 0]
    /\ stored = [k \in Keys |-> Nothing]
    /\ call = [h \in Handlers |-> Idle]
    /\ event = [r \in Delivered |-> "NONE"]
    /\ bridged = [r \in Delivered |-> "none"]
    /\ trusted \in BOOLEAN
    /\ attribution = [a \in Attributions |-> "NONE"]
    /\ sends = [r \in Requests |-> 0]
    /\ reopened = {}
    /\ cut = {}
    /\ unverified = {}
    /\ early = {}

-----------------------------------------------------------------------------
(* The checks at the head of the two calls.  An operator whose name has an    *)
(* underscore is the operator before the underscore with a slip in it.        *)

Engaged(h) == call[h].at # "idle"
Pending(r) == \E h \in Handlers : call[h].on = r
Creating(r) == \E h \in Handlers : call[h].on = r /\ call[h].at \in {"evaluating", "recording"}

Replays(r) == KeyOf[r] # NoKey /\ stored[KeyOf[r]] = r
KeyReused_Ignored(r) == FALSE
KeyReused(r) == KeyOf[r] # NoKey /\ stored[KeyOf[r]] \notin {Nothing, r}

Exists(r) == conversion[OrderOf[r]] # "NONE"
ClickUsed(r) == ClickOf[r] # NoClick /\ \E o \in ShopOrders : click[o] = ClickOf[r]

PaymentRefused_ByClick(r) == ClickUsed(r)
PaymentRefused(r) == Exists(r) \/ ClickUsed(r)

\* resolveAttribution: one of the click that r names, or the attribution that it names, or
\* else one of its customer; the model of the program says which.
Attributed(r) ==
    LET live == {a \in Attributions : attribution[a] = "LIVE"}
        byClick == {a \in live : ClickOf[r] # NoClick /\ AttributedClick[a] = ClickOf[r]}
        byId == live \cap {AttributionOf[r]}
    IN  IF byClick # {} THEN byClick
        ELSE IF byId # {} THEN byId
        ELSE live \cap Credits[r]

\* conversion.clickId
StoredClicks(r) ==
    IF Attributed(r) = {} THEN {ClickOf[r]} ELSE {AttributedClick[a] : a \in Attributed(r)}

Remaining(o) == Amount - refunded[o]

Applied(r) ==
    /\ IdOf[r] # NoId
    /\ \E q \in Refunds : OrderOf[q] = OrderOf[r] /\ IdOf[q] = IdOf[r] /\ effects[q] > 0

RefundRefused(r) ==
    \/ ~Exists(r)
    \/ conversion[OrderOf[r]] = "REFUNDED"
    \/ Applied(r)
    \/ RefundOf[r] > Remaining(OrderOf[r])

-----------------------------------------------------------------------------
(* Handling a request *)

\* The record of a key; when there are several, the first is found.
Store(r) ==
    stored' = IF KeyOf[r] = NoKey \/ stored[KeyOf[r]] # Nothing THEN stored
              ELSE [stored EXCEPT ![KeyOf[r]] = r]

\* The key of r is used again while a call with it is unanswered.
Reopen(r) ==
    reopened' = IF \E q \in Payments : KeyOf[q] = KeyOf[r] /\ Creating(q)
                THEN reopened \cup {KeyOf[r]} ELSE reopened

\* The answer to an API client, or the note on a provider's event.
Answer_Silent(h, r, how) ==
    /\ call' = [call EXCEPT ![h] = Idle]
    /\ bridged' = IF r \in Delivered /\ how = "done"
                  THEN [bridged EXCEPT ![r] = how] ELSE bridged
Answer(h, r, how) ==
    /\ call' = [call EXCEPT ![h] = Idle]
    /\ bridged' = IF r \in Delivered THEN [bridged EXCEPT ![r] = how] ELSE bridged

Replay(h, r) ==
    /\ Replays(r)
    /\ Answer(h, r, "done")
    /\ UNCHANGED <<orderVars, reopened, early>>

Refuse(h, r) ==
    /\ ~Replays(r)
    /\ KeyReused(r) \/ (r \in Payments /\ PaymentRefused(r)) \/ (r \in Refunds /\ RefundRefused(r))
    /\ Answer(h, r, "error")
    /\ early' = IF r \in Refunds /\ ~Exists(r) THEN early \cup {r} ELSE early
    /\ UNCHANGED <<orderVars, reopened>>

\* createConversion up to its fraud check.
Create(h, r) ==
    /\ r \in Payments
    /\ ~Replays(r) /\ ~KeyReused(r) /\ ~PaymentRefused(r)
    /\ conversion' = [conversion EXCEPT ![OrderOf[r]] = "PENDING"]
    /\ \E c \in StoredClicks(r) : click' = [click EXCEPT ![OrderOf[r]] = c]
    /\ effects' = [effects EXCEPT ![r] = @ + 1]
    /\ call' = [call EXCEPT ![h] = [at |-> "evaluating", on |-> r]]
    /\ Reopen(r)
    /\ UNCHANGED <<refunded, stored, bridged, early>>

FullyRefunded(total) == total >= Amount

Refund(h, r) ==
    /\ r \in Refunds
    /\ ~Replays(r) /\ ~KeyReused(r) /\ ~RefundRefused(r)
    /\ LET o == OrderOf[r]
           total == refunded[o] + RefundOf[r]
       IN  /\ refunded' = [refunded EXCEPT ![o] = total]
           /\ conversion' = [conversion EXCEPT ![o] =
                                IF FullyRefunded(total) THEN "REFUNDED" ELSE "PARTIALLY_REFUNDED"]
    /\ effects' = [effects EXCEPT ![r] = @ + 1]
    /\ Store(r)
    /\ Reopen(r)
    /\ Answer(h, r, "done")
    /\ UNCHANGED <<click, early>>

Handle(h, r) == Replay(h, r) \/ Refuse(h, r) \/ Create(h, r) \/ Refund(h, r)

\* The fraud check answers; the status is set whatever became of the conversion.
EvaluationEnds(h, decision) ==
    /\ call[h].at = "evaluating"
    /\ conversion' = [conversion EXCEPT ![OrderOf[call[h].on]] = decision]
    /\ call' = [call EXCEPT ![h] = [at |-> "recording", on |-> @.on]]
    /\ UNCHANGED <<refunded, click, effects, stored, eventVars, trusted, attribution, sends,
                   reopened, markVars>>

\* createConversion behind its last wait: the key is recorded and the call answered.
CreationEnds(h) ==
    LET r == call[h].on
    IN  /\ call[h].at = "recording"
        /\ Store(r)
        /\ Answer(h, r, "done")
        /\ UNCHANGED <<conversion, refunded, click, effects, event, trusted, attribution, sends,
                       reopened, markVars>>

\* The check or the commission throws: the conversion stays, no key is recorded.
CreationFails(h) ==
    LET r == call[h].on
    IN  /\ call[h].at \in {"evaluating", "recording"}
        /\ Answer(h, r, "error")
        /\ reopened' = reopened \cup {KeyOf[r]}
        /\ UNCHANGED <<orderVars, event, trusted, attribution, sends, markVars>>

-----------------------------------------------------------------------------
(* Who sends requests *)

Sent(r) == sends[r] < MaxSends /\ sends' = [sends EXCEPT ![r] = @ + 1]

\* An API client sends a request, for the first time or again.
Call(h, r) ==
    /\ r \notin Delivered
    /\ ~Engaged(h)
    /\ Sent(r)
    /\ Handle(h, r)
    /\ UNCHANGED <<event, trusted, attribution, cut, unverified>>

\* receiveWebhook up to the write of the event's record.
Redeliver(r) ==
    /\ event[r] # "NONE"
    /\ Sent(r)
    /\ event' = [event EXCEPT ![r] = "DUPLICATE"]
    /\ UNCHANGED <<orderVars, call, bridged, trusted, attribution, reopened, markVars>>

Deliver(h, r) ==
    /\ event[r] = "NONE"
    /\ ~Engaged(h)
    /\ Sent(r)
    /\ IF trusted
       THEN /\ event' = [event EXCEPT ![r] = "PROCESSED"]
            /\ call' = [call EXCEPT ![h] = [at |-> "recorded", on |-> r]]
            /\ UNCHANGED unverified
       ELSE /\ event' = [event EXCEPT ![r] = "FAILED"]
            /\ unverified' = unverified \cup {r}
            /\ UNCHANGED call
    /\ UNCHANGED <<orderVars, bridged, trusted, attribution, reopened, cut, early>>

\* The record is written: the event becomes a call.
Bridge(h) ==
    /\ call[h].at = "recorded"
    /\ Handle(h, call[h].on)
    /\ UNCHANGED <<event, trusted, attribution, sends, cut, unverified>>

\* retryOperation: the event is marked as processed and nothing else happens.
RetryOperation(r) ==
    /\ event[r] # "NONE"
    /\ event' = [event EXCEPT ![r] = "PROCESSED"]
    /\ UNCHANGED <<orderVars, call, bridged, trusted, attribution, sends, reopened, markVars>>

SetSecret ==
    /\ trusted' = ~trusted
    /\ UNCHANGED <<orderVars, call, eventVars, attribution, sends, reopened, markVars>>

\* A visitor comes over a link; later the window of the attribution ends.
TrackClick(a) ==
    /\ attribution[a] = "NONE"
    /\ attribution' = [attribution EXCEPT ![a] = "LIVE"]
    /\ UNCHANGED <<orderVars, call, eventVars, trusted, sends, reopened, markVars>>

AttributionExpires(a) ==
    /\ attribution[a] = "LIVE"
    /\ attribution' = [attribution EXCEPT ![a] = "EXPIRED"]
    /\ UNCHANGED <<orderVars, call, eventVars, trusted, sends, reopened, markVars>>

\* expiresAt of the record of a key passes.
KeyExpires(k) ==
    /\ stored[k] # Nothing
    /\ stored' = [stored EXCEPT ![k] = Nothing]
    /\ reopened' = reopened \cup {k}
    /\ UNCHANGED <<conversion, refunded, click, effects, call, eventVars, trusted, attribution, sends,
                   markVars>>

\* The process restarts.  What was waited for is in the database.  The first write of a
\* conversion that is still being checked may not be there yet, and the status that
\* createConversion sets on the object it pushed starts no write.
MayBeLost(r) == (\E h \in Handlers : call[h] = [at |-> "evaluating", on |-> r]) /\ refunded[OrderOf[r]] = 0

Decided == {o \in ShopOrders : conversion[o] \in {"APPROVED", "REJECTED"}}

Restart ==
    \E lost \in SUBSET {r \in Payments : MayBeLost(r)}, undecided \in SUBSET Decided :
        /\ conversion' = [o \in ShopOrders |->
                            CASE \E r \in lost : OrderOf[r] = o -> "NONE"
                              [] o \in undecided -> "PENDING"
                              [] OTHER -> conversion[o]]
        /\ click' = [o \in ShopOrders |->
                        IF \E r \in lost : OrderOf[r] = o THEN NoClick ELSE click[o]]
        /\ effects' = [r \in Requests |-> IF r \in lost THEN 0 ELSE effects[r]]
        /\ call' = [h \in Handlers |-> Idle]
        /\ reopened' = reopened \cup {KeyOf[call[h].on] : h \in {g \in Handlers : Engaged(g)}}
        /\ cut' = cut \cup {r \in Delivered : Pending(r)}
        /\ UNCHANGED <<refunded, stored, eventVars, trusted, attribution, sends, unverified, early>>

IntakeNext ==
    \/ \E h \in Handlers :
          \/ \E r \in Requests : Call(h, r)
          \/ \E r \in Delivered : Deliver(h, r)
          \/ Bridge(h)
          \/ \E decision \in {"APPROVED", "REJECTED", "PENDING"} : EvaluationEnds(h, decision)
          \/ CreationEnds(h) \/ CreationFails(h)
    \/ \E r \in Delivered : Redeliver(r) \/ RetryOperation(r)
    \/ SetSecret
    \/ \E a \in Attributions : TrackClick(a) \/ AttributionExpires(a)
    \/ \E k \in Keys : KeyExpires(k)
    \/ Restart

IntakeSafety == IntakeInit /\ [][IntakeNext]_intakeVars
-----------------------------------------------------------------------------
(* Properties *)

\* What the variables hold.
IntakeTypeOK ==
    /\ conversion \in [ShopOrders -> {"NONE", "PENDING", "APPROVED", "REJECTED",
                                  "PARTIALLY_REFUNDED", "REFUNDED"}]
    /\ refunded \in [ShopOrders -> 0..Amount]
    /\ click \in [ShopOrders -> Clicks]
    /\ effects \in [Requests -> Nat]
    /\ stored \in [Keys -> Requests \cup {Nothing}]
    /\ call \in [Handlers -> [at : {"evaluating", "recording", "recorded"}, on : Requests]
                             \cup {Idle}]
    /\ event \in [Delivered -> {"NONE", "PROCESSED", "FAILED", "DUPLICATE"}]
    /\ bridged \in [Delivered -> {"none", "done", "error"}]
    /\ trusted \in BOOLEAN
    /\ attribution \in [Attributions -> {"NONE", "LIVE", "EXPIRED"}]
    /\ sends \in [Requests -> 0..MaxSends]
    /\ reopened \subseteq Keys \cup {NoKey}
    /\ cut \subseteq Delivered /\ unverified \subseteq Delivered
    /\ early \subseteq Refunds

\* A conversion that is credited to the click its request names.
CreditedAsNamed(p) == ClickOf[p] # NoClick /\ click[OrderOf[p]] = ClickOf[p]

\* However often and by whomever a payment is reported, with whatever key, before and
\* after a restart: an order makes one conversion, and of the payments that name a click
\* one is credited to it, whatever attributions come and go meanwhile (createConversion).
OneConversionEach ==
    \A p, q \in {r \in Payments : effects[r] > 0} :
        OrderOf[p] = OrderOf[q]
        \/ (ClickOf[p] = ClickOf[q] /\ CreditedAsNamed(p) /\ CreditedAsNamed(q))
            => p = q /\ effects[p] = 1

\* A refund is applied once per id and order.  Under one idempotency key one request takes
\* effect, once, unless the key was used again while its first call was unanswered, or
\* its record was never written or expired.
TakesEffectOnce ==
    /\ \A p, q \in {r \in Refunds : IdOf[r] # NoId /\ effects[r] > 0} :
          OrderOf[p] = OrderOf[q] /\ IdOf[p] = IdOf[q] => p = q /\ effects[p] = 1
    /\ \A k \in Keys \ reopened :
          \A p, q \in {r \in Requests : KeyOf[r] = k /\ effects[r] > 0} : p = q /\ effects[p] = 1

\* An event recorded as processed was handed on, and refused if it had no effect, unless
\* its signature failed the first time or a restart came between the two (receiveWebhook);
\* a refund that does not come before its payment is refused only when it
\* was applied already or less is left.
EventIsHandled ==
    \A r \in Delivered :
        event[r] \in {"PROCESSED", "DUPLICATE"} /\ r \notin cut \cup unverified =>
            /\ bridged[r] = "none" => Pending(r)
            /\ bridged[r] = "error" /\ r \in Refunds \ early =>
                   Applied(r) \/ RefundOf[r] > Remaining(OrderOf[r])
=============================================================================

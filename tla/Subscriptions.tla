--------------------------- MODULE Subscriptions ---------------------------
(***************************************************************************)
(* The subscriptions of one customer, who owns several organizations:      *)
(* trials and their extension, checkouts and their payment, upgrades, the  *)
(* job that ends trials, and the two ways in which the program chooses the *)
(* subscription that counts (SubscriptionService, TrialService,            *)
(* TrialSchedulerService, SubscriptionLimitService.resolveEntitlement).    *)
(*                                                                         *)
(* A subscription is named by its position in billingSubscriptions.  One   *)
(* whose rowStatus is INACTIVE is EXPIRED here, whatever status the job    *)
(* gives it later: nothing but a payment looks at it again.  Handlers      *)
(* change what they change before their first wait; the job waits for the  *)
(* notifications it sends for each of the trials it goes through.          *)
(*                                                                         *)
(* Payments are one-time orders, as in Checkout, where what precedes a     *)
(* payment is modelled.  A plan is its rank; where the program prefers the *)
(* row modified last among rows of one rank, any of them is taken.         *)
(***************************************************************************)
EXTENDS Naturals

CONSTANTS
    Organizations,  \* the organizations of the customer
    Plans,          \* ranks of the plans on sale
    TrialPlan,      \* rank of GROWTH, the plan of a trial nobody asked for
    MaxRows,        \* bound on the subscriptions
    MaxExtensions   \* bound on the extensions of trials

ASSUME SubscriptionsAssumption ==
    /\ Plans \subseteq Nat
    /\ TrialPlan \in Plans
    /\ MaxRows \in Nat
    /\ MaxExtensions \in Nat

VARIABLES
    pushed,         \* how many subscriptions there are
    subscription,   \* the subscriptions
    used,           \* organizations with an OrganizationTrial, which has trialUsed
    extensions,     \* how many extensions there were
    isProcessing,   \* the job that ends trials runs
    agenda,         \* trials it has listed and not yet come to
    due,            \* those of them that were past when it started
    upgraded        \* history: subscriptions that an upgrade made ACTIVE, unpaid since

jobVars == <<isProcessing, agenda, due>>
subscriptionVars == <<pushed, subscription, used, extensions, jobVars, upgraded>>

Positions == 1..MaxRows

Subscription ==
    [organization : Organizations,
     plan   : Plans,
     from   : {"trial", "checkout", "creation"},    \* what pushed it
     shared : BOOLEAN,                              \* it has the accountId
     status : {"AUTHENTICATION_PENDING", "TRIALING", "TRIAL_EXPIRED", "ACTIVE", "EXPIRED"},
     ends   : {"never", "ahead", "past"}]           \* trialEndsAt

NoSubscription == [status |-> "NONE"]

SubscriptionsInit ==
    /\ pushed = 0
    /\ subscription = [i \in Positions |-> NoSubscription]
    /\ used = {}
    /\ extensions = 0
    /\ isProcessing = FALSE
    /\ agenda = {}
    /\ due = {}
    /\ upgraded = {}

-----------------------------------------------------------------------------
(* Helpers; s is what billingSubscriptions holds when they are called. *)

\* Which is the first of some rows; they are in the order in which they were pushed.
IsFirst(i, S) == i \in S /\ \A j \in S : i <= j

\* The rows of an organization whose rowStatus is ACTIVE, and those that are paid.
RowsOf(s, o) ==
    {i \in 1..pushed : s[i].organization = o /\ s[i].status # "EXPIRED"}
PaidOf_None(s, o) == {}
PaidOf(s, o) == {i \in RowsOf(s, o) : s[i].status = "ACTIVE"}

\* The row of an organization that was created last; one that getTrialStatus pushed
\* bears the date of the organization.
CreatedBefore(s, i, j) ==
    IF s[i].from = "creation" THEN s[j].from # "creation" \/ i < j
    ELSE s[j].from # "creation" /\ i < j
IsNewest(s, o, i) == i \in RowsOf(s, o) /\ \A j \in RowsOf(s, o) \ {i} : CreatedBefore(s, j, i)

IsOver(t) == t.status = "TRIALING" /\ t.ends = "past"
Lapsed(t) == IF IsOver(t) THEN [t EXCEPT !.status = "TRIAL_EXPIRED"] ELSE t

\* current(): the organization's trials that are past end, and so do checkouts that
\* have waited for half an hour, which the clock chooses.
StaleCheckouts(o) ==
    SUBSET {i \in RowsOf(subscription, o) :
               subscription[i].status = "AUTHENTICATION_PENDING"}
AfterCheckouts(stale) ==
    [i \in Positions |->
        IF i \in stale THEN [subscription[i] EXCEPT !.status = "EXPIRED"]
        ELSE subscription[i]]
AfterRead(o, stale) ==
    [i \in Positions |->
        IF i \in RowsOf(subscription, o) THEN Lapsed(AfterCheckouts(stale)[i])
        ELSE subscription[i]]

\* The order in which the subscriptions of an account are preferred.
Beats(s, i, j) ==
    \/ s[i].shared /\ ~s[j].shared
    \/ s[i].shared = s[j].shared /\ s[i].plan > s[j].plan
Best(s, S) == {i \in S : \A j \in S : ~Beats(s, j, i)}
Having(s, statuses) == {i \in 1..pushed : s[i].status \in statuses}

\* current() returns one of these.
Governs(s) == Best(s, Having(s, {"TRIALING", "ACTIVE", "TRIAL_EXPIRED"}))

\* resolveEntitlement counts the allowances of one of these.
Entitles(s) == Best(s, Having(s, {"TRIALING", "ACTIVE"}))

\* getTrialStatus of an organization with rows: its paid row, or else its newest one.
AfterStatus(s, o) ==
    IF PaidOf(s, o) # {} THEN s
    ELSE [i \in Positions |-> IF IsNewest(s, o, i) THEN Lapsed(s[i]) ELSE s[i]]

-----------------------------------------------------------------------------
(* Trials *)

MayTry(o) == o \notin used /\ PaidOf(subscription, o) = {}

Trial(t, p) == [t EXCEPT !.plan = p, !.status = "TRIALING", !.ends = "ahead"]

\* startTrial takes over the organization's first row, a checkout that waits for its
\* payment included.
StartTrialOnRow(o, p) ==
    /\ MayTry(o)
    /\ \E i \in RowsOf(subscription, o) :
          /\ IsFirst(i, RowsOf(subscription, o))
          /\ subscription' = AfterStatus([subscription EXCEPT ![i] = Trial(@, p)], o)
          /\ due' = due \ {i}
    /\ used' = used \cup {o}
    /\ UNCHANGED <<pushed, extensions, isProcessing, agenda, upgraded>>

PushRow(t) ==
    /\ pushed < MaxRows
    /\ pushed' = pushed + 1
    /\ subscription' = [subscription EXCEPT ![pushed + 1] = t]

StartTrial(o, p) ==
    /\ MayTry(o)
    /\ RowsOf(subscription, o) = {}
    /\ PushRow([organization |-> o, plan |-> p, from |-> "trial", shared |-> TRUE,
               status |-> "TRIALING", ends |-> "ahead"])
    /\ used' = used \cup {o}
    /\ UNCHANGED <<extensions, jobVars, upgraded>>

\* getTrialStatus
ReadTrial(o) ==
    /\ RowsOf(subscription, o) # {}
    /\ subscription' = AfterStatus(subscription, o)
    /\ UNCHANGED <<pushed, used, extensions, jobVars, upgraded>>

\* getTrialStatus of an organization without rows: a trial that started when the
\* organization was created, and may have ended since.
AnchorTrial(o) ==
    /\ RowsOf(subscription, o) = {}
    /\ \E ends \in {"ahead", "past"} :
           PushRow(Lapsed([organization |-> o, plan |-> TrialPlan, from |-> "creation",
                          shared |-> FALSE, status |-> "TRIALING", ends |-> ends]))
    /\ used' = used \cup {o}
    /\ UNCHANGED <<extensions, jobVars, upgraded>>

\* extendTrial takes the newest row whatever its status.  The job compares the new end
\* with the time at which it started.
ExtendTrial(o) ==
    /\ extensions < MaxExtensions
    /\ \E n \in RowsOf(subscription, o) :
          /\ IsNewest(subscription, o, n)
          /\ subscription' = AfterStatus([subscription EXCEPT ![n] = Trial(@, @.plan)], o)
          /\ due' = due \ {n}
    /\ extensions' = extensions + 1
    /\ UNCHANGED <<pushed, used, isProcessing, agenda, upgraded>>

TrialEnds(i) ==
    /\ i <= pushed
    /\ subscription[i].ends = "ahead"
    /\ subscription' = [subscription EXCEPT ![i].ends = "past"]
    /\ UNCHANGED <<pushed, used, extensions, jobVars, upgraded>>

\* evaluateTrials lists the trials and comes to the first; it goes through the list
\* without a second look at a row's status.
ComeTo(i, listed, past) ==
    /\ IsFirst(i, listed)
    /\ agenda' = listed \ {i}
    /\ due' = past
    /\ subscription' =
           IF i \in past /\ subscription[i].status # "EXPIRED"
           THEN [subscription EXCEPT ![i].status = "TRIAL_EXPIRED"]
           ELSE subscription

StartJob ==
    LET listed == Having(subscription, {"TRIALING"})
    IN  /\ ~isProcessing
        /\ \E i \in listed : ComeTo(i, listed, {j \in listed : subscription[j].ends = "past"})
        /\ isProcessing' = TRUE
        /\ UNCHANGED <<pushed, used, extensions, upgraded>>

ContinueJob ==
    /\ isProcessing
    /\ \E i \in agenda : ComeTo(i, agenda, due)
    /\ UNCHANGED <<pushed, used, extensions, isProcessing, upgraded>>

EndJob_Stays ==
    /\ isProcessing
    /\ agenda = {}
    /\ due' = {}
    /\ UNCHANGED <<pushed, subscription, used, extensions, isProcessing, agenda, upgraded>>
EndJob ==
    /\ isProcessing
    /\ agenda = {}
    /\ isProcessing' = FALSE
    /\ due' = {}
    /\ UNCHANGED <<pushed, subscription, used, extensions, agenda, upgraded>>

-----------------------------------------------------------------------------
(* Paid subscriptions *)

\* checkout ends stale checkouts of the organization first.
OpenCheckout(o, p) ==
    /\ pushed < MaxRows
    /\ pushed' = pushed + 1
    /\ \E stale \in StaleCheckouts(o) :
           subscription' =
               [AfterCheckouts(stale) EXCEPT ![pushed + 1] =
                   [organization |-> o, plan |-> p, from |-> "checkout", shared |-> TRUE,
                    status |-> "AUTHENTICATION_PENDING", ends |-> "never"]]
    /\ UNCHANGED <<used, extensions, jobVars, upgraded>>

\* What a payment of i puts an end to; a checkout has the accountId.
Superseded_Organization(i, j) ==
    /\ j # i
    /\ subscription[j].status \in {"ACTIVE", "AUTHENTICATION_PENDING"}
    /\ subscription[j].organization = subscription[i].organization
Superseded(i, j) ==
    /\ j # i
    /\ subscription[j].status \in {"ACTIVE", "AUTHENTICATION_PENDING"}
    /\ subscription[j].shared \/ subscription[j].organization = subscription[i].organization

\* activateSubscription, when the order of a checkout is paid or its payment verified
\* once more, whatever became of the row.
Pay(i) ==
    /\ i <= pushed
    /\ subscription[i].from = "checkout"
    /\ subscription' =
           [j \in Positions |->
               IF j = i THEN [subscription[j] EXCEPT !.status = "ACTIVE"]
               ELSE IF Superseded(i, j) THEN [subscription[j] EXCEPT !.status = "EXPIRED"]
               ELSE subscription[j]]
    /\ upgraded' = upgraded \ {i}
    /\ UNCHANGED <<pushed, used, extensions, jobVars>>

\* upgrade compares with the row that governs, and makes that row the larger plan.
Raised(t, p) == [t EXCEPT !.plan = p, !.status = "ACTIVE", !.shared = TRUE]

Upgrade(o, p) ==
    /\ \E stale \in StaleCheckouts(o) :
           LET s == AfterRead(o, stale)
           IN  \E g \in Governs(s) :
                  /\ p > s[g].plan
                  /\ subscription' = [s EXCEPT ![g] = Raised(@, p)]
                  /\ upgraded' = IF s[g].status = "ACTIVE" THEN upgraded
                                 ELSE upgraded \cup {g}
    /\ UNCHANGED <<pushed, used, extensions, jobVars>>

\* downgrade only notes a plan, which nothing looks at later, and the account.
Downgrade(o, p) ==
    /\ \E stale \in StaleCheckouts(o) :
           LET s == AfterRead(o, stale)
           IN  \E g \in Governs(s) :
                  /\ p < s[g].plan
                  /\ subscription' = [s EXCEPT ![g].shared = TRUE]
    /\ UNCHANGED <<pushed, used, extensions, jobVars, upgraded>>

\* current() on its own, or before upgrade, downgrade or cancel refuses.
ReadSubscription(o) ==
    /\ \E stale \in StaleCheckouts(o) : subscription' = AfterRead(o, stale)
    /\ UNCHANGED <<pushed, used, extensions, jobVars, upgraded>>

-----------------------------------------------------------------------------
Job == StartJob \/ ContinueJob \/ EndJob

SubscriptionsNext ==
    \/ \E o \in Organizations :
          \/ ReadTrial(o)
          \/ AnchorTrial(o)
          \/ ExtendTrial(o)
          \/ ReadSubscription(o)
          \/ \E p \in Plans :
                \/ StartTrial(o, p)
                \/ StartTrialOnRow(o, p)
                \/ OpenCheckout(o, p)
                \/ Upgrade(o, p)
                \/ Downgrade(o, p)
    \/ \E i \in Positions : TrialEnds(i) \/ Pay(i)
    \/ Job

SubscriptionsSafety == SubscriptionsInit /\ [][SubscriptionsNext]_subscriptionVars

\* The job runs every minute, and a failed notification neither stops it nor keeps it
\* waiting.  Nobody need read, pay or ask for anything.
SubscriptionsSpec == SubscriptionsSafety /\ WF_subscriptionVars(Job)

-----------------------------------------------------------------------------
(* Properties *)

SubscriptionsTypeOK ==
    /\ pushed \in 0..MaxRows
    /\ subscription \in [Positions -> Subscription \cup {NoSubscription}]
    /\ \A i \in Positions : subscription[i] \in Subscription <=> i <= pushed
    /\ used \in SUBSET Organizations
    /\ extensions \in 0..MaxExtensions
    /\ isProcessing \in BOOLEAN
    /\ agenda \in SUBSET (1..pushed)
    /\ due \in SUBSET (1..pushed)
    /\ upgraded \in SUBSET (1..pushed)

\* An account has one live paid subscription in whatever order its checkouts are paid,
\* but for trials that were upgraded without a payment.
OnePaid ==
    \A i, j \in Having(subscription, {"ACTIVE"}) \ upgraded : i = j

\* A paid subscription counts: the allowances come from a subscription in force that is
\* at least as large, whatever trials stand or have ended beside it.
PaidIsEntitled ==
    \A i \in Having(subscription, {"ACTIVE"}) : \A e \in Entitles(subscription) :
        subscription[e].plan >= subscription[i].plan

\* A paid subscription ends when another one is paid or an extension makes a trial of
\* it, and not otherwise, unless it was paid while the job was going through its list.
PaidStaysPaid ==
    [][\A i \in Having(subscription, {"ACTIVE"}) :
          \/ subscription'[i].status = "ACTIVE"
          \/ /\ subscription'[i].status = "EXPIRED"
             /\ \E j \in Positions : subscription'[j].status = "ACTIVE"
          \/ subscription'[i].status = "TRIALING" /\ extensions' > extensions
          \/ i \in agenda]_subscriptionVars

\* A trial that is over ends, although nobody reads it.
TrialLapses == \A i \in Positions : IsOver(subscription[i]) ~> ~IsOver(subscription[i])

-----------------------------------------------------------------------------
(* What a comment claims without exception *)

\* "One paid subscription covers every organization the customer owns": what current()
\* returns while a checkout is paid is not an ended trial of a larger plan.
PaidGoverns ==
    \A i \in Having(subscription, {"ACTIVE"}) \ upgraded : \A g \in Governs(subscription) :
        subscription[g].status = "TRIAL_EXPIRED" => subscription[g].plan <= subscription[i].plan
=============================================================================

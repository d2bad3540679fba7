------------------------ MODULE SubscriptionsProofs ------------------------
(***************************************************************************)
(* Proofs about Subscriptions, for any number of organizations, plans and  *)
(* subscriptions.  That a paid subscription has the accountId is what      *)
(* makes one payment end the others, and what makes it count.              *)
(***************************************************************************)
EXTENDS Subscriptions, TLAPS

\* What a checkout pushed has the accountId, and so has what is paid.
HasAccount(t) == t.from = "checkout" \/ t.status = "ACTIVE" => t.shared

\* A row that is fit to be in billingSubscriptions.
Sound(t) == t \in Subscription /\ HasAccount(t)

\* A function on the positions.
IsRows(s) == s = [i \in Positions |-> s[i]]

\* What billingSubscriptions holds when n rows were pushed.
SoundRows(s, n) ==
    /\ IsRows(s)
    /\ \A i \in Positions : IF i <= n THEN Sound(s[i]) ELSE s[i] = NoSubscription

SubscriptionsInv == SubscriptionsTypeOK /\ SoundRows(subscription, pushed)

\* What a step makes of a row that stays sound and does not become ACTIVE.
Calm(t, u) == Sound(u) /\ (u.status = "ACTIVE" => t.status = "ACTIVE")

-----------------------------------------------------------------------------
(* What the helpers do to a row *)

\* No position that is taken holds the value of one that is not.
LEMMA NotASubscription == NoSubscription \notin Subscription
BY DEF NoSubscription, Subscription

\* Ending a trial that is past leaves every other row alone.
LEMMA LapsedRow ==
    ASSUME NEW t, Sound(t)
    PROVE  /\ Calm(t, Lapsed(t))
           /\ t.status = "ACTIVE" => Lapsed(t) = t
BY DEF Lapsed, IsOver, Sound, Calm, HasAccount, Subscription

\* A row that becomes a trial.
LEMMA TrialRow ==
    ASSUME NEW t, Sound(t), NEW p \in Plans
    PROVE  Calm(t, Trial(t, p)) /\ Trial(t, p).status = "TRIALING"
BY DEF Trial, Sound, Calm, HasAccount, Subscription

\* A row whose status becomes another one than ACTIVE.
LEMMA EndedRow ==
    ASSUME NEW t, Sound(t), NEW x \in {"TRIAL_EXPIRED", "EXPIRED"}
    PROVE  Calm(t, [t EXCEPT !.status = x]) /\ [t EXCEPT !.status = x].status = x
BY DEF Sound, Calm, HasAccount, Subscription

\* A row that is upgraded.
LEMMA RaisedRow ==
    ASSUME NEW t, Sound(t), NEW p \in Plans
    PROVE  Sound(Raised(t, p)) /\ Raised(t, p).status = "ACTIVE"
BY DEF Raised, Sound, HasAccount, Subscription

-----------------------------------------------------------------------------
(* What the helpers do to the rows *)

\* Rows of which each is left alone or changed calmly are sound, and what is ACTIVE among
\* them was.
LEMMA CalmRows ==
    ASSUME NEW s, NEW u, NEW n \in 0..MaxRows, SoundRows(s, n),
           IsRows(u),
           \A i \in Positions : u[i] = s[i] \/ (i <= n /\ Calm(s[i], u[i]))
    PROVE  /\ SoundRows(u, n)
           /\ \A i \in 1..n : u[i].status = "ACTIVE" => s[i].status = "ACTIVE"
<1>1. ASSUME NEW i \in Positions
      PROVE  IF i <= n THEN Sound(u[i]) ELSE u[i] = NoSubscription
    BY <1>1 DEF SoundRows, Calm
<1>2. ASSUME NEW i \in 1..n, u[i].status = "ACTIVE" PROVE s[i].status = "ACTIVE"
  <2>1. i \in Positions
      BY SubscriptionsAssumption DEF Positions
  <2> QED BY <1>2, <2>1 DEF Calm
<1> QED BY <1>1, <1>2 DEF SoundRows

\* getTrialStatus changes rows calmly, and none that is paid.
LEMMA StatusRows ==
    ASSUME NEW s, SoundRows(s, pushed), pushed \in 0..MaxRows, NEW o
    PROVE  /\ IsRows(AfterStatus(s, o))
           /\ \A i \in Positions :
                 \/ AfterStatus(s, o)[i] = s[i]
                 \/ i <= pushed /\ s[i].status # "ACTIVE" /\ Calm(s[i], AfterStatus(s, o)[i])
<1>1. CASE PaidOf(s, o) # {}
    BY <1>1 DEF AfterStatus, SoundRows, IsRows
<1>2. CASE PaidOf(s, o) = {}
  <2>1. AfterStatus(s, o) =
            [i \in Positions |-> IF IsNewest(s, o, i) THEN Lapsed(s[i]) ELSE s[i]]
      BY <1>2 DEF AfterStatus
  <2>2. ASSUME NEW i \in Positions, IsNewest(s, o, i)
        PROVE  i <= pushed /\ Sound(s[i])
      BY <2>2 DEF IsNewest, RowsOf, SoundRows
  <2>3. ASSUME NEW i \in Positions
        PROVE  \/ AfterStatus(s, o)[i] = s[i]
               \/ i <= pushed /\ s[i].status # "ACTIVE" /\ Calm(s[i], AfterStatus(s, o)[i])
    <3>1. CASE ~IsNewest(s, o, i)
        BY <2>1, <3>1
    <3>2. CASE IsNewest(s, o, i)
      <4>1. AfterStatus(s, o)[i] = Lapsed(s[i])
          BY <2>1, <3>2
      <4> QED BY <4>1, <2>2, <3>2, LapsedRow
    <3> QED BY <3>1, <3>2
  <2> QED BY <2>1, <2>3 DEF IsRows
<1> QED BY <1>1, <1>2

\* current() changes rows calmly, and none that is paid.
LEMMA ReadRows ==
    ASSUME SubscriptionsInv, NEW o, NEW stale \in StaleCheckouts(o)
    PROVE  /\ IsRows(AfterRead(o, stale))
           /\ \A i \in Positions :
                 \/ AfterRead(o, stale)[i] = subscription[i]
                 \/ /\ i <= pushed /\ subscription[i].status # "ACTIVE"
                    /\ Calm(subscription[i], AfterRead(o, stale)[i])
<1>1. ASSUME NEW i \in Positions
      PROVE  \/ AfterRead(o, stale)[i] = subscription[i]
             \/ /\ i <= pushed /\ subscription[i].status # "ACTIVE"
                /\ Calm(subscription[i], AfterRead(o, stale)[i])
  <2>1. CASE i \notin RowsOf(subscription, o)
      BY <2>1 DEF AfterRead
  <2>2. CASE i \in RowsOf(subscription, o)
    <3> DEFINE t == AfterCheckouts(stale)[i]
    <3>1. i <= pushed /\ Sound(subscription[i])
        BY <2>2 DEF RowsOf, SubscriptionsInv, SoundRows
    <3>2. AfterRead(o, stale)[i] = Lapsed(t)
        BY <2>2 DEF AfterRead
    <3>3. CASE i \in stale
      <4>1. t = [subscription[i] EXCEPT !.status = "EXPIRED"]
          BY <3>3 DEF AfterCheckouts
      <4>2. Sound(t) /\ t.status = "EXPIRED"
        <5> HIDE DEF t
        <5>1. Calm(subscription[i], t) /\ t.status = "EXPIRED"
            BY <4>1, <3>1, EndedRow
        <5> QED BY <5>1 DEF Calm
      <4>3. Lapsed(t) = t
          BY <4>2 DEF Lapsed, IsOver
      <4>4. subscription[i].status = "AUTHENTICATION_PENDING"
          BY <3>3 DEF StaleCheckouts
      <4> QED BY <3>1, <3>2, <4>1, <4>2, <4>3, <4>4 DEF Calm
    <3>4. CASE i \notin stale
      <4>1. t = subscription[i]
          BY <3>4 DEF AfterCheckouts
      <4> QED BY <3>1, <3>2, <4>1, LapsedRow
    <3> QED BY <3>3, <3>4
  <2> QED BY <2>1, <2>2
<1> QED BY <1>1 DEF AfterRead, IsRows

\* checkout ends stale checkouts, and nothing else.
LEMMA CheckoutRows ==
    ASSUME SubscriptionsInv, NEW o, NEW stale \in StaleCheckouts(o)
    PROVE  /\ IsRows(AfterCheckouts(stale))
           /\ \A i \in Positions :
                 \/ AfterCheckouts(stale)[i] = subscription[i]
                 \/ /\ i <= pushed /\ subscription[i].status # "ACTIVE"
                    /\ Calm(subscription[i], AfterCheckouts(stale)[i])
<1>1. ASSUME NEW i \in Positions, i \in stale
      PROVE  /\ i <= pushed /\ subscription[i].status # "ACTIVE"
             /\ Calm(subscription[i], AfterCheckouts(stale)[i])
  <2>1. i <= pushed /\ subscription[i].status = "AUTHENTICATION_PENDING"
      BY <1>1 DEF StaleCheckouts, RowsOf
  <2>2. Sound(subscription[i])
      BY <2>1 DEF SubscriptionsInv, SoundRows
  <2>3. AfterCheckouts(stale)[i] = [subscription[i] EXCEPT !.status = "EXPIRED"]
      BY <1>1 DEF AfterCheckouts
  <2> QED BY <2>1, <2>2, <2>3, EndedRow
<1> QED BY <1>1 DEF AfterCheckouts, IsRows

\* A row stays as it is while it is not past.
LEMMA AheadRow ==
    ASSUME NEW s, NEW o, NEW i \in Positions, IsRows(s), s[i].ends = "ahead"
    PROVE  AfterStatus(s, o)[i] = s[i]
<1>1. Lapsed(s[i]) = s[i]
    BY DEF Lapsed, IsOver
<1> QED BY <1>1 DEF AfterStatus

\* One row is replaced calmly.
LEMMA ReplacedRow ==
    ASSUME NEW s, NEW n \in 0..MaxRows, SoundRows(s, n), NEW i \in Positions, i <= n,
           NEW t, Calm(s[i], t)
    PROVE  /\ SoundRows([s EXCEPT ![i] = t], n)
           /\ IsRows([s EXCEPT ![i] = t])
           /\ \A j \in Positions :
                 \/ [s EXCEPT ![i] = t][j] = s[j]
                 \/ j <= n /\ Calm(s[j], [s EXCEPT ![i] = t][j])
<1> DEFINE u == [s EXCEPT ![i] = t]
<1>1. IsRows(u)
    BY DEF SoundRows, IsRows
<1>2. ASSUME NEW j \in Positions
      PROVE  u[j] = s[j] \/ (j <= n /\ Calm(s[j], u[j]))
  <2>1. CASE j = i
      BY <2>1 DEF SoundRows
  <2>2. CASE j # i
      BY <2>2 DEF SoundRows
  <2> QED BY <2>1, <2>2
<1> HIDE DEF u
<1>3. SoundRows(u, n)
    BY <1>1, <1>2, CalmRows
<1> QED BY <1>1, <1>2, <1>3 DEF u

\* The type of the rows is a part of their being sound.
LEMMA RowsType ==
    ASSUME NEW s, NEW n, SoundRows(s, n)
    PROVE  /\ \A i \in Positions : s[i] \in Subscription \cup {NoSubscription}
           /\ IsRows(s)
           /\ \A i \in Positions : s[i] \in Subscription <=> i <= n
BY NotASubscription DEF SoundRows, Sound

-----------------------------------------------------------------------------
(* The steps *)

\* What a step does to rows that were not paid, and to those that were.
Quiet ==
    \A i \in 1..pushed' :
        subscription'[i].status = "ACTIVE" => i <= pushed /\ subscription[i].status = "ACTIVE"
Kept(i) ==
    \/ subscription'[i].status = "ACTIVE"
    \/ /\ subscription'[i].status = "EXPIRED"
       /\ \E j \in Positions : subscription'[j].status = "ACTIVE"
    \/ subscription'[i].status = "TRIALING" /\ extensions' > extensions
    \/ i \in agenda
AllKept == \A i \in 1..pushed : subscription[i].status = "ACTIVE" => Kept(i)
RowsKept == SoundRows(subscription', pushed') /\ pushed' \in pushed..MaxRows /\ AllKept

\* A step that pushes nothing and changes rows calmly.
LEMMA CalmStep ==
    ASSUME SubscriptionsInv, pushed' = pushed, IsRows(subscription'),
           \A i \in Positions :
               \/ subscription'[i] = subscription[i]
               \/ i <= pushed /\ Calm(subscription[i], subscription'[i])
    PROVE  SoundRows(subscription', pushed') /\ pushed' \in pushed..MaxRows /\ Quiet
<1>1. pushed \in 0..MaxRows /\ SoundRows(subscription, pushed)
    BY DEF SubscriptionsInv, SubscriptionsTypeOK
<1>2. /\ SoundRows(subscription', pushed)
      /\ \A i \in 1..pushed : subscription'[i].status = "ACTIVE" => subscription[i].status = "ACTIVE"
    BY <1>1, CalmRows
<1> QED BY <1>1, <1>2, SubscriptionsAssumption DEF Quiet

\* Such a step that leaves paid rows alone.
LEMMA GentleStep ==
    ASSUME SubscriptionsInv, pushed' = pushed, IsRows(subscription'),
           \A i \in Positions :
               \/ subscription'[i] = subscription[i]
               \/ /\ i <= pushed /\ subscription[i].status # "ACTIVE"
                  /\ Calm(subscription[i], subscription'[i])
    PROVE  RowsKept /\ Quiet
<1>1. SoundRows(subscription', pushed') /\ pushed' \in pushed..MaxRows /\ Quiet
    BY CalmStep
<1>2. 1..pushed \subseteq Positions
    BY SubscriptionsAssumption DEF SubscriptionsInv, SubscriptionsTypeOK, Positions
<1> QED BY <1>1, <1>2 DEF RowsKept, AllKept, Kept

\* A step that pushes a row, which is not paid, and changes others calmly.
LEMMA PushStep ==
    ASSUME SubscriptionsInv, NEW s, NEW t, Sound(t), t.status # "ACTIVE",
           IsRows(s),
           \A i \in Positions :
               \/ s[i] = subscription[i]
               \/ /\ i <= pushed /\ subscription[i].status # "ACTIVE"
                  /\ Calm(subscription[i], s[i]),
           pushed < MaxRows, pushed' = pushed + 1,
           subscription' = [s EXCEPT ![pushed + 1] = t]
    PROVE  RowsKept /\ Quiet
<1>1. pushed \in 0..MaxRows /\ MaxRows \in Nat /\ SoundRows(subscription, pushed)
    BY SubscriptionsAssumption DEF SubscriptionsInv, SubscriptionsTypeOK
<1>2. /\ SoundRows(s, pushed)
      /\ \A i \in 1..pushed : s[i].status = "ACTIVE" => subscription[i].status = "ACTIVE"
    BY <1>1, CalmRows
<1>3. pushed + 1 \in Positions /\ 1..pushed \subseteq Positions
    BY <1>1 DEF Positions
<1>4. /\ subscription'[pushed + 1] = t
      /\ \A i \in Positions : i # pushed + 1 => subscription'[i] = s[i]
      /\ IsRows(subscription')
    BY <1>3 DEF IsRows
<1>5. ASSUME NEW i \in Positions
      PROVE  IF i <= pushed + 1 THEN Sound(subscription'[i])
             ELSE subscription'[i] = NoSubscription
  <2>1. CASE i = pushed + 1
      BY <2>1, <1>1, <1>4
  <2>2. CASE i # pushed + 1
    <3>1. i <= pushed <=> i <= pushed + 1
        BY <1>1, <2>2 DEF Positions
    <3> QED BY <3>1, <1>2, <1>4, <2>2 DEF SoundRows
  <2> QED BY <2>1, <2>2
<1>6. SoundRows(subscription', pushed')
    BY <1>4, <1>5 DEF SoundRows
<1>7. ASSUME NEW i \in 1..(pushed + 1), subscription'[i].status = "ACTIVE"
      PROVE  i <= pushed /\ subscription[i].status = "ACTIVE"
  <2>1. i # pushed + 1
      BY <1>4, <1>7
  <2>2. i \in 1..pushed
      BY <1>1, <2>1
  <2> QED BY <1>2, <1>3, <1>4, <1>7, <2>1, <2>2
<1>8. ASSUME NEW i \in 1..pushed, subscription[i].status = "ACTIVE"
      PROVE  subscription'[i].status = "ACTIVE"
  <2>1. i # pushed + 1 /\ i \in Positions
      BY <1>1, <1>3
  <2> QED BY <1>4, <1>8, <2>1
<1> QED BY <1>1, <1>6, <1>7, <1>8 DEF RowsKept, AllKept, Kept, Quiet

\* What else the invariant asks of a step whose rows are sound.
LEMMA InvAfter ==
    ASSUME SubscriptionsInv, RowsKept, used' \subseteq Organizations,
           extensions' \in 0..MaxExtensions, isProcessing' \in BOOLEAN,
           agenda' \subseteq 1..pushed', due' \subseteq 1..pushed', upgraded' \subseteq 1..pushed'
    PROVE  SubscriptionsInv'
<1>1. pushed' \in 0..MaxRows
    BY SubscriptionsAssumption DEF SubscriptionsInv, SubscriptionsTypeOK, RowsKept
<1>2. /\ \A i \in Positions : subscription'[i] \in Subscription \cup {NoSubscription}
      /\ IsRows(subscription')
      /\ \A i \in Positions : subscription'[i] \in Subscription <=> i <= pushed'
    BY RowsType DEF RowsKept
<1>3. subscription' \in [Positions -> Subscription \cup {NoSubscription}]
  <2>1. subscription' = [i \in Positions |-> subscription'[i]]
      BY <1>2 DEF IsRows
  <2>2. \A i \in Positions : subscription'[i] \in Subscription \cup {NoSubscription}
      BY <1>2, <2>1
  <2> QED BY <2>1, <2>2
<1> QED BY <1>1, <1>2, <1>3 DEF SubscriptionsInv, SubscriptionsTypeOK, RowsKept

\* What the steps but a payment do: the invariant stays, paid rows are kept, and none
\* becomes paid but by an upgrade.
Unpaid ==
    /\ upgraded \subseteq upgraded'
    /\ \A i \in 1..pushed' :
          subscription'[i].status = "ACTIVE" =>
              i \in upgraded' \/ (i <= pushed /\ subscription[i].status = "ACTIVE")
Fine == SubscriptionsInv' /\ AllKept /\ Unpaid

\* The facts of the invariant that the steps use.
LEMMA InvFacts ==
    ASSUME SubscriptionsInv
    PROVE  /\ pushed \in 0..MaxRows /\ MaxRows \in Nat /\ 1..pushed \subseteq Positions
           /\ SoundRows(subscription, pushed) /\ IsRows(subscription)
           /\ \A i \in 1..pushed : Sound(subscription[i])
           /\ used \subseteq Organizations /\ extensions \in 0..MaxExtensions
           /\ isProcessing \in BOOLEAN
           /\ agenda \subseteq 1..pushed /\ due \subseteq 1..pushed /\ upgraded \subseteq 1..pushed
<1>1. pushed \in 0..MaxRows /\ MaxRows \in Nat /\ 1..pushed \subseteq Positions
    BY SubscriptionsAssumption DEF SubscriptionsInv, SubscriptionsTypeOK, Positions
<1> QED BY <1>1 DEF SubscriptionsInv, SubscriptionsTypeOK, SoundRows

LEMMA StartTrialOnRowStep ==
    ASSUME SubscriptionsInv, NEW o \in Organizations, NEW p \in Plans, StartTrialOnRow(o, p)
    PROVE  Fine
<1>1. PICK i \in RowsOf(subscription, o) :
          /\ subscription' = AfterStatus([subscription EXCEPT ![i] = Trial(@, p)], o)
          /\ due' = due \ {i}
    BY DEF StartTrialOnRow
<1> DEFINE t == Trial(subscription[i], p)
           s == [subscription EXCEPT ![i] = t]
<1>2. i \in 1..pushed /\ i \in Positions /\ i <= pushed /\ Sound(subscription[i])
    BY InvFacts DEF RowsOf
<1>3. subscription[i].status # "ACTIVE"
    BY DEF StartTrialOnRow, MayTry, PaidOf
<1>4. Calm(subscription[i], t)
    BY <1>2, TrialRow
<1>5. subscription' = AfterStatus(s, o)
    BY <1>1
<1> HIDE DEF t
<1>6. /\ SoundRows(s, pushed) /\ IsRows(s)
      /\ \A j \in Positions :
            s[j] = subscription[j] \/ (j <= pushed /\ Calm(subscription[j], s[j]))
    BY <1>2, <1>4, InvFacts, ReplacedRow
<1>7. \A j \in Positions : s[j] = subscription[j] \/ subscription[j].status # "ACTIVE"
    BY <1>3, InvFacts DEF IsRows
<1> HIDE DEF s
<1>8. /\ IsRows(subscription')
      /\ \A j \in Positions :
            \/ subscription'[j] = s[j]
            \/ j <= pushed /\ s[j].status # "ACTIVE" /\ Calm(s[j], subscription'[j])
    BY <1>5, <1>6, InvFacts, StatusRows
<1>9. ASSUME NEW j \in Positions
      PROVE  \/ subscription'[j] = subscription[j]
             \/ /\ j <= pushed /\ subscription[j].status # "ACTIVE"
                /\ Calm(subscription[j], subscription'[j])
    BY <1>6, <1>7, <1>8 DEF Calm
<1>10. pushed' = pushed
    BY DEF StartTrialOnRow
<1>11. RowsKept /\ Quiet
    BY <1>8, <1>9, <1>10, GentleStep
<1> QED BY <1>1, <1>11, InvFacts, InvAfter DEF StartTrialOnRow, RowsKept, Quiet, Fine, Unpaid

LEMMA StartTrialStep ==
    ASSUME SubscriptionsInv, NEW o \in Organizations, NEW p \in Plans, StartTrial(o, p)
    PROVE  Fine
<1> DEFINE t == [organization |-> o, plan |-> p, from |-> "trial", shared |-> TRUE,
                 status |-> "TRIALING", ends |-> "ahead"]
<1>1. Sound(t) /\ t.status # "ACTIVE"
    BY DEF Sound, HasAccount, Subscription
<1>2. /\ pushed < MaxRows /\ pushed' = pushed + 1
      /\ subscription' = [subscription EXCEPT ![pushed + 1] = t]
    BY DEF StartTrial, PushRow
<1> HIDE DEF t
<1>3. RowsKept /\ Quiet
    BY <1>1, <1>2, InvFacts, PushStep
<1> QED BY <1>2, <1>3, InvFacts, InvAfter DEF StartTrial, jobVars, RowsKept, Quiet, Fine, Unpaid

LEMMA ReadTrialStep ==
    ASSUME SubscriptionsInv, NEW o \in Organizations, ReadTrial(o)
    PROVE  Fine
<1>1. RowsKept /\ Quiet
    BY InvFacts, StatusRows, GentleStep DEF ReadTrial
<1> QED BY <1>1, InvFacts, InvAfter DEF ReadTrial, jobVars, RowsKept, Quiet, Fine, Unpaid

LEMMA AnchorTrialStep ==
    ASSUME SubscriptionsInv, NEW o \in Organizations, AnchorTrial(o)
    PROVE  Fine
<1> DEFINE u(e) == [organization |-> o, plan |-> TrialPlan, from |-> "creation",
                    shared |-> FALSE, status |-> "TRIALING", ends |-> e]
<1>1. PICK e \in {"ahead", "past"} : PushRow(Lapsed(u(e)))
    BY DEF AnchorTrial
<1>2. Sound(u(e)) /\ u(e).status = "TRIALING"
    BY SubscriptionsAssumption DEF Sound, HasAccount, Subscription
<1>3. /\ pushed < MaxRows /\ pushed' = pushed + 1
      /\ subscription' = [subscription EXCEPT ![pushed + 1] = Lapsed(u(e))]
    BY <1>1 DEF PushRow
<1> HIDE DEF u
<1>4. Sound(Lapsed(u(e))) /\ Lapsed(u(e)).status # "ACTIVE"
    BY <1>2, LapsedRow DEF Calm
<1>5. RowsKept /\ Quiet
    BY <1>3, <1>4, InvFacts, PushStep
<1> QED BY <1>3, <1>5, InvFacts, InvAfter DEF AnchorTrial, jobVars, RowsKept, Quiet, Fine, Unpaid

LEMMA ExtendTrialStep ==
    ASSUME SubscriptionsInv, NEW o \in Organizations, ExtendTrial(o)
    PROVE  Fine
<1>1. PICK n \in RowsOf(subscription, o) :
          /\ subscription' = AfterStatus([subscription EXCEPT ![n] = Trial(@, @.plan)], o)
          /\ due' = due \ {n}
    BY DEF ExtendTrial
<1> DEFINE t == Trial(subscription[n], subscription[n].plan)
           s == [subscription EXCEPT ![n] = t]
<1>2. n \in 1..pushed /\ n \in Positions /\ n <= pushed /\ Sound(subscription[n])
    BY InvFacts DEF RowsOf
<1>3. Calm(subscription[n], t) /\ t.status = "TRIALING" /\ t.ends = "ahead"
  <2>1. subscription[n].plan \in Plans
      BY <1>2 DEF Sound, Subscription
  <2> QED BY <1>2, <2>1, TrialRow DEF Trial, Sound, Subscription
<1>4. subscription' = AfterStatus(s, o)
    BY <1>1
<1> HIDE DEF t
<1>5. /\ SoundRows(s, pushed) /\ IsRows(s)
      /\ \A j \in Positions :
            s[j] = subscription[j] \/ (j <= pushed /\ Calm(subscription[j], s[j]))
    BY <1>2, <1>3, InvFacts, ReplacedRow
<1>6. s[n] = t /\ \A j \in Positions \ {n} : s[j] = subscription[j]
    BY <1>2, InvFacts DEF IsRows
<1> HIDE DEF s
<1>7. /\ IsRows(subscription')
      /\ \A j \in Positions :
            \/ subscription'[j] = s[j]
            \/ j <= pushed /\ s[j].status # "ACTIVE" /\ Calm(s[j], subscription'[j])
    BY <1>4, <1>5, InvFacts, StatusRows
<1>8. subscription'[n].status = "TRIALING"
    BY <1>2, <1>3, <1>4, <1>5, <1>6, AheadRow
<1>9. ASSUME NEW j \in Positions
      PROVE  \/ subscription'[j] = subscription[j]
             \/ j <= pushed /\ Calm(subscription[j], subscription'[j])
    BY <1>5, <1>7 DEF Calm
<1>10. pushed' = pushed
    BY DEF ExtendTrial
<1>11. SoundRows(subscription', pushed') /\ pushed' \in pushed..MaxRows /\ Quiet
    BY <1>7, <1>9, <1>10, CalmStep
<1>12. extensions' = extensions + 1 /\ extensions' \in 0..MaxExtensions /\ extensions' > extensions
    BY InvFacts, SubscriptionsAssumption DEF ExtendTrial
<1>13. ASSUME NEW j \in 1..pushed, subscription[j].status = "ACTIVE"
       PROVE  Kept(j)
  <2>1. CASE j = n
      BY <1>8, <1>12, <2>1 DEF Kept
  <2>2. CASE j # n
    <3>1. s[j] = subscription[j] /\ j \in Positions
        BY <1>6, <2>2, InvFacts
    <3> QED BY <1>7, <1>13, <3>1 DEF Kept
  <2> QED BY <2>1, <2>2
<1>14. RowsKept
    BY <1>11, <1>13 DEF RowsKept, AllKept
<1> QED BY <1>1, <1>11, <1>12, <1>14, InvFacts, InvAfter
        DEF ExtendTrial, RowsKept, Quiet, Fine, Unpaid

LEMMA TrialEndsStep ==
    ASSUME SubscriptionsInv, NEW i \in Positions, TrialEnds(i)
    PROVE  Fine
<1> DEFINE t == [subscription[i] EXCEPT !.ends = "past"]
<1>1. i <= pushed /\ Sound(subscription[i])
    BY InvFacts DEF TrialEnds, SoundRows
<1>2. Calm(subscription[i], t) /\ t.status = subscription[i].status
    BY <1>1 DEF Calm, Sound, HasAccount, Subscription
<1>3. subscription' = [subscription EXCEPT ![i] = t]
    BY DEF TrialEnds
<1> HIDE DEF t
<1>4. /\ IsRows(subscription')
      /\ \A j \in Positions :
            subscription'[j] = subscription[j] \/ (j <= pushed /\ Calm(subscription[j], subscription'[j]))
    BY <1>1, <1>2, <1>3, InvFacts, ReplacedRow
<1>5. SoundRows(subscription', pushed') /\ pushed' \in pushed..MaxRows /\ Quiet
    BY <1>4, CalmStep DEF TrialEnds
<1>6. \A j \in Positions : subscription'[j].status = subscription[j].status
    BY <1>2, <1>3, InvFacts DEF IsRows
<1>7. RowsKept
    BY <1>5, <1>6, InvFacts DEF RowsKept, AllKept, Kept
<1> QED BY <1>5, <1>7, InvFacts, InvAfter DEF TrialEnds, jobVars, RowsKept, Quiet, Fine, Unpaid

\* The job may end what is on its list, and nothing else.
LEMMA ComeToRows ==
    ASSUME SubscriptionsInv, NEW i, NEW listed \in SUBSET (1..pushed), NEW past,
           ComeTo(i, listed, past), pushed' = pushed,
           subscription[i].status # "ACTIVE" \/ i \in agenda
    PROVE  RowsKept /\ Quiet /\ agenda' = listed \ {i} /\ due' = past
<1>1. i \in listed /\ i \in 1..pushed /\ i \in Positions /\ i <= pushed /\ Sound(subscription[i])
    BY InvFacts DEF ComeTo, IsFirst
<1> DEFINE t == [subscription[i] EXCEPT !.status = "TRIAL_EXPIRED"]
<1>2. Calm(subscription[i], t)
    BY <1>1, EndedRow
<1>3. subscription' = subscription \/ subscription' = [subscription EXCEPT ![i] = t]
    BY DEF ComeTo
<1> HIDE DEF t
<1>4. /\ IsRows(subscription')
      /\ \A j \in Positions :
            subscription'[j] = subscription[j] \/ (j <= pushed /\ Calm(subscription[j], subscription'[j]))
  <2>1. CASE subscription' = subscription
      BY <2>1, InvFacts
  <2>2. CASE subscription' = [subscription EXCEPT ![i] = t]
      BY <1>1, <1>2, <2>2, InvFacts, ReplacedRow
  <2> QED BY <1>3, <2>1, <2>2
<1>5. SoundRows(subscription', pushed') /\ pushed' \in pushed..MaxRows /\ Quiet
    BY <1>4, CalmStep
<1>6. \A j \in Positions : j # i => subscription'[j] = subscription[j]
    BY <1>3, InvFacts DEF IsRows
<1>7. RowsKept
    BY <1>5, <1>6, InvFacts DEF RowsKept, AllKept, Kept
<1> QED BY <1>5, <1>7 DEF ComeTo

LEMMA JobStep ==
    ASSUME SubscriptionsInv, Job
    PROVE  Fine
<1>1. CASE StartJob
  <2> DEFINE listed == Having(subscription, {"TRIALING"})
             past == {j \in listed : subscription[j].ends = "past"}
  <2>1. PICK i \in listed : ComeTo(i, listed, past)
      BY <1>1 DEF StartJob
  <2>2. listed \subseteq 1..pushed /\ past \subseteq listed /\ subscription[i].status # "ACTIVE"
      BY DEF Having
  <2>3. /\ pushed' = pushed /\ used' = used /\ extensions' = extensions /\ upgraded' = upgraded
        /\ isProcessing' = TRUE
      BY <1>1 DEF StartJob
  <2> HIDE DEF listed, past
  <2>4. RowsKept /\ Quiet /\ agenda' = listed \ {i} /\ due' = past
      BY <2>1, <2>2, <2>3, ComeToRows
  <2> QED BY <2>2, <2>3, <2>4, InvFacts, InvAfter DEF RowsKept, Quiet, Fine, Unpaid
<1>2. CASE ContinueJob
  <2>1. PICK i \in agenda : ComeTo(i, agenda, due)
      BY <1>2 DEF ContinueJob
  <2>2. /\ pushed' = pushed /\ used' = used /\ extensions' = extensions /\ upgraded' = upgraded
        /\ isProcessing' = isProcessing
      BY <1>2 DEF ContinueJob
  <2>3. RowsKept /\ Quiet /\ agenda' = agenda \ {i} /\ due' = due
      BY <2>1, <2>2, InvFacts, ComeToRows
  <2> QED BY <2>2, <2>3, InvFacts, InvAfter DEF RowsKept, Quiet, Fine, Unpaid
<1>3. CASE EndJob
  <2>1. RowsKept /\ Quiet
      BY <1>3, InvFacts, GentleStep DEF EndJob
  <2> QED BY <1>3, <2>1, InvFacts, InvAfter DEF EndJob, RowsKept, Quiet, Fine, Unpaid
<1> QED BY <1>1, <1>2, <1>3 DEF Job

LEMMA OpenCheckoutStep ==
    ASSUME SubscriptionsInv, NEW o \in Organizations, NEW p \in Plans, OpenCheckout(o, p)
    PROVE  Fine
<1> DEFINE t == [organization |-> o, plan |-> p, from |-> "checkout", shared |-> TRUE,
                 status |-> "AUTHENTICATION_PENDING", ends |-> "never"]
<1>1. PICK stale \in StaleCheckouts(o) :
          subscription' = [AfterCheckouts(stale) EXCEPT ![pushed + 1] = t]
    BY DEF OpenCheckout
<1>2. Sound(t) /\ t.status # "ACTIVE"
    BY DEF Sound, HasAccount, Subscription
<1>3. pushed < MaxRows /\ pushed' = pushed + 1
    BY DEF OpenCheckout
<1> HIDE DEF t
<1>4. RowsKept /\ Quiet
    BY <1>1, <1>2, <1>3, CheckoutRows, PushStep
<1> QED BY <1>3, <1>4, InvFacts, InvAfter DEF OpenCheckout, jobVars, RowsKept, Quiet, Fine, Unpaid

LEMMA ReadSubscriptionStep ==
    ASSUME SubscriptionsInv, NEW o \in Organizations, ReadSubscription(o)
    PROVE  Fine
<1>1. PICK stale \in StaleCheckouts(o) : subscription' = AfterRead(o, stale)
    BY DEF ReadSubscription
<1>2. RowsKept /\ Quiet
    BY <1>1, ReadRows, GentleStep DEF ReadSubscription
<1> QED BY <1>2, InvFacts, InvAfter DEF ReadSubscription, jobVars, RowsKept, Quiet, Fine, Unpaid

\* What current() left, with one live row made sound and no less paid than it was.
LEMMA ChosenRow ==
    ASSUME SubscriptionsInv, NEW o, NEW stale \in StaleCheckouts(o),
           NEW g \in 1..pushed, NEW t, Sound(t),
           AfterRead(o, stale)[g].status = "ACTIVE" => t.status = "ACTIVE",
           subscription' = [AfterRead(o, stale) EXCEPT ![g] = t], pushed' = pushed
    PROVE  /\ RowsKept
           /\ \A i \in 1..pushed' :
                 subscription'[i].status = "ACTIVE" => i = g \/ subscription[i].status = "ACTIVE"
<1> DEFINE s == AfterRead(o, stale)
<1>1. /\ IsRows(s)
      /\ \A i \in Positions :
            \/ s[i] = subscription[i]
            \/ i <= pushed /\ subscription[i].status # "ACTIVE" /\ Calm(subscription[i], s[i])
    BY ReadRows
<1>2. SoundRows(s, pushed)
    BY <1>1, InvFacts, CalmRows
<1> HIDE DEF s
<1>3. g \in Positions /\ g <= pushed
    BY InvFacts
<1>4. /\ subscription' = [s EXCEPT ![g] = t] /\ IsRows(subscription')
      /\ subscription'[g] = t /\ \A i \in Positions \ {g} : subscription'[i] = s[i]
    BY <1>1, <1>3 DEF IsRows, s
<1>5. SoundRows(subscription', pushed')
    BY <1>2, <1>3, <1>4 DEF SoundRows
<1>6. ASSUME NEW i \in 1..pushed, subscription[i].status = "ACTIVE"
      PROVE  subscription'[i].status = "ACTIVE"
  <2>1. i \in Positions /\ s[i] = subscription[i]
      BY <1>1, <1>6, InvFacts
  <2> QED BY <1>4, <1>6, <2>1 DEF s
<1>7. ASSUME NEW i \in 1..pushed, subscription'[i].status = "ACTIVE", i # g
      PROVE  subscription[i].status = "ACTIVE"
    BY <1>1, <1>4, <1>7, InvFacts DEF Calm
<1> QED BY <1>5, <1>6, <1>7, InvFacts DEF RowsKept, AllKept, Kept

LEMMA UpgradeStep ==
    ASSUME SubscriptionsInv, NEW o \in Organizations, NEW p \in Plans, Upgrade(o, p)
    PROVE  Fine
<1>0. PICK stale \in StaleCheckouts(o) :
          \E g \in Governs(AfterRead(o, stale)) :
            /\ subscription' = [AfterRead(o, stale) EXCEPT ![g] = Raised(@, p)]
            /\ upgraded' = IF AfterRead(o, stale)[g].status = "ACTIVE" THEN upgraded
                           ELSE upgraded \cup {g}
    BY DEF Upgrade
<1>1. PICK g \in Governs(AfterRead(o, stale)) :
          /\ subscription' = [AfterRead(o, stale) EXCEPT ![g] = Raised(@, p)]
          /\ upgraded' = IF AfterRead(o, stale)[g].status = "ACTIVE" THEN upgraded
                         ELSE upgraded \cup {g}
    BY <1>0
<1> DEFINE s == AfterRead(o, stale)
           t == Raised(s[g], p)
<1>2. /\ IsRows(s)
      /\ \A i \in Positions :
            \/ s[i] = subscription[i]
            \/ i <= pushed /\ subscription[i].status # "ACTIVE" /\ Calm(subscription[i], s[i])
    BY ReadRows
<1>3. g \in 1..pushed
    BY DEF Governs, Best, Having
<1>4. Sound(s[g])
    BY <1>2, <1>3, InvFacts DEF Calm
<1>5. s[g].status = "ACTIVE" => subscription[g].status = "ACTIVE"
    BY <1>2, <1>3, InvFacts DEF Calm
<1>6. pushed' = pushed
    BY DEF Upgrade
<1>7. subscription' = [s EXCEPT ![g] = t]
    BY <1>1
<1>8. upgraded' = IF s[g].status = "ACTIVE" THEN upgraded ELSE upgraded \cup {g}
    BY <1>1
<1> HIDE DEF s
<1>9. Sound(t) /\ t.status = "ACTIVE"
    BY <1>4, RaisedRow
<1> HIDE DEF t
<1>10. /\ RowsKept
       /\ \A i \in 1..pushed' :
             subscription'[i].status = "ACTIVE" => i = g \/ subscription[i].status = "ACTIVE"
    BY <1>3, <1>6, <1>7, <1>9, ChosenRow DEF s
<1>11. /\ upgraded \subseteq upgraded' /\ upgraded' \subseteq 1..pushed
       /\ subscription[g].status = "ACTIVE" \/ g \in upgraded'
    BY <1>3, <1>5, <1>8, InvFacts
<1>12. Unpaid
    BY <1>3, <1>6, <1>10, <1>11, InvFacts DEF Unpaid
<1> QED BY <1>6, <1>10, <1>11, <1>12, InvFacts, InvAfter DEF Upgrade, jobVars, RowsKept, Fine

LEMMA DowngradeStep ==
    ASSUME SubscriptionsInv, NEW o \in Organizations, NEW p \in Plans, Downgrade(o, p)
    PROVE  Fine
<1>0. PICK stale \in StaleCheckouts(o) :
          \E g \in Governs(AfterRead(o, stale)) :
            subscription' = [AfterRead(o, stale) EXCEPT ![g].shared = TRUE]
    BY DEF Downgrade
<1>1. PICK g \in Governs(AfterRead(o, stale)) :
          subscription' = [AfterRead(o, stale) EXCEPT ![g].shared = TRUE]
    BY <1>0
<1> DEFINE s == AfterRead(o, stale)
           t == [s[g] EXCEPT !.shared = TRUE]
<1>2. /\ IsRows(s)
      /\ \A i \in Positions :
            \/ s[i] = subscription[i]
            \/ i <= pushed /\ subscription[i].status # "ACTIVE" /\ Calm(subscription[i], s[i])
    BY ReadRows
<1>3. g \in 1..pushed
    BY DEF Governs, Best, Having
<1>4. Sound(s[g])
    BY <1>2, <1>3, InvFacts DEF Calm
<1>5. s[g].status = "ACTIVE" => subscription[g].status = "ACTIVE"
    BY <1>2, <1>3, InvFacts DEF Calm
<1>6. pushed' = pushed
    BY DEF Downgrade
<1>7. subscription' = [s EXCEPT ![g] = t]
    BY <1>1
<1> HIDE DEF s
<1>8. Sound(t) /\ t.status = s[g].status
    BY <1>4 DEF Sound, HasAccount, Subscription
<1> HIDE DEF t
<1>8a. s[g].status = "ACTIVE" => t.status = "ACTIVE"
    BY <1>8
<1>9. /\ RowsKept
      /\ \A i \in 1..pushed' :
            subscription'[i].status = "ACTIVE" => i = g \/ subscription[i].status = "ACTIVE"
    BY <1>3, <1>6, <1>7, <1>8, <1>8a, ChosenRow DEF s
<1>10. subscription'[g].status = "ACTIVE" => subscription[g].status = "ACTIVE"
    BY <1>2, <1>3, <1>5, <1>7, <1>8, InvFacts DEF IsRows
<1>11. Unpaid
    BY <1>6, <1>9, <1>10, InvFacts DEF Unpaid, Downgrade
<1> QED BY <1>6, <1>9, <1>11, InvFacts, InvAfter DEF Downgrade, jobVars, RowsKept, Fine

\* After a payment one row is paid, and no other: those that were paid have the account.
LEMMA PayStep ==
    ASSUME SubscriptionsInv, NEW i \in Positions, Pay(i)
    PROVE  /\ SubscriptionsInv' /\ AllKept
           /\ \A j \in 1..pushed' : subscription'[j].status = "ACTIVE" => j = i
<1>1. i \in 1..pushed /\ i <= pushed /\ Sound(subscription[i]) /\ pushed' = pushed
    BY InvFacts DEF Pay, SoundRows, Positions
<1>2. ASSUME NEW t, Sound(t), t.from = "checkout"
      PROVE  Sound([t EXCEPT !.status = "ACTIVE"])
    BY <1>2 DEF Sound, HasAccount, Subscription
<1>3. IsRows(subscription')
    BY DEF Pay, IsRows
<1>4. subscription'[i] = [subscription[i] EXCEPT !.status = "ACTIVE"]
    BY DEF Pay
<1>5. subscription[i].from = "checkout"
    BY DEF Pay
<1>6. Sound(subscription'[i]) /\ subscription'[i].status = "ACTIVE"
  <2>1. Sound(subscription'[i])
      BY <1>1, <1>2, <1>4, <1>5
  <2>2. subscription'[i].status = "ACTIVE"
      BY <1>1, <1>4 DEF Sound, Subscription
  <2> QED BY <2>1, <2>2
<1>7. ASSUME NEW j \in Positions, j # i
      PROVE  \/ ~Superseded(i, j) /\ subscription'[j] = subscription[j]
             \/ /\ j <= pushed => Sound(subscription'[j]) /\ subscription'[j].status = "EXPIRED"
                /\ Superseded(i, j)
  <2>1. CASE ~Superseded(i, j)
      BY <1>7, <2>1 DEF Pay
  <2>2. CASE Superseded(i, j)
    <3>1. subscription'[j] = [subscription[j] EXCEPT !.status = "EXPIRED"]
        BY <1>7, <2>2 DEF Pay
    <3>2. ASSUME j <= pushed
          PROVE  Sound(subscription'[j]) /\ subscription'[j].status = "EXPIRED"
      <4>1. Sound(subscription[j])
          BY <3>2, InvFacts DEF SoundRows
      <4>2. /\ Calm(subscription[j], [subscription[j] EXCEPT !.status = "EXPIRED"])
            /\ [subscription[j] EXCEPT !.status = "EXPIRED"].status = "EXPIRED"
          BY <4>1, EndedRow
      <4> QED BY <3>1, <4>2 DEF Calm
    <3> QED BY <2>2, <3>2
  <2> QED BY <2>1, <2>2
<1>8. \A j \in Positions : Superseded(i, j) => j <= pushed
  <2>1. ASSUME NEW j \in Positions, Superseded(i, j), ~(j <= pushed) PROVE FALSE
    <3>1. subscription[j] = NoSubscription
        BY <2>1, InvFacts DEF SoundRows
    <3> QED BY <2>1, <3>1 DEF Superseded, NoSubscription
  <2> QED BY <2>1
<1>9. SoundRows(subscription', pushed')
  <2>1. ASSUME NEW j \in Positions
        PROVE  IF j <= pushed THEN Sound(subscription'[j])
               ELSE subscription'[j] = NoSubscription
    <3>1. CASE j = i
        BY <1>1, <1>6, <3>1
    <3>2. CASE j # i
        BY <1>7, <1>8, <3>2, InvFacts DEF SoundRows
    <3> QED BY <3>1, <3>2
  <2> QED BY <1>1, <1>3, <2>1 DEF SoundRows
<1>10. AllKept
  <2>1. ASSUME NEW j \in 1..pushed, subscription[j].status = "ACTIVE"
        PROVE  Kept(j)
    <3>1. j \in Positions /\ j <= pushed
        BY InvFacts
    <3> QED BY <1>6, <1>7, <2>1, <3>1 DEF Kept
  <2> QED BY <2>1 DEF AllKept
<1>11. RowsKept
    BY <1>1, <1>9, <1>10, InvFacts DEF RowsKept
<1>12. ASSUME NEW j \in 1..pushed, subscription'[j].status = "ACTIVE", j # i
       PROVE  FALSE
  <2>1. j \in Positions /\ j <= pushed /\ Sound(subscription[j])
      BY InvFacts
  <2>2. ~Superseded(i, j) /\ subscription[j].status = "ACTIVE"
      BY <1>7, <1>12, <2>1
  <2>3. subscription[j].shared
      BY <2>1, <2>2 DEF Sound, HasAccount
  <2> QED BY <1>12, <2>2, <2>3 DEF Superseded
<1> QED BY <1>1, <1>10, <1>11, <1>12, InvFacts, InvAfter DEF Pay, jobVars

LEMMA StutterStep ==
    ASSUME SubscriptionsInv, UNCHANGED subscriptionVars
    PROVE  Fine
<1>1. RowsKept /\ Quiet
    BY InvFacts, GentleStep DEF subscriptionVars
<1> QED BY <1>1, InvFacts, InvAfter DEF subscriptionVars, jobVars, RowsKept, Quiet, Fine, Unpaid

\* Every step but a payment is fine in this sense.
LEMMA EveryStep ==
    ASSUME SubscriptionsInv, [SubscriptionsNext]_subscriptionVars
    PROVE  Fine \/ \E i \in Positions : Pay(i)
<1>1. CASE UNCHANGED subscriptionVars
    BY <1>1, StutterStep
<1>2. ASSUME NEW o \in Organizations,
             \/ ReadTrial(o) \/ AnchorTrial(o) \/ ExtendTrial(o) \/ ReadSubscription(o)
      PROVE  Fine
    BY <1>2, ReadTrialStep, AnchorTrialStep, ExtendTrialStep, ReadSubscriptionStep
<1>3. ASSUME NEW o \in Organizations, NEW p \in Plans,
             \/ StartTrial(o, p) \/ StartTrialOnRow(o, p) \/ OpenCheckout(o, p)
             \/ Upgrade(o, p) \/ Downgrade(o, p)
      PROVE  Fine
    BY <1>3, StartTrialStep, StartTrialOnRowStep, OpenCheckoutStep, UpgradeStep, DowngradeStep
<1>4. ASSUME NEW i \in Positions, TrialEnds(i)
      PROVE  Fine
    BY <1>4, TrialEndsStep
<1>5. CASE Job
    BY <1>5, JobStep
<1> QED BY <1>1, <1>2, <1>3, <1>4, <1>5 DEF SubscriptionsNext

-----------------------------------------------------------------------------
(* Theorems *)

\* The invariant holds of every state: positions are taken in order, what is there is a
\* subscription, and whatever is paid has the accountId.
LEMMA SubscriptionsInvariant == SubscriptionsSafety => []SubscriptionsInv
<1>1. ASSUME SubscriptionsInit
      PROVE  SubscriptionsInv
  <2>1. /\ subscription = [i \in Positions |-> NoSubscription] /\ pushed = 0 /\ 1..pushed = {}
        /\ \A i \in Positions : ~(i <= pushed)
      BY <1>1 DEF SubscriptionsInit, Positions
  <2>2. SoundRows(subscription, pushed)
      BY <2>1 DEF SoundRows, IsRows
  <2>3. SubscriptionsTypeOK
    <3>1. \A i \in Positions : subscription[i] \in Subscription <=> i <= pushed
        BY <2>2, RowsType
    <3>2. subscription \in [Positions -> Subscription \cup {NoSubscription}]
        BY <2>1
    <3>3. agenda = {} /\ due = {} /\ upgraded = {} /\ used = {} /\ isProcessing = FALSE
        BY <1>1 DEF SubscriptionsInit
    <3>4. extensions \in 0..MaxExtensions /\ pushed \in 0..MaxRows
        BY <1>1, SubscriptionsAssumption DEF SubscriptionsInit
    <3> QED BY <3>1, <3>2, <3>3, <3>4 DEF SubscriptionsTypeOK
  <2> QED BY <2>2, <2>3 DEF SubscriptionsInv
<1>2. SubscriptionsInv /\ [SubscriptionsNext]_subscriptionVars => SubscriptionsInv'
    BY EveryStep, PayStep DEF Fine
<1> QED BY <1>1, <1>2, PTL DEF SubscriptionsSafety

\* The rows, the job's lists and the counters keep their types in every state.
THEOREM SubscriptionsTypeCorrect == SubscriptionsSafety => []SubscriptionsTypeOK
<1>1. SubscriptionsInv => SubscriptionsTypeOK
    BY DEF SubscriptionsInv
<1> QED BY <1>1, SubscriptionsInvariant, PTL

\* Two checkouts of one account are never both paid and in force, whichever is paid
\* first and however often (activateSubscription).
THEOREM OnePaidSubscription == SubscriptionsSafety => []OnePaid
<1>1. SubscriptionsInit => OnePaid
    BY DEF SubscriptionsInit, OnePaid, Having
<1>2. ASSUME SubscriptionsInv, OnePaid, [SubscriptionsNext]_subscriptionVars
      PROVE  OnePaid'
  <2>1. CASE Fine
    <3>1. \A i \in 1..pushed' :
             subscription'[i].status = "ACTIVE" /\ i \notin upgraded' =>
                 i \in 1..pushed /\ subscription[i].status = "ACTIVE" /\ i \notin upgraded
        BY <2>1, <1>2, InvFacts DEF Fine, Unpaid
    <3> QED BY <1>2, <3>1 DEF OnePaid, Having
  <2>2. ASSUME NEW i \in Positions, Pay(i)
        PROVE  OnePaid'
      BY <1>2, <2>2, PayStep DEF OnePaid, Having
  <2> QED BY <1>2, <2>1, <2>2, EveryStep
<1> QED BY <1>1, <1>2, SubscriptionsInvariant, PTL DEF SubscriptionsSafety

\* No trial or other subscription takes the allowances of a paid one away: what
\* resolveEntitlement chooses is at least as large.
THEOREM PaidEntitles == SubscriptionsSafety => []PaidIsEntitled
<1>1. SubscriptionsInv => PaidIsEntitled
  <2> SUFFICES ASSUME SubscriptionsInv,
                      NEW i \in Having(subscription, {"ACTIVE"}),
                      NEW e \in Entitles(subscription)
               PROVE  subscription[e].plan >= subscription[i].plan
      BY DEF PaidIsEntitled
  <2>1. i \in 1..pushed /\ subscription[i].status = "ACTIVE" /\ Sound(subscription[i])
      BY InvFacts DEF Having
  <2>2. i \in Having(subscription, {"TRIALING", "ACTIVE"})
      BY <2>1 DEF Having
  <2>3. e \in 1..pushed /\ ~Beats(subscription, i, e) /\ Sound(subscription[e])
      BY <2>2, InvFacts DEF Entitles, Best, Having
  <2>4. subscription[i].shared /\ subscription[e].shared \in BOOLEAN
      BY <2>1, <2>3 DEF Sound, HasAccount, Subscription
  <2>5. subscription[i].plan \in Nat /\ subscription[e].plan \in Nat
      BY <2>1, <2>3, SubscriptionsAssumption DEF Sound, Subscription
  <2>6. ~(subscription[i].plan > subscription[e].plan)
      BY <2>3, <2>4 DEF Beats
  <2> QED BY <2>5, <2>6
<1> QED BY <1>1, SubscriptionsInvariant, PTL

\* What is paid stays so until another one is paid, an extension makes a trial of it, or
\* the job comes to a row that it listed before it was paid.
THEOREM PaidIsKept == SubscriptionsSafety => PaidStaysPaid
<1> DEFINE A == \A i \in Having(subscription, {"ACTIVE"}) : Kept(i)
<1>1. SubscriptionsInv /\ [SubscriptionsNext]_subscriptionVars => A
  <2>1. SubscriptionsInv /\ [SubscriptionsNext]_subscriptionVars => AllKept
      BY EveryStep, PayStep DEF Fine
  <2> QED BY <2>1 DEF AllKept, Having
<1>2. SubscriptionsSafety => [][A]_subscriptionVars
  <2> HIDE DEF A
  <2> QED BY <1>1, SubscriptionsInvariant, PTL DEF SubscriptionsSafety
<1> QED BY <1>2, PTL DEF PaidStaysPaid, Kept

=============================================================================

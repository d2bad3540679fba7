----------------------------- MODULE MCEarnings -----------------------------
(* Instances for TLC of what an affiliate comes by: the account of its        *)
(* conversions, and its tiers and milestones.                                 *)
EXTENDS Conversions, Rewards, TLC

\* What a behaviour is about; the modules do not meet.
VARIABLE part

earningsVars == <<vars, rewardVars, part>>

\* The behaviours of Conversions in which only the API and the analysts act: no manual
\* conversion is ever made.
Checking(c) == FraudCheckFlags(c) \/ ApplyFlag(c) \/ FraudCheckAllows(c)

AccountStep ==
    \/ Api
    \/ Analyst
    \/ \E c \in Conversions : Checking(c)
    \/ \E k \in Commissions : PostEarned(k)

\* A tier with a grace period is above one that is left with the next period, and the
\* second milestone pays its bonus after a first reward.
Modes   == <<"DOWNGRADE_NEXT_PERIOD", "DOWNGRADE_NEXT_PERIOD", "GRACE_PERIOD">>
Targets == <<1, 2>>

Converting(action) == part = "account" /\ action /\ UNCHANGED <<rewardVars, part>>
Rewarding(action)  == part = "rewards" /\ action /\ UNCHANGED <<vars, part>>

EarningsInit == Init /\ RewardsInit /\ part \in {"account", "rewards"}
EarningsNext == Converting(AccountStep) \/ Rewarding(RewardsNext)

\* The fairness of the Spec of Conversions and of RewardsSpec.
EarningsSpec ==
    /\ EarningsInit /\ [][EarningsNext]_earningsVars
    /\ \A c \in Conversions : WF_earningsVars(Converting(Checking(c)))
    /\ \A k \in Commissions : WF_earningsVars(Converting(PostEarned(k)))
    /\ WF_earningsVars(Rewarding(Reconcile))
    /\ WF_earningsVars(Rewarding(Tell(Reconciler)))
    /\ WF_earningsVars(Rewarding(GracePasses))

\* Conversions whole, with nobody rewarded.
ConversionsSafety == EarningsInit /\ [][Converting(Next)]_earningsVars
=============================================================================

------------------------------ MODULE Rewards ------------------------------
(***************************************************************************)
(* Tiers and milestones of one affiliate in one program (gamification:     *)
(* PerformanceAggregationService, MilestoneEvaluatorService,               *)
(* TierEvaluatorService, RewardExecutorService, TierService and the        *)
(* reconciliation job).                                                    *)
(*                                                                         *)
(* What counts is the number of approved conversions: that of the LIFETIME *)
(* summary when there is one, else what a count over the conversions       *)
(* gives.  An evaluation goes through the milestones and then looks at the *)
(* tier.  The ledger is posted in memory, so it gives up the processor     *)
(* only for the notification and the e-mail of a reward: a bonus is posted *)
(* before that wait, the second part of a MULTI_REWARD after it.           *)
(*                                                                         *)
(* A tier is its level, 1 the default one; 0 is an affiliate without a row *)
(* in affiliateTiers.                                                      *)
(***************************************************************************)
EXTENDS Integers, FiniteSetsExt

CONSTANTS
    TopTier,        \* the highest level of the program's tiers
    DowngradeMode,  \* what a tier says of a fall from it
    LastMilestone,  \* milestones are numbered as they are evaluated
    Target,         \* targetValue of each
    Multi,          \* milestones whose bonus is the second part of a MULTI_REWARD
    Evaluators,     \* requests that evaluate the affiliate
    Reconciler,     \* the reconciliation job, which evaluates it too
    MaxApproved,    \* bound: approved conversions
    MaxChanges      \* bound: what admins do, and restarts

Tiers == 1..TopTier
Milestones == 1..LastMilestone

ASSUME RewardsAssumption ==
    /\ TopTier \in Nat \ {0}
    /\ LastMilestone \in Nat
    /\ Multi \subseteq Milestones
    /\ DowngradeMode \in [Tiers -> {"NEVER_DOWNGRADE", "DOWNGRADE_NEXT_PERIOD",
                                    "IMMEDIATE_DOWNGRADE", "GRACE_PERIOD"}]
    /\ Target \in [Milestones -> Nat]
    /\ Reconciler \notin Evaluators
    /\ MaxApproved \in Nat /\ MaxChanges \in Nat

VARIABLES
    approved,       \* approved conversions of the affiliate in the program
    counted,        \* approvedConversions of the LIFETIME summary, NoSummary without one
    needed,         \* minimumConversions of each tier
    tier,           \* affiliateTier.currentTierId
    isLocked,       \* affiliateTier.isLocked
    grace,          \* affiliateTier.gracePeriodExpiresAt: not set, ahead or past
    achieved,       \* milestones with an achievement
    bonus,          \* bonuses posted for each milestone
    promoted,       \* bonuses posted for each tier
    evaluation,     \* where an evaluation waits
    changes,        \* admin operations and restarts so far
    below,          \* history: how long evaluations have found it below its tier
    outlived,       \* history: the grace date outlived the spell it was set for
    fallen,         \* history: how often the affiliate left each tier downwards
    lost            \* history: milestones whose reward a restart cut off

performanceVars == <<approved, counted, needed>>
tierVars  == <<tier, isLocked, grace>>
bonusVars == <<achieved, bonus, promoted>>
tierHistory == <<below, outlived, fallen>>
rewardVars == <<performanceVars, tierVars, bonusVars, evaluation, changes, tierHistory,
                lost>>

NoSummary == -1
Default == 1
Resting == [at |-> "idle", on |-> 0]
All == Evaluators \cup {Reconciler}

RewardsInit ==
    /\ approved = 0
    /\ counted = NoSummary
    /\ needed = [t \in Tiers |-> t - 1]
    /\ tier = 0
    /\ isLocked = FALSE
    /\ grace = "none"
    /\ achieved = {}
    /\ bonus = [k \in Milestones |-> 0]
    /\ promoted = [t \in Tiers |-> 0]
    /\ evaluation = [c \in All |-> Resting]
    /\ changes = 0
    /\ below = "none"
    /\ outlived = FALSE
    /\ fallen = [t \in Tiers |-> 0]
    /\ lost = {}

-----------------------------------------------------------------------------
(* One turn of an evaluation, with the metric it reads.  An operator whose    *)
(* name has an underscore is the operator before the underscore with a slip   *)
(* in it.                                                                     *)

\* resolveMetricValue, getPerformanceMetrics.
Metric == IF counted = NoSummary THEN approved ELSE counted

Current == IF tier = 0 THEN Default ELSE tier
Eligible(metric) ==
    Max({Default} \cup {t \in Tiers : metric >= needed[t]})

\* The milestones from position k on that the affiliate has reached and not been given.
Reached(k, metric) == {j \in k..LastMilestone \ achieved :
                          metric >= Target[j]}

\* Milestone k: the achievement, then its reward up to the first wait.
Achieve_Late(c, k) ==
    /\ bonus' = IF k \in Multi THEN bonus ELSE [bonus EXCEPT ![k] = @ + 1]
    /\ evaluation' = [evaluation EXCEPT ![c] =
                        [at |-> IF k \in Multi THEN "multi" ELSE "milestone", on |-> k]]
    /\ UNCHANGED <<achieved, tierVars, promoted, tierHistory>>
Achieve(c, k) ==
    /\ achieved' = achieved \cup {k}
    /\ bonus' = IF k \in Multi THEN bonus ELSE [bonus EXCEPT ![k] = @ + 1]
    /\ evaluation' = [evaluation EXCEPT ![c] =
                        [at |-> IF k \in Multi THEN "multi" ELSE "milestone", on |-> k]]
    /\ UNCHANGED <<tierVars, promoted, tierHistory>>

\* A row that a transition writes loses its grace date.
ClearGrace_Kept == UNCHANGED <<grace, outlived>>
ClearGrace == grace' = "none" /\ outlived' = FALSE

\* applyTierUpgrade: the raise and the bonus are posted in the same turn.
Promote(c, t) ==
    /\ tier' = t
    /\ ClearGrace
    /\ below' = "none"
    /\ promoted' = [promoted EXCEPT ![t] = @ + 1]
    /\ evaluation' = [evaluation EXCEPT ![c] = [at |-> "tier", on |-> t]]
    /\ UNCHANGED <<isLocked, achieved, bonus, fallen>>

Rest(c) == evaluation' = [evaluation EXCEPT ![c] = Resting]

\* handlePotentialDowngrade, the execution of the downgrade.
Demote(c, t) ==
    /\ tier' = t
    /\ ClearGrace
    /\ below' = "none"
    /\ fallen' = [u \in Tiers |-> IF t < u /\ u <= tier THEN fallen[u] + 1 ELSE fallen[u]]
    /\ evaluation' = [evaluation EXCEPT ![c] = [at |-> "tier", on |-> t]]
    /\ UNCHANGED <<isLocked, bonusVars>>

\* handlePotentialDowngrade: whether the tier the affiliate holds lets it fall now.
MayFall_NoBoundary(c) ==
    CASE DowngradeMode[tier] = "NEVER_DOWNGRADE"       -> FALSE
      [] DowngradeMode[tier] = "GRACE_PERIOD"          -> grace = "past"
      [] DowngradeMode[tier] = "DOWNGRADE_NEXT_PERIOD" -> FALSE
      [] OTHER                                         -> TRUE
MayFall(c) ==
    CASE DowngradeMode[tier] = "NEVER_DOWNGRADE"       -> FALSE
      [] DowngradeMode[tier] = "GRACE_PERIOD"          -> grace = "past"
      [] DowngradeMode[tier] = "DOWNGRADE_NEXT_PERIOD" -> c = Reconciler
      [] OTHER                                         -> TRUE

\* It stays; the first time it is found below a tier with a grace period, that starts.
StartGrace(c) ==
    /\ grace' = IF DowngradeMode[tier] = "GRACE_PERIOD" /\ grace = "none"
                THEN "ahead" ELSE grace
    /\ below' = IF below = "none" THEN "running" ELSE below
    /\ Rest(c)
    /\ UNCHANGED <<tier, isLocked, bonusVars, outlived, fallen>>

\* It is where it belongs, or locked; nothing is written but the row a newcomer gets.
Stay(c, metric) ==
    /\ tier' = Current
    /\ below' = IF Eligible(metric) < Current THEN below ELSE "none"
    /\ outlived' = (outlived \/ (grace # "none" /\ Eligible(metric) >= Current))
    /\ Rest(c)
    /\ UNCHANGED <<isLocked, grace, bonusVars, fallen>>

EvaluateTier(c, metric) ==
    \/ isLocked /\ Stay(c, metric)
    \/ ~isLocked /\ Eligible(metric) = Current /\ Stay(c, metric)
    \/ ~isLocked /\ Eligible(metric) > Current /\ Promote(c, Eligible(metric))
    \/ /\ ~isLocked /\ Eligible(metric) < Current
       /\ IF MayFall(c) THEN Demote(c, Eligible(metric)) ELSE StartGrace(c)

\* The turn: to the wait of the next milestone reached, or through the tier.
Proceed(c, k, metric) ==
    /\ IF Reached(k, metric) # {}
       THEN Achieve(c, Min(Reached(k, metric)))
       ELSE EvaluateTier(c, metric)
    /\ UNCHANGED <<changes, lost>>

-----------------------------------------------------------------------------
(* The actions *)

\* recordApprovedConversion, from createConversion; it starts the summary from one.
RecordApprovedConversion(c) ==
    /\ evaluation[c] = Resting
    /\ approved < MaxApproved
    /\ approved' = approved + 1
    /\ counted' = IF counted = NoSummary THEN 1 ELSE counted + 1
    /\ Proceed(c, 1, counted')
    /\ UNCHANGED needed

\* A merchant, a review or an import approves a conversion: nothing is counted.
ApproveOtherwise ==
    /\ approved < MaxApproved
    /\ approved' = approved + 1
    /\ UNCHANGED <<counted, needed, tierVars, bonusVars, evaluation, changes, tierHistory,
                   lost>>

\* recordTrackingLinkCreated; it starts the summary from zero.
CreateLink(c) ==
    /\ evaluation[c] = Resting
    /\ counted' = IF counted = NoSummary THEN 0 ELSE counted
    /\ Proceed(c, 1, counted')
    /\ UNCHANGED <<approved, needed>>

\* runPeriodicReconciliation; isRunning keeps one run from overtaking another.
Reconcile ==
    /\ evaluation[Reconciler] = Resting
    /\ Proceed(Reconciler, 1, Metric)
    /\ UNCHANGED performanceVars

\* A notification or an e-mail of a milestone's reward has gone out, or failed.
MilestoneTold(c) ==
    /\ evaluation[c].at = "milestone"
    /\ Proceed(c, evaluation[c].on + 1, Metric)
    /\ UNCHANGED performanceVars

\* The second part of a MULTI_REWARD: the bonus, and another wait.
SecondPart(c) ==
    /\ evaluation[c].at = "multi"
    /\ bonus' = [bonus EXCEPT ![evaluation[c].on] = @ + 1]
    /\ evaluation' = [evaluation EXCEPT ![c].at = "milestone"]
    /\ UNCHANGED <<performanceVars, tierVars, achieved, promoted, changes, tierHistory, lost>>

\* What a promotion or a fall sends out has gone, or failed.
TierTold(c) ==
    /\ evaluation[c].at = "tier"
    /\ Rest(c)
    /\ UNCHANGED <<performanceVars, tierVars, bonusVars, changes, tierHistory, lost>>

\* The clock passes gracePeriodExpiresAt.
GracePasses ==
    /\ grace = "ahead"
    /\ grace' = "past"
    /\ below' = IF below = "running" THEN "long" ELSE below
    /\ UNCHANGED <<performanceVars, tier, isLocked, bonusVars, evaluation, changes, outlived,
                   fallen, lost>>

CountAdminStep == changes < MaxChanges /\ changes' = changes + 1

\* assignTierManually: the grace date stays.
AssignTier(t, locks) ==
    /\ CountAdminStep
    /\ tier' = t
    /\ isLocked' = locks
    /\ below' = "none"
    /\ outlived' = (grace # "none")
    /\ fallen' = [u \in Tiers |-> IF t < u /\ u <= tier THEN fallen[u] + 1 ELSE fallen[u]]
    /\ UNCHANGED <<performanceVars, grace, bonusVars, evaluation, lost>>

\* lockTier
SetLock ==
    /\ CountAdminStep
    /\ tier # 0
    /\ isLocked' = ~isLocked
    /\ UNCHANGED <<performanceVars, tier, grace, bonusVars, evaluation, tierHistory, lost>>

\* updateTier: a tier is made harder or easier to reach.
UpdateTier(t, n) ==
    /\ CountAdminStep
    /\ needed' = [needed EXCEPT ![t] = n]
    /\ UNCHANGED <<approved, counted, tierVars, bonusVars, evaluation, tierHistory, lost>>

\* The process restarts: the evaluations under way are gone, and no one takes them up.
RestartEvaluations ==
    /\ CountAdminStep
    /\ evaluation' = [c \in All |-> Resting]
    /\ lost' = lost \cup {evaluation[c].on : c \in {d \in All : evaluation[d].at = "multi"}}
    /\ UNCHANGED <<performanceVars, tierVars, bonusVars, tierHistory>>

Tell(c) == MilestoneTold(c) \/ SecondPart(c) \/ TierTold(c)

RewardsNext ==
    \/ ApproveOtherwise \/ Reconcile \/ GracePasses \/ SetLock \/ RestartEvaluations
    \/ \E c \in Evaluators : RecordApprovedConversion(c) \/ CreateLink(c)
    \/ \E c \in All : Tell(c)
    \/ \E t \in Tiers : \E locks \in BOOLEAN : AssignTier(t, locks)
    \/ \E t \in Tiers : \E n \in 0..MaxApproved : UpdateTier(t, n)

RewardsSafety == RewardsInit /\ [][RewardsNext]_rewardVars

\* The job comes round every six hours, its waits end because failures are caught, and
\* the clock goes on.
RewardsSpec ==
    /\ RewardsSafety
    /\ WF_rewardVars(Reconcile)
    /\ WF_rewardVars(Tell(Reconciler))
    /\ WF_rewardVars(GracePasses)
-----------------------------------------------------------------------------
(* Properties *)

\* What the variables hold.
RewardsTypeOK ==
    /\ approved \in 0..MaxApproved
    /\ counted \in NoSummary..approved
    /\ needed \in [Tiers -> Nat]
    /\ tier \in {0} \cup Tiers
    /\ isLocked \in BOOLEAN /\ outlived \in BOOLEAN
    /\ grace \in {"none", "ahead", "past"}
    /\ achieved \subseteq Milestones /\ lost \subseteq Milestones
    /\ bonus \in [Milestones -> Nat]
    /\ promoted \in [Tiers -> Nat] /\ fallen \in [Tiers -> Nat]
    /\ evaluation \in [All -> [at : {"idle", "milestone", "multi", "tier"},
                               on : {0} \cup Milestones \cup Tiers]]
    /\ changes \in 0..MaxChanges
    /\ below \in {"none", "running", "long"}

\* However many evaluations run at the same time, a milestone pays one bonus, and it is
\* paid or under way when the achievement is recorded, unless a restart cut it off; and a
\* tier pays its promotion again only after the affiliate had left it downwards.
RewardedOnce ==
    /\ \A k \in Milestones : bonus[k] <= 1
    /\ \A k \in achieved \ lost :
          bonus[k] = 1 \/ \E c \in All : evaluation[c] = [at |-> "multi", on |-> k]
    /\ \A t \in Tiers : promoted[t] <= 1 + fallen[t]

\* An affiliate falls out of a tier with a grace period only when evaluations have found
\* it below that tier for the whole period, unless the date of an earlier period was
\* still there: a recovery, a lock and an assignment by hand leave it.
GraceIsGiven ==
    [][tier' < tier /\ DowngradeMode[tier] = "GRACE_PERIOD" /\ ~outlived
          => below = "long" \/ changes' > changes]_rewardVars

\* In the end the affiliate has the tier that its metric gives, or a higher one that does
\* not let it fall, or one that is locked: the job sees to it.
TierFollows ==
    <>[](\/ isLocked
         \/ Current = Eligible(Metric)
         \/ Current > Eligible(Metric) /\ DowngradeMode[Current] = "NEVER_DOWNGRADE")
=============================================================================

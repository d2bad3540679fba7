------------------------------ MODULE Capacity ------------------------------
(***************************************************************************)
(* The affiliate allowance of one billing account: who occupies a slot,    *)
(* how slots are taken under the lock of the allowance and without it, and *)
(* the add-on purchases that enlarge it (SubscriptionLimitService,         *)
(* SubscriptionUsageService, AddonService, and the invitations,            *)
(* applications and affiliates of AffiliatesService).                      *)
(*                                                                         *)
(* One organization, ACTIVE, with one program of the LIVE environment.  A  *)
(* call is a handler that ends in AffiliatesService.create.  create waits  *)
(* for the lock, and holding it reads the database twice: to see whether   *)
(* the slot is reserved, and, after the check of the limit, to look for    *)
(* the record it is about to create.  The lock itself is the module        *)
(* LimitLock.                                                              *)
(*                                                                         *)
(* A person may sit on the team of an organization, or be an affiliate,    *)
(* not both (affiliate-eligibility.policy.ts; the setting that allows both *)
(* is off, its default).  Accounts of the affiliate portal, which pass     *)
(* every check for affiliates and may join no team, are left out.          *)
(***************************************************************************)
EXTENDS Naturals, FiniteSets

CONSTANTS
    People,         \* e-mail addresses of partners
    Invites,        \* invitations
    Invitee,        \* the person an invitation is addressed to
    Applicants,     \* people who may apply
    Callers,        \* handlers that may run at the same time
    Orders,         \* add-on orders, one purchase each
    MaxQuantity,    \* bound: units of one purchase
    MaxMemberships, \* bound: programAffiliate rows of one person
    Included        \* included limit of the plan in force, by entitlement

Plans == {"PAID", "FREE"}

ASSUME CapacityAssumption ==
    /\ IsFiniteSet(People) /\ IsFiniteSet(Orders)
    /\ Invitee \in [Invites -> People]
    /\ Applicants \subseteq People
    /\ MaxQuantity \in Nat /\ MaxMemberships \in Nat
    /\ Included \in [Plans -> Nat]

VARIABLES
    affiliate,      \* status of the affiliate record of a person
    memberships,    \* number of ACTIVE programAffiliate rows of a person
    invitation,     \* status of an invitation
    lapsed,         \* clock: open invitations past expiresAt
    application,    \* status of the latest application of a person
    stage,          \* where a call stands
    job,            \* what a call is about: <<handler, subject>>
    plan,           \* the plan whose limits apply
    program,        \* status of the program
    seat,           \* where a person stands with the team of some organization
    purchase,       \* status of the purchase of an order
    quantity,       \* its units
    ended,          \* clock: purchases past endDate
    provider,       \* what the provider reports about an order
    strained,       \* history: the limit was passed or a check undercut, and not healed since
    repeated,       \* history: people for whom create was called again
    crossed,        \* history: invitations withdrawn during their acceptance
    overlapped,     \* history: people who asked for a seat or held one that did not
                    \* count while they were being made an affiliate
    revived         \* history: purchases cancelled while they granted nothing

peopleVars   == <<affiliate, memberships>>
inviteVars   == <<invitation, lapsed>>
callVars     == <<stage, job>>
addonVars    == <<purchase, quantity, ended, provider>>
settingVars  == <<plan, program, seat>>
historyVars  == <<repeated, crossed, overlapped, revived>>
capacityVars == <<peopleVars, inviteVars, application, callVars, settingVars, addonVars,
                  strained, historyVars>>

Jobs == ({"complete", "accept"} \X Invites) \cup ({"approve"} \X Applicants) \cup ({"add"} \X People)
NoJob == <<"none", "none">>
IsAcceptance(j) == j[1] \in {"complete", "accept"}
Person(j) == IF IsAcceptance(j) THEN Invitee[j[2]] ELSE j[2]

CapacityInit ==
    /\ affiliate = [p \in People |-> "NONE"]
    /\ memberships = [p \in People |-> 0]
    /\ invitation = [i \in Invites |-> "NONE"]
    /\ lapsed = {}
    /\ application = [p \in Applicants |-> "NONE"]
    /\ stage = [c \in Callers |-> "idle"]
    /\ job = [c \in Callers |-> NoJob]
    /\ plan = "PAID"
    /\ program = "ACTIVE"
    /\ seat = [p \in People |-> "NONE"]
    /\ purchase = [o \in Orders |-> "NONE"]
    /\ quantity = [o \in Orders |-> 0]
    /\ ended = {}
    /\ provider = [o \in Orders |-> {}]
    /\ strained = FALSE
    /\ repeated = {}
    /\ crossed = {}
    /\ overlapped = {}
    /\ revived = {}

-----------------------------------------------------------------------------
(* Usage and limit.  An operator whose name has an underscore is the operator *)
(* before the underscore with a slip in it.                                   *)

Open(i) == invitation[i] \in {"PENDING", "TERMS_ACCEPTED"}

\* An invitation that reserves the slot of its invitee.
Live(i) == invitation[i] = "PENDING" /\ i \notin lapsed

Billable(p) == affiliate[p] = "ACTIVE"
Invited(p) == \E i \in Invites : Invitee[i] = p /\ Live(i)

Occupied == {p \in People : Billable(p) \/ Invited(p)}

Grants_Unpaid(o) == purchase[o] \in {"PENDING", "ACTIVE", "CANCEL_PENDING"} /\ o \notin ended
Grants(o) == purchase[o] \in {"ACTIVE", "CANCEL_PENDING"} /\ o \notin ended

\* activeAddonUnits, unit by unit.
Granted == {u \in Orders \X (1..MaxQuantity) : Grants(u[1]) /\ u[2] <= quantity[u[1]]}

Limit == Included[plan] + Cardinality(Granted)

CanCreate_OffByOne == Cardinality(Occupied) <= Limit
CanCreate == Cardinality(Occupied) + 1 <= Limit

\* The handlers that hold the lock.
Holding == {c \in Callers : stage[c] \in {"looking", "checked"}}

-----------------------------------------------------------------------------
(* Calls of create *)

Member(p) == memberships[p] > 0
HasRecord(p) == affiliate[p] # "NONE"
Reserved(p) == Invited(p)

\* An active member of the team of an organization that is not suspended or closed.
Ineligible(p) == seat[p] = "MEMBER"

Busy(p) == \E c \in Callers : stage[c] \notin {"idle", "joining"} /\ Person(job[c]) = p

Start(c, j) ==
    /\ stage[c] = "idle"
    /\ stage' = [stage EXCEPT ![c] = "waiting"]
    /\ job' = [job EXCEPT ![c] = j]
    /\ repeated' = IF Busy(Person(j)) \/ (j[1] # "accept" /\ Member(Person(j)))
                   THEN repeated \cup {Person(j)} ELSE repeated
    /\ UNCHANGED <<peopleVars, settingVars, addonVars, crossed, overlapped, revived>>

\* expireOldInvitations, then the state of this one.
Expired == [i \in Invites |-> IF i \in lapsed THEN "EXPIRED" ELSE invitation[i]]
ExpireOld == invitation' = Expired /\ lapsed' = {}

CanBeAccepted_Withdrawn(i) == invitation[i] \notin {"NONE", "JOINED"} /\ i \notin lapsed
CanBeAccepted(i) == Open(i) /\ i \notin lapsed

\* completeAffiliateInvitation asks neither whether the person is a member already nor
\* whether the person is on a team.
CompleteInvitation(c, i) ==
    /\ CanBeAccepted(i)
    /\ program = "ACTIVE"
    /\ ExpireOld
    /\ Start(c, <<"complete", i>>)
    /\ UNCHANGED application

\* acceptInvitationForEmail asks both.
MayAccept(i) == CanBeAccepted(i) /\ program = "ACTIVE" /\ ~Ineligible(Invitee[i])

AcceptInvitation(c, i) ==
    /\ MayAccept(i)
    /\ ~Member(Invitee[i])
    /\ ExpireOld
    /\ Start(c, <<"accept", i>>)
    /\ UNCHANGED application

AcceptAsMember(i) ==
    /\ MayAccept(i)
    /\ Member(Invitee[i])
    /\ invitation' = [Expired EXCEPT ![i] = "JOINED"]
    /\ lapsed' = {}
    /\ UNCHANGED <<peopleVars, application, callVars, settingVars, addonVars, historyVars>>

\* The application is saved as APPROVED before create is called; approving looks at no
\* status.  An automatic approval is an application and its approval in one.
ApproveApplication(c, p) ==
    /\ application[p] # "NONE"
    /\ application' = [application EXCEPT ![p] = "APPROVED"]
    /\ Start(c, <<"approve", p>>)
    /\ UNCHANGED inviteVars

MayApply(p) == application[p] # "PENDING" /\ ~Member(p) /\ ~Ineligible(p)

SubmitAutoApproved(c, p) ==
    /\ MayApply(p)
    /\ application' = [application EXCEPT ![p] = "APPROVED"]
    /\ Start(c, <<"approve", p>>)
    /\ UNCHANGED inviteVars

AddAffiliate(c, p) ==
    /\ Start(c, <<"add", p>>)
    /\ UNCHANGED <<inviteVars, application>>

Finish(c) ==
    /\ stage' = [stage EXCEPT ![c] = "idle"]
    /\ job' = [job EXCEPT ![c] = NoJob]

\* A program archived meanwhile is not found: the call fails, the record stays.
EnrollNow(c) ==
    IF program = "ARCHIVED" THEN Finish(c) /\ UNCHANGED memberships
    ELSE /\ memberships' = [memberships EXCEPT ![Person(job[c])] = @ + 1]
         /\ IF IsAcceptance(job[c])
            THEN stage' = [stage EXCEPT ![c] = "joining"] /\ UNCHANGED job
            ELSE Finish(c)

\* createAffiliateRecord up to its wait for the database.  A refusal undoes nothing: an
\* application stays APPROVED.  A record that exists is taken as it is, whatever its status.
Admit(c) ==
    LET p == Person(job[c])
    IN  /\ memberships[p] < MaxMemberships
        /\ IF Ineligible(p) THEN Finish(c) /\ UNCHANGED <<memberships, overlapped>>
           ELSE IF HasRecord(p) THEN EnrollNow(c) /\ UNCHANGED overlapped
           ELSE /\ stage' = [stage EXCEPT ![c] = "checked"]
                /\ overlapped' = IF seat[p] # "NONE" THEN overlapped \cup {p} ELSE overlapped
                /\ UNCHANGED <<memberships, job>>
    /\ UNCHANGED <<affiliate, inviteVars, application, settingVars, addonVars,
                   repeated, crossed, revived>>

\* The caller gets the lock.  Who has a record, or a live invitation, has a slot already;
\* for others the database is asked, and the limit.
HasSlot(c) == HasRecord(Person(job[c])) \/ Reserved(Person(job[c]))

TakeLock(c) ==
    /\ stage[c] = "waiting"
    /\ Holding = {}
    /\ HasSlot(c)
    /\ Admit(c)

TakeLockAndLook(c) ==
    /\ stage[c] = "waiting"
    /\ Holding = {}
    /\ ~HasSlot(c)
    /\ stage' = [stage EXCEPT ![c] = "looking"]
    /\ UNCHANGED <<peopleVars, job, inviteVars, application, settingVars, addonVars, historyVars>>

AssertCanCreate(c) ==
    /\ stage[c] = "looking"
    /\ CanCreate
    /\ Admit(c)

\* RESOURCE_LIMIT_REACHED: nothing is undone here either.
RefuseByLimit(c) ==
    /\ stage[c] = "looking"
    /\ ~CanCreate
    /\ Finish(c)
    /\ UNCHANGED <<peopleVars, inviteVars, application, settingVars, addonVars, historyVars>>

CreateRecord(c) ==
    /\ stage[c] = "checked"
    /\ memberships[Person(job[c])] < MaxMemberships
    /\ affiliate' = [affiliate EXCEPT ![Person(job[c])] = IF @ = "NONE" THEN "ACTIVE" ELSE @]
    /\ EnrollNow(c)
    /\ UNCHANGED <<inviteVars, application, settingVars, addonVars, historyVars>>

\* Behind create, whatever became of the invitation meanwhile.
Join(c) ==
    /\ stage[c] = "joining"
    /\ Finish(c)
    /\ invitation' = [invitation EXCEPT ![job[c][2]] = "JOINED"]
    /\ lapsed' = lapsed \ {job[c][2]}
    /\ UNCHANGED <<peopleVars, application, settingVars, addonVars, historyVars>>

-----------------------------------------------------------------------------
(* Invitations and applications *)

HasLiveInvitation(p) == Invited(p)

\* inviteAffiliate checks and pushes in one turn under the lock; what follows under the
\* lock (writes, the e-mail) changes nothing more.
MayInvite(i) ==
    /\ invitation[i] = "NONE"
    /\ ~Ineligible(Invitee[i])
    /\ program # "ARCHIVED"
    /\ ~Member(Invitee[i])
    /\ ~HasLiveInvitation(Invitee[i])

PutInvitation(i) ==
    /\ invitation' = [invitation EXCEPT ![i] = "PENDING"]
    /\ lapsed' = lapsed \ {i}
    /\ UNCHANGED <<peopleVars, application, callVars, settingVars, addonVars, historyVars>>

Invite(i) == Holding = {} /\ CanCreate /\ MayInvite(i) /\ PutInvitation(i)

\* A row of bulkInviteAffiliates: neither lock nor limit.
BulkInvite(i) == MayInvite(i) /\ PutInvitation(i)

\* Neither lock nor limit here either.
ResendInvitation(i) ==
    /\ invitation[i] \notin {"NONE", "JOINED", "REVOKED"}
    /\ PutInvitation(i)

Withdraw(i, status) ==
    /\ Open(i)
    /\ invitation' = [invitation EXCEPT ![i] = status]
    /\ lapsed' = lapsed \ {i}
    /\ crossed' = IF \E c \in Callers : IsAcceptance(job[c]) /\ job[c][2] = i
                  THEN crossed \cup {i} ELSE crossed
    /\ UNCHANGED <<peopleVars, application, callVars, settingVars, addonVars,
                   repeated, overlapped, revived>>

RevokeInvitation(i)  == Withdraw(i, "REVOKED")
DeclineInvitation(i) == Withdraw(i, "DECLINED")

AcceptTerms(i) ==
    /\ CanBeAccepted(i)
    /\ program = "ACTIVE"
    /\ invitation' = [Expired EXCEPT ![i] = "TERMS_ACCEPTED"]
    /\ lapsed' = {}
    /\ UNCHANGED <<peopleVars, application, callVars, settingVars, addonVars, historyVars>>

ListInvitations ==
    /\ ExpireOld
    /\ UNCHANGED <<peopleVars, application, callVars, settingVars, addonVars, historyVars>>

InvitationLapses(i) ==
    /\ Open(i)
    /\ lapsed' = lapsed \cup {i}
    /\ UNCHANGED <<peopleVars, invitation, application, callVars, settingVars, addonVars, historyVars>>

SubmitApplication(p) ==
    /\ MayApply(p)
    /\ application' = [application EXCEPT ![p] = "PENDING"]
    /\ UNCHANGED <<peopleVars, inviteVars, callVars, settingVars, addonVars, historyVars>>

RejectApplication(p) ==
    /\ application[p] # "NONE"
    /\ application' = [application EXCEPT ![p] = "REJECTED"]
    /\ UNCHANGED <<peopleVars, inviteVars, callVars, settingVars, addonVars, historyVars>>

\* bulkUpdateAffiliates: ACTIVATE checks no limit.  SUSPENDED stands for INACTIVE too.
SetStatus(p, status) ==
    /\ HasRecord(p)
    /\ affiliate' = [affiliate EXCEPT ![p] = status]
    /\ UNCHANGED <<memberships, inviteVars, application, callVars, settingVars, addonVars, historyVars>>

-----------------------------------------------------------------------------
(* Teams and the program.  A seat is asked for, and taken behind a wait, by the handlers *)
(* that found an organization or accept the invitation to one.                           *)

teamUnchanged == <<peopleVars, inviteVars, application, callVars, plan, addonVars>>

BeingCreated(p) == \E c \in Callers : stage[c] = "checked" /\ Person(job[c]) = p

\* assertUserEligibleForOrganization: any record forbids, whatever its status.
MayJoinTeam_Inactive(p) == ~Billable(p)
MayJoinTeam(p) == ~HasRecord(p)

AskForSeat(p) ==
    /\ seat[p] = "NONE"
    /\ MayJoinTeam(p)
    /\ seat' = [seat EXCEPT ![p] = "ASKED"]
    /\ overlapped' = IF BeingCreated(p) THEN overlapped \cup {p} ELSE overlapped
    /\ UNCHANGED <<teamUnchanged, program, repeated, crossed, revived>>

MoveSeat(p, from, to) ==
    /\ seat[p] = from
    /\ seat' = [seat EXCEPT ![p] = to]
    /\ UNCHANGED <<teamUnchanged, program, historyVars>>

TakeSeat(p) == MoveSeat(p, "ASKED", "MEMBER")

\* The request fails, or the member is removed.
LeaveTeam(p) == \E from \in {"ASKED", "MEMBER", "AWAY"} : MoveSeat(p, from, "NONE")

\* The other organization is suspended, and opened again.
SuspendTeam(p) == MoveSeat(p, "MEMBER", "AWAY")
ReopenTeam(p) == MoveSeat(p, "AWAY", "MEMBER")

\* Paused, archived, also with affiliates in it, restored as PAUSED, activated.
SetProgram(status) ==
    /\ program = "ARCHIVED" => status = "PAUSED"
    /\ program' = status
    /\ UNCHANGED <<teamUnchanged, seat, historyVars>>

-----------------------------------------------------------------------------
(* Plan and add-ons *)

addonUnchanged == <<peopleVars, inviteVars, application, callVars>>

\* resolveEntitlement: the subscription lapses, or is paid again.
ChangePlan(to) ==
    /\ plan' = to
    /\ UNCHANGED <<addonUnchanged, program, seat, addonVars, historyVars>>

\* purchase grants nothing yet.
PurchaseAddon(o, n) ==
    /\ purchase[o] = "NONE"
    /\ plan = "PAID"
    /\ purchase' = [purchase EXCEPT ![o] = "PENDING"]
    /\ quantity' = [quantity EXCEPT ![o] = n]
    /\ UNCHANGED <<addonUnchanged, settingVars, ended, provider, historyVars>>

\* The customer pays the order; an attempt may fail first.
Pay(o, report) ==
    /\ purchase[o] # "NONE"
    /\ provider' = [provider EXCEPT ![o] = @ \cup {report}]
    /\ UNCHANGED <<addonUnchanged, settingVars, purchase, quantity, ended, historyVars>>

\* activatePurchases, from verify and from the webhook, as often as either comes.
ActivatePurchases(o) ==
    /\ "captured" \in provider[o]
    /\ purchase[o] = "PENDING"
    /\ purchase' = [purchase EXCEPT ![o] = "ACTIVE"]
    /\ ended' = ended \ {o}
    /\ UNCHANGED <<addonUnchanged, settingVars, quantity, provider, historyVars>>

FailPurchases(o) ==
    /\ "failed" \in provider[o]
    /\ purchase[o] = "PENDING"
    /\ purchase' = [purchase EXCEPT ![o] = "FAILED"]
    /\ UNCHANGED <<addonUnchanged, settingVars, quantity, ended, provider, historyVars>>

\* The units a reduction removes are looked at as if they counted, whatever the status.
FitsWithout(n) == Cardinality(Occupied) + n <= Limit

UpdateQuantity(o, n) ==
    /\ purchase[o] # "NONE"
    /\ n <= quantity[o]
    /\ FitsWithout(quantity[o] - n)
    /\ quantity' = [quantity EXCEPT ![o] = n]
    /\ purchase' = [purchase EXCEPT ![o] = IF n = 0 THEN "CANCELLED" ELSE @]
    /\ ended' = IF n = 0 THEN ended \cup {o} ELSE ended
    /\ UNCHANGED <<addonUnchanged, settingVars, provider, historyVars>>

CancelImmediately(o) ==
    /\ purchase[o] # "NONE"
    /\ FitsWithout(quantity[o])
    /\ purchase' = [purchase EXCEPT ![o] = "CANCELLED"]
    /\ ended' = ended \cup {o}
    /\ UNCHANGED <<addonUnchanged, settingVars, quantity, provider, historyVars>>

\* cancelPurchase asks for no status: an unpaid, failed or cancelled purchase grants its
\* units until the period ends.
CancelAtPeriodEnd(o) ==
    /\ purchase[o] # "NONE"
    /\ purchase' = [purchase EXCEPT ![o] = "CANCEL_PENDING"]
    /\ ended' = ended \ {o}
    /\ revived' = IF purchase[o] \in {"ACTIVE", "CANCEL_PENDING"} THEN revived
                  ELSE revived \cup {o}
    /\ UNCHANGED <<addonUnchanged, settingVars, quantity, provider, repeated, crossed, overlapped>>

PeriodEnds(o) ==
    /\ purchase[o] = "CANCEL_PENDING"
    /\ ended' = ended \cup {o}
    /\ UNCHANGED <<addonUnchanged, settingVars, purchase, quantity, provider, historyVars>>

ExpireLapsedPurchases ==
    /\ purchase' = [o \in Orders |->
                       IF purchase[o] = "CANCEL_PENDING" /\ o \in ended THEN "CANCELLED"
                       ELSE purchase[o]]
    /\ UNCHANGED <<addonUnchanged, settingVars, quantity, ended, provider, historyVars>>

-----------------------------------------------------------------------------
(* The steps that may take the account over its limit by themselves, or undercut a *)
(* check that was made, and the others.                                            *)

UncheckedStep ==
    \/ \E i \in Invites : BulkInvite(i) \/ ResendInvitation(i)
    \/ \E p \in People : SetStatus(p, "ACTIVE")
    \/ \E to \in Plans : ChangePlan(to)
    \/ \E o \in Orders :
          \/ \E n \in 0..MaxQuantity : UpdateQuantity(o, n)
          \/ CancelImmediately(o)
          \/ PeriodEnds(o)

CheckedStep ==
    \/ \E c \in Callers :
          \/ \E i \in Invites : CompleteInvitation(c, i) \/ AcceptInvitation(c, i)
          \/ \E p \in Applicants : ApproveApplication(c, p) \/ SubmitAutoApproved(c, p)
          \/ \E p \in People : AddAffiliate(c, p)
          \/ TakeLock(c) \/ TakeLockAndLook(c) \/ AssertCanCreate(c) \/ RefuseByLimit(c)
          \/ CreateRecord(c) \/ Join(c)
    \/ \E i \in Invites :
          \/ AcceptAsMember(i) \/ Invite(i) \/ RevokeInvitation(i) \/ DeclineInvitation(i)
          \/ AcceptTerms(i) \/ InvitationLapses(i)
    \/ ListInvitations
    \/ \E p \in Applicants : SubmitApplication(p) \/ RejectApplication(p)
    \/ \E p \in People : SetStatus(p, "SUSPENDED")
    \/ \E o \in Orders :
          \/ \E n \in 1..MaxQuantity : PurchaseAddon(o, n)
          \/ \E report \in {"captured", "failed"} : Pay(o, report)
          \/ ActivatePurchases(o) \/ FailPurchases(o) \/ CancelAtPeriodEnd(o)
    \/ ExpireLapsedPurchases
    \/ \E p \in People : AskForSeat(p) \/ TakeSeat(p) \/ LeaveTeam(p) \/ SuspendTeam(p) \/ ReopenTeam(p)
    \/ \E status \in {"ACTIVE", "PAUSED", "ARCHIVED"} : SetProgram(status)

Exceeded == Cardinality(Occupied) > Limit
Checking == \E c \in Callers : stage[c] = "checked"

CapacityNext ==
    \/ CheckedStep /\ strained' = (strained /\ (Exceeded' \/ Checking'))
    \/ UncheckedStep /\ strained' = (Exceeded' \/ Checking')

CapacitySafety == CapacityInit /\ [][CapacityNext]_capacityVars
-----------------------------------------------------------------------------
(* Properties *)

\* What the variables hold.
CapacityTypeOK ==
    /\ affiliate \in [People -> {"NONE", "ACTIVE", "SUSPENDED"}]
    /\ memberships \in [People -> 0..MaxMemberships]
    /\ invitation \in [Invites -> {"NONE", "PENDING", "TERMS_ACCEPTED", "JOINED",
                                  "DECLINED", "REVOKED", "EXPIRED"}]
    /\ lapsed \subseteq {i \in Invites : Open(i)}
    /\ application \in [Applicants -> {"NONE", "PENDING", "APPROVED", "REJECTED"}]
    /\ stage \in [Callers -> {"idle", "waiting", "looking", "checked", "joining"}]
    /\ job \in [Callers -> Jobs \cup {NoJob}]
    /\ \A c \in Callers : stage[c] = "idle" <=> job[c] = NoJob
    /\ \A c \in Callers : stage[c] = "joining" => IsAcceptance(job[c])
    /\ plan \in Plans
    /\ program \in {"ACTIVE", "PAUSED", "ARCHIVED"}
    /\ seat \in [People -> {"NONE", "ASKED", "MEMBER", "AWAY"}]
    /\ purchase \in [Orders -> {"NONE", "PENDING", "ACTIVE", "CANCEL_PENDING",
                                "CANCELLED", "FAILED"}]
    /\ quantity \in [Orders -> 0..MaxQuantity]
    /\ ended \subseteq Orders
    /\ provider \in [Orders -> SUBSET {"captured", "failed"}]
    /\ strained \in BOOLEAN
    /\ repeated \subseteq People /\ overlapped \subseteq People
    /\ crossed \subseteq Invites
    /\ revived \subseteq Orders

\* The account uses no more than it is entitled to, unless a bulk invitation, a resent
\* invitation, a reactivation or a loss of capacity took it over the limit or fell
\* between the check of another call and its creation (SubscriptionLimitService.reserve).
WithinCapacity == Exceeded => strained

\* However many handlers enrol the same person, it is enrolled once, unless create was
\* called for it by a path that does not ask, or while it was being enrolled.
OneMembership == \A p \in People : memberships[p] <= 1 \/ p \in repeated

\* A revoked or declined invitation is not joined unless it was withdrawn during its
\* acceptance (revokeInvitation, assertInvitationCanBeAccepted).
WithdrawnStaysOut ==
    [][\A i \in Invites :
          invitation[i] \in {"REVOKED", "DECLINED"} /\ i \notin crossed
              => invitation'[i] # "JOINED"]_capacityVars

\* Add-on capacity was paid for, unless the purchase was cancelled to the end of the
\* period while it granted nothing (activatePurchases, cancelPurchase).
GrantedIsPaid ==
    \A o \in Orders : Grants(o) => "captured" \in provider[o] \/ o \in revived

\* An affiliate is not an active member of a team, unless it asked for the seat, or held
\* one that did not count, while the record was being made: each handler looks at the
\* other kind before its wait (assertUserEligibleForAffiliate,
\* assertUserEligibleForOrganization).
NotBoth == \A p \in People : HasRecord(p) /\ seat[p] = "MEMBER" => p \in overlapped
=============================================================================

--------------------------- MODULE CapacityProofs ---------------------------
(***************************************************************************)
(* Proofs about Capacity, for any number of people, invitations, orders    *)
(* and handlers.  What makes them work is the lock: one handler at a time  *)
(* is between the check of the limit and the creation.                     *)
(***************************************************************************)
EXTENDS Capacity, FiniteSetTheorems, TLAPS

\* The parts of the type invariant.
PeopleOK ==
    /\ affiliate \in [People -> {"NONE", "ACTIVE", "SUSPENDED"}]
    /\ memberships \in [People -> 0..MaxMemberships]
    /\ application \in [Applicants -> {"NONE", "PENDING", "APPROVED", "REJECTED"}]
InvitesOK ==
    /\ invitation \in [Invites -> {"NONE", "PENDING", "TERMS_ACCEPTED", "JOINED",
                                  "DECLINED", "REVOKED", "EXPIRED"}]
    /\ lapsed \subseteq {i \in Invites : Open(i)}
CallsOK ==
    /\ stage \in [Callers -> {"idle", "waiting", "looking", "checked", "joining"}]
    /\ job \in [Callers -> Jobs \cup {NoJob}]
    /\ \A c \in Callers : stage[c] = "idle" <=> job[c] = NoJob
    /\ \A c \in Callers : stage[c] = "joining" => IsAcceptance(job[c])
SettingOK ==
    /\ plan \in Plans
    /\ program \in {"ACTIVE", "PAUSED", "ARCHIVED"}
    /\ seat \in [People -> {"NONE", "ASKED", "MEMBER", "AWAY"}]
AddonsOK ==
    /\ purchase \in [Orders -> {"NONE", "PENDING", "ACTIVE", "CANCEL_PENDING",
                                "CANCELLED", "FAILED"}]
    /\ quantity \in [Orders -> 0..MaxQuantity]
    /\ ended \subseteq Orders
    /\ provider \in [Orders -> SUBSET {"captured", "failed"}]
HistoryOK ==
    /\ strained \in BOOLEAN
    /\ repeated \subseteq People /\ overlapped \subseteq People
    /\ crossed \subseteq Invites
    /\ revived \subseteq Orders

LEMMA TypeParts ==
    CapacityTypeOK <=> PeopleOK /\ InvitesOK /\ CallsOK /\ SettingOK /\ AddonsOK /\ HistoryOK
BY DEF CapacityTypeOK, PeopleOK, InvitesOK, CallsOK, SettingOK, AddonsOK, HistoryOK
LEMMA TypePartsNext ==
    CapacityTypeOK' <=> PeopleOK' /\ InvitesOK' /\ CallsOK' /\ SettingOK' /\ AddonsOK' /\ HistoryOK'
BY DEF CapacityTypeOK, PeopleOK, InvitesOK, CallsOK, SettingOK, AddonsOK, HistoryOK

\* What a call is about.
LEMMA JobFacts ==
    /\ \A j \in Jobs : j # NoJob /\ Person(j) \in People
    /\ \A j \in Jobs : IsAcceptance(j) => j[2] \in Invites
    /\ \A i \in Invites : /\ <<"complete", i>> \in Jobs /\ IsAcceptance(<<"complete", i>>)
                          /\ Person(<<"complete", i>>) = Invitee[i]
                          /\ <<"accept", i>> \in Jobs /\ IsAcceptance(<<"accept", i>>)
                          /\ Person(<<"accept", i>>) = Invitee[i]
    /\ \A p \in Applicants : /\ <<"approve", p>> \in Jobs /\ ~IsAcceptance(<<"approve", p>>)
                             /\ Person(<<"approve", p>>) = p
    /\ \A p \in People : /\ <<"add", p>> \in Jobs /\ ~IsAcceptance(<<"add", p>>)
                         /\ Person(<<"add", p>>) = p
    /\ ~IsAcceptance(NoJob)
    /\ \A j \in Jobs : j[1] = "approve" => j[2] \in Applicants /\ j = <<"approve", j[2]>>
BY CapacityAssumption DEF Jobs, NoJob, IsAcceptance, Person

-----------------------------------------------------------------------------
(* Types *)

\* A call that begins keeps the types of calls and histories.
LEMMA StartTypes ==
    ASSUME CapacityTypeOK, NEW c \in Callers, NEW j \in Jobs, Start(c, j)
    PROVE  CallsOK' /\ SettingOK' /\ AddonsOK' /\ repeated' \subseteq People
<1>1. CallsOK /\ SettingOK /\ AddonsOK /\ HistoryOK
    BY TypeParts
<1>2. CallsOK'
    BY <1>1, JobFacts DEF Start, CallsOK, IsAcceptance
<1>3. SettingOK' /\ AddonsOK'
    BY <1>1 DEF Start, SettingOK, AddonsOK, addonVars, settingVars
<1>4. repeated' \subseteq People
    BY <1>1, JobFacts DEF Start, HistoryOK
<1> QED BY <1>2, <1>3, <1>4

\* Expiring invitations keeps their types.
LEMMA ExpireTypes ==
    ASSUME CapacityTypeOK
    PROVE  Expired \in [Invites -> {"NONE", "PENDING", "TERMS_ACCEPTED", "JOINED",
                                    "DECLINED", "REVOKED", "EXPIRED"}]
BY DEF CapacityTypeOK, Expired

\* The calls.
LEMMA CallTypes ==
    ASSUME CapacityTypeOK, strained' \in BOOLEAN, NEW c \in Callers,
           \/ \E i \in Invites : CompleteInvitation(c, i) \/ AcceptInvitation(c, i)
           \/ \E p \in Applicants : ApproveApplication(c, p) \/ SubmitAutoApproved(c, p)
           \/ \E p \in People : AddAffiliate(c, p)
    PROVE  CapacityTypeOK'
<1>1. PeopleOK /\ InvitesOK /\ CallsOK /\ SettingOK /\ AddonsOK /\ HistoryOK
    BY TypeParts
<1>2. ASSUME NEW j \in Jobs, Start(c, j), InvitesOK',
             application' \in [Applicants -> {"NONE", "PENDING", "APPROVED", "REJECTED"}]
      PROVE  CapacityTypeOK'
  <2>1. CallsOK' /\ SettingOK' /\ AddonsOK' /\ repeated' \subseteq People
      BY <1>2, StartTypes
  <2>2. PeopleOK' /\ HistoryOK'
      BY <1>1, <1>2, <2>1 DEF Start, PeopleOK, HistoryOK, peopleVars
  <2> QED BY <1>2, <2>1, <2>2, TypePartsNext
<1>3. ASSUME ExpireOld PROVE InvitesOK'
    BY <1>3, ExpireTypes DEF ExpireOld, InvitesOK
<1>4. ASSUME UNCHANGED inviteVars PROVE InvitesOK'
    BY <1>1, <1>4 DEF inviteVars, InvitesOK, Open
<1>5. CASE \E i \in Invites : CompleteInvitation(c, i) \/ AcceptInvitation(c, i)
    BY <1>1, <1>2, <1>3, <1>5, JobFacts DEF CompleteInvitation, AcceptInvitation, PeopleOK
<1>6. CASE \E p \in Applicants : ApproveApplication(c, p) \/ SubmitAutoApproved(c, p)
  <2>1. PICK p \in Applicants : ApproveApplication(c, p) \/ SubmitAutoApproved(c, p)
      BY <1>6
  <2>2. /\ application' = [application EXCEPT ![p] = "APPROVED"]
        /\ Start(c, <<"approve", p>>) /\ UNCHANGED inviteVars
      BY <2>1 DEF ApproveApplication, SubmitAutoApproved
  <2>3. application' \in [Applicants -> {"NONE", "PENDING", "APPROVED", "REJECTED"}]
      BY <1>1, <2>2 DEF PeopleOK
  <2> QED BY <1>2, <1>4, <2>2, <2>3, JobFacts
<1>7. CASE \E p \in People : AddAffiliate(c, p)
    BY <1>1, <1>2, <1>4, <1>7, JobFacts DEF AddAffiliate, PeopleOK
<1> QED BY <1>5, <1>6, <1>7

\* A call ends, or goes on to join.
LEMMA EnrollTypes ==
    ASSUME CapacityTypeOK, NEW c \in Callers, stage[c] # "idle", EnrollNow(c),
           memberships[Person(job[c])] < MaxMemberships
    PROVE  CallsOK' /\ memberships' \in [People -> 0..MaxMemberships]
<1>1. PeopleOK /\ CallsOK
    BY TypeParts
<1>2. job[c] \in Jobs /\ Person(job[c]) \in People
    BY <1>1, JobFacts DEF CallsOK
<1>3. memberships' \in [People -> 0..MaxMemberships]
    BY <1>1, <1>2, CapacityAssumption DEF EnrollNow, PeopleOK
<1>4. CallsOK'
    BY <1>1, <1>2, JobFacts DEF EnrollNow, Finish, CallsOK
<1> QED BY <1>3, <1>4

\* A handler that is past the limit is refused, enrols, or goes on to look for the record.
LEMMA AdmitTypes ==
    ASSUME CapacityTypeOK, NEW c \in Callers, stage[c] # "idle", Admit(c)
    PROVE  CallsOK' /\ PeopleOK' /\ overlapped' \subseteq People
<1>1. PeopleOK /\ CallsOK /\ HistoryOK
    BY TypeParts
<1>2. job[c] \in Jobs /\ Person(job[c]) \in People
    BY <1>1, JobFacts DEF CallsOK
<1>3. CASE Ineligible(Person(job[c]))
  <2>1. Finish(c) /\ memberships' = memberships /\ overlapped' = overlapped
      BY <1>3 DEF Admit
  <2>2. CallsOK'
      BY <1>1, <2>1, JobFacts DEF Finish, CallsOK
  <2> QED BY <1>1, <2>1, <2>2 DEF Admit, PeopleOK, HistoryOK
<1>4. CASE ~Ineligible(Person(job[c])) /\ HasRecord(Person(job[c]))
  <2>1. EnrollNow(c) /\ memberships[Person(job[c])] < MaxMemberships /\ overlapped' = overlapped
      BY <1>4 DEF Admit
  <2> QED BY <1>1, <2>1, EnrollTypes DEF Admit, PeopleOK, HistoryOK
<1>5. CASE ~Ineligible(Person(job[c])) /\ ~HasRecord(Person(job[c]))
  <2>1. /\ stage' = [stage EXCEPT ![c] = "checked"] /\ UNCHANGED <<memberships, job>>
        /\ overlapped' = overlapped \/ overlapped' = overlapped \cup {Person(job[c])}
      BY <1>5 DEF Admit
  <2>2. CallsOK'
      BY <1>1, <1>2, <2>1, JobFacts DEF CallsOK
  <2> QED BY <1>1, <1>2, <2>1, <2>2 DEF Admit, PeopleOK, HistoryOK
<1> QED BY <1>3, <1>4, <1>5

LEMMA TurnTypes ==
    ASSUME CapacityTypeOK, strained' \in BOOLEAN, NEW c \in Callers,
           \/ TakeLock(c) \/ TakeLockAndLook(c) \/ AssertCanCreate(c) \/ RefuseByLimit(c)
           \/ CreateRecord(c) \/ Join(c)
    PROVE  CapacityTypeOK'
<1>1. PeopleOK /\ InvitesOK /\ CallsOK /\ SettingOK /\ AddonsOK /\ HistoryOK
    BY TypeParts
<1>2. ASSUME UNCHANGED inviteVars PROVE InvitesOK'
    BY <1>1, <1>2 DEF inviteVars, InvitesOK, Open
<1>3. ASSUME UNCHANGED <<settingVars, addonVars>> PROVE SettingOK' /\ AddonsOK'
    BY <1>1, <1>3 DEF addonVars, settingVars, SettingOK, AddonsOK
<1>4. ASSUME UNCHANGED historyVars PROVE HistoryOK'
    BY <1>1, <1>4 DEF historyVars, HistoryOK
<1>5. stage[c] # "idle" => job[c] \in Jobs /\ Person(job[c]) \in People
    BY <1>1, JobFacts DEF CallsOK
<1>6. ASSUME Finish(c) PROVE CallsOK'
    BY <1>1, <1>6, JobFacts DEF Finish, CallsOK
<1>7. CASE TakeLock(c) \/ AssertCanCreate(c)
  <2>1. stage[c] # "idle" /\ Admit(c)
      BY <1>7 DEF TakeLock, AssertCanCreate
  <2>2. CallsOK' /\ PeopleOK' /\ overlapped' \subseteq People
      BY <2>1, AdmitTypes
  <2>3. UNCHANGED <<inviteVars, settingVars, addonVars, repeated, crossed, revived>>
      BY <2>1 DEF Admit
  <2>4. HistoryOK'
      BY <1>1, <2>2, <2>3 DEF HistoryOK
  <2> QED BY <1>2, <1>3, <2>2, <2>3, <2>4, TypePartsNext
<1>8. CASE TakeLockAndLook(c)
  <2>1. CallsOK' /\ PeopleOK'
      BY <1>1, <1>8, JobFacts DEF TakeLockAndLook, CallsOK, PeopleOK, peopleVars
  <2> QED BY <1>2, <1>3, <1>4, <1>8, <2>1, TypePartsNext DEF TakeLockAndLook
<1>9. CASE RefuseByLimit(c)
  <2>1. CallsOK' /\ PeopleOK'
      BY <1>1, <1>6, <1>9 DEF RefuseByLimit, PeopleOK, peopleVars
  <2> QED BY <1>2, <1>3, <1>4, <1>9, <2>1, TypePartsNext DEF RefuseByLimit
<1>10. CASE CreateRecord(c)
  <2>1. CallsOK' /\ memberships' \in [People -> 0..MaxMemberships]
      BY <1>10, EnrollTypes DEF CreateRecord
  <2>2. PeopleOK'
      BY <1>1, <1>5, <1>10, <2>1 DEF CreateRecord, PeopleOK
  <2> QED BY <1>2, <1>3, <1>4, <1>10, <2>1, <2>2, TypePartsNext DEF CreateRecord
<1>11. CASE Join(c)
  <2>1. CallsOK' /\ PeopleOK'
      BY <1>1, <1>6, <1>11 DEF Join, PeopleOK, peopleVars
  <2>2. job[c][2] \in Invites
      BY <1>1, <1>5, <1>11, JobFacts DEF Join, CallsOK
  <2>3. InvitesOK'
      BY <1>1, <1>11, <2>2 DEF Join, InvitesOK, Open
  <2> QED BY <1>3, <1>4, <1>11, <2>1, <2>3, TypePartsNext DEF Join
<1> QED BY <1>7, <1>8, <1>9, <1>10, <1>11

\* Invitations, applications and the status of affiliates.
LEMMA InviteTypes ==
    ASSUME CapacityTypeOK, strained' \in BOOLEAN,
           \/ \E i \in Invites :
                 \/ BulkInvite(i) \/ ResendInvitation(i)
                 \/ AcceptAsMember(i) \/ Invite(i) \/ RevokeInvitation(i) \/ DeclineInvitation(i)
                 \/ AcceptTerms(i) \/ InvitationLapses(i)
           \/ ListInvitations
    PROVE  CapacityTypeOK'
<1>1. PeopleOK /\ InvitesOK /\ CallsOK /\ SettingOK /\ AddonsOK /\ HistoryOK
    BY TypeParts
<1>2. ASSUME UNCHANGED <<peopleVars, application, callVars, settingVars, addonVars,
                         repeated, overlapped, revived>>,
             crossed' \subseteq Invites, InvitesOK'
      PROVE  CapacityTypeOK'
  <2>1. PeopleOK' /\ CallsOK' /\ SettingOK' /\ AddonsOK' /\ HistoryOK'
      BY <1>1, <1>2 DEF PeopleOK, CallsOK, SettingOK, AddonsOK, HistoryOK, peopleVars, callVars,
                        settingVars, addonVars
  <2> QED BY <1>2, <2>1, TypePartsNext
<1>3. CASE ListInvitations
  <2>1. InvitesOK'
      BY <1>3, ExpireTypes DEF ListInvitations, ExpireOld, InvitesOK
  <2> QED BY <1>1, <1>2, <1>3, <2>1 DEF ListInvitations, historyVars, HistoryOK
<1>4. ASSUME NEW i \in Invites,
             \/ BulkInvite(i) \/ ResendInvitation(i) \/ Invite(i)
             \/ AcceptAsMember(i) \/ AcceptTerms(i) \/ InvitationLapses(i)
      PROVE  CapacityTypeOK'
  <2>1. CASE BulkInvite(i) \/ ResendInvitation(i) \/ Invite(i)
    <3>1. PutInvitation(i)
        BY <2>1 DEF BulkInvite, ResendInvitation, Invite
    <3>2. InvitesOK'
        BY <1>1, <3>1 DEF PutInvitation, InvitesOK, Open
    <3> QED BY <1>1, <1>2, <3>1, <3>2 DEF PutInvitation, historyVars, HistoryOK
  <2>2. CASE AcceptAsMember(i) \/ AcceptTerms(i)
    <3>1. InvitesOK'
        BY <2>2, ExpireTypes DEF AcceptAsMember, AcceptTerms, InvitesOK
    <3> QED BY <1>1, <1>2, <2>2, <3>1 DEF AcceptAsMember, AcceptTerms, historyVars, HistoryOK
  <2>3. CASE InvitationLapses(i)
    <3>1. InvitesOK'
        BY <1>1, <2>3 DEF InvitationLapses, InvitesOK, Open
    <3> QED BY <1>1, <1>2, <2>3, <3>1 DEF InvitationLapses, historyVars, HistoryOK
  <2> QED BY <1>4, <2>1, <2>2, <2>3
<1>5. ASSUME NEW i \in Invites, RevokeInvitation(i) \/ DeclineInvitation(i)
      PROVE  CapacityTypeOK'
  <2>1. Withdraw(i, "REVOKED") \/ Withdraw(i, "DECLINED")
      BY <1>5 DEF RevokeInvitation, DeclineInvitation
  <2>2. InvitesOK'
      BY <1>1, <2>1 DEF Withdraw, InvitesOK, Open
  <2> QED BY <1>1, <1>2, <2>1, <2>2 DEF Withdraw, HistoryOK
<1> QED BY <1>3, <1>4, <1>5

LEMMA PeopleTypes ==
    ASSUME CapacityTypeOK, strained' \in BOOLEAN,
           \/ \E p \in Applicants : SubmitApplication(p) \/ RejectApplication(p)
           \/ \E p \in People : SetStatus(p, "ACTIVE") \/ SetStatus(p, "SUSPENDED")
    PROVE  CapacityTypeOK'
<1>1. PeopleOK /\ InvitesOK /\ CallsOK /\ SettingOK /\ AddonsOK /\ HistoryOK
    BY TypeParts
<1>2. ASSUME UNCHANGED <<inviteVars, callVars, settingVars, addonVars, historyVars>>, PeopleOK'
      PROVE  CapacityTypeOK'
  <2>1. InvitesOK' /\ CallsOK' /\ SettingOK' /\ AddonsOK' /\ HistoryOK'
      BY <1>1, <1>2
         DEF InvitesOK, Open, CallsOK, SettingOK, AddonsOK, HistoryOK, inviteVars, callVars,
             settingVars, addonVars, historyVars
  <2> QED BY <1>2, <2>1, TypePartsNext
<1>3. ASSUME NEW p \in Applicants, SubmitApplication(p) \/ RejectApplication(p)
      PROVE  CapacityTypeOK'
  <2>1. PeopleOK'
      BY <1>1, <1>3 DEF SubmitApplication, RejectApplication, PeopleOK, peopleVars
  <2> QED BY <1>2, <1>3, <2>1 DEF SubmitApplication, RejectApplication
<1>4. ASSUME NEW p \in People, SetStatus(p, "ACTIVE") \/ SetStatus(p, "SUSPENDED")
      PROVE  CapacityTypeOK'
  <2>1. PeopleOK'
      BY <1>1, <1>4 DEF SetStatus, PeopleOK
  <2> QED BY <1>2, <1>4, <2>1 DEF SetStatus
<1> QED BY <1>3, <1>4

\* The plan and the add-ons.
AddonStep ==
    \/ \E to \in Plans : ChangePlan(to)
    \/ \E o \in Orders :
          \/ \E n \in 0..MaxQuantity : UpdateQuantity(o, n)
          \/ CancelImmediately(o) \/ PeriodEnds(o)
          \/ \E n \in 1..MaxQuantity : PurchaseAddon(o, n)
          \/ \E report \in {"captured", "failed"} : Pay(o, report)
          \/ ActivatePurchases(o) \/ FailPurchases(o) \/ CancelAtPeriodEnd(o)
    \/ ExpireLapsedPurchases

LEMMA AddonTypes ==
    ASSUME CapacityTypeOK, strained' \in BOOLEAN, AddonStep
    PROVE  CapacityTypeOK'
<1>1. PeopleOK /\ InvitesOK /\ CallsOK /\ SettingOK /\ AddonsOK /\ HistoryOK
    BY TypeParts
<1>2. ASSUME UNCHANGED <<addonUnchanged, repeated, crossed, overlapped>>,
             revived' \subseteq Orders, SettingOK', AddonsOK'
      PROVE  CapacityTypeOK'
  <2>1. PeopleOK' /\ InvitesOK' /\ CallsOK' /\ HistoryOK'
      BY <1>1, <1>2 DEF PeopleOK, InvitesOK, Open, CallsOK, HistoryOK,
                        addonUnchanged, peopleVars, inviteVars, callVars
  <2> QED BY <1>2, <2>1, TypePartsNext
<1>3. CASE \E to \in Plans : ChangePlan(to)
  <2>1. SettingOK' /\ AddonsOK'
      BY <1>1, <1>3 DEF ChangePlan, SettingOK, AddonsOK, addonVars
  <2> QED BY <1>1, <1>2, <1>3, <2>1 DEF ChangePlan, historyVars, HistoryOK
<1>4. CASE ExpireLapsedPurchases
  <2>1. SettingOK' /\ AddonsOK'
      BY <1>1, <1>4 DEF ExpireLapsedPurchases, SettingOK, AddonsOK, settingVars
  <2> QED BY <1>1, <1>2, <1>4, <2>1 DEF ExpireLapsedPurchases, historyVars, HistoryOK
<1>5. ASSUME NEW o \in Orders, NEW n \in 0..MaxQuantity,
             UpdateQuantity(o, n) \/ (n > 0 /\ PurchaseAddon(o, n))
      PROVE  CapacityTypeOK'
  <2>1. SettingOK' /\ AddonsOK'
      BY <1>1, <1>5 DEF UpdateQuantity, PurchaseAddon, SettingOK, AddonsOK, settingVars
  <2> QED BY <1>1, <1>2, <1>5, <2>1 DEF UpdateQuantity, PurchaseAddon, historyVars, HistoryOK
<1>6. ASSUME NEW o \in Orders,
             \/ CancelImmediately(o) \/ PeriodEnds(o) \/ ActivatePurchases(o) \/ FailPurchases(o)
             \/ CancelAtPeriodEnd(o)
      PROVE  CapacityTypeOK'
  <2>1. SettingOK' /\ AddonsOK'
      BY <1>1, <1>6 DEF CancelImmediately, PeriodEnds, ActivatePurchases, FailPurchases,
                        CancelAtPeriodEnd, SettingOK, AddonsOK, settingVars
  <2> QED BY <1>1, <1>2, <1>6, <2>1
          DEF CancelImmediately, PeriodEnds, ActivatePurchases, FailPurchases,
              CancelAtPeriodEnd, historyVars, HistoryOK
<1>7. ASSUME NEW o \in Orders, NEW report \in {"captured", "failed"}, Pay(o, report)
      PROVE  CapacityTypeOK'
  <2>1. SettingOK' /\ AddonsOK'
      BY <1>1, <1>7 DEF Pay, SettingOK, AddonsOK, settingVars
  <2> QED BY <1>1, <1>2, <1>7, <2>1 DEF Pay, historyVars, HistoryOK
<1>8. \A n \in 1..MaxQuantity : n \in 0..MaxQuantity /\ n > 0
    BY CapacityAssumption
<1> QED BY <1>3, <1>4, <1>5, <1>6, <1>7, <1>8 DEF AddonStep

\* Teams and the program.
TeamStep ==
    \/ \E p \in People : AskForSeat(p) \/ TakeSeat(p) \/ LeaveTeam(p) \/ SuspendTeam(p) \/ ReopenTeam(p)
    \/ \E status \in {"ACTIVE", "PAUSED", "ARCHIVED"} : SetProgram(status)

\* How a seat may change.
Seats(p, from, to) ==
    /\ seat[p] \in from
    /\ seat' = [seat EXCEPT ![p] = to]

LEMMA TeamKinds ==
    ASSUME TeamStep
    PROVE  /\ UNCHANGED <<teamUnchanged, repeated, crossed, revived>>
           /\ \/ \E p \in People : AskForSeat(p) /\ program' = program
              \/ /\ \E p \in People : \/ Seats(p, {"ASKED", "AWAY"}, "MEMBER")
                                       \/ Seats(p, {"ASKED", "MEMBER", "AWAY"}, "NONE")
                                       \/ Seats(p, {"MEMBER"}, "AWAY")
                 /\ UNCHANGED <<program, overlapped>>
              \/ /\ program' \in {"ACTIVE", "PAUSED", "ARCHIVED"}
                 /\ UNCHANGED <<seat, overlapped>>
<1>1. ASSUME NEW p \in People, AskForSeat(p)
      PROVE  UNCHANGED <<teamUnchanged, repeated, crossed, revived>> /\ program' = program
    BY <1>1 DEF AskForSeat
<1>2. ASSUME NEW p \in People, TakeSeat(p) \/ LeaveTeam(p) \/ SuspendTeam(p) \/ ReopenTeam(p)
      PROVE  /\ UNCHANGED <<teamUnchanged, repeated, crossed, revived>>
             /\ \/ Seats(p, {"ASKED", "AWAY"}, "MEMBER")
                \/ Seats(p, {"ASKED", "MEMBER", "AWAY"}, "NONE")
                \/ Seats(p, {"MEMBER"}, "AWAY")
             /\ UNCHANGED <<program, overlapped>>
    BY <1>2 DEF TakeSeat, LeaveTeam, SuspendTeam, ReopenTeam, MoveSeat, Seats, historyVars
<1>3. ASSUME NEW status \in {"ACTIVE", "PAUSED", "ARCHIVED"}, SetProgram(status)
      PROVE  /\ UNCHANGED <<teamUnchanged, repeated, crossed, revived>>
             /\ program' \in {"ACTIVE", "PAUSED", "ARCHIVED"} /\ UNCHANGED <<seat, overlapped>>
    BY <1>3 DEF SetProgram, historyVars
<1> QED BY <1>1, <1>2, <1>3 DEF TeamStep

LEMMA TeamTypes ==
    ASSUME CapacityTypeOK, strained' \in BOOLEAN, TeamStep
    PROVE  CapacityTypeOK'
<1>1. PeopleOK /\ InvitesOK /\ CallsOK /\ SettingOK /\ AddonsOK /\ HistoryOK
    BY TypeParts
<1>2. UNCHANGED <<teamUnchanged, repeated, crossed, revived>>
    BY TeamKinds
<1>3. PeopleOK' /\ InvitesOK' /\ CallsOK' /\ AddonsOK'
    BY <1>1, <1>2 DEF PeopleOK, InvitesOK, Open, CallsOK, AddonsOK, teamUnchanged, peopleVars,
                      inviteVars, callVars, addonVars
<1>4. SettingOK' /\ overlapped' \subseteq People
  <2>1. plan' = plan
      BY <1>2 DEF teamUnchanged
  <2>2. CASE \E p \in People : AskForSeat(p) /\ program' = program
      BY <1>1, <2>1, <2>2 DEF AskForSeat, SettingOK, HistoryOK
  <2>3. CASE ~\E p \in People : AskForSeat(p) /\ program' = program
      BY <1>1, <2>1, <2>3, TeamKinds DEF Seats, SettingOK, HistoryOK
  <2> QED BY <2>2, <2>3
<1> QED BY <1>1, <1>2, <1>3, <1>4, TypePartsNext DEF HistoryOK

LEMMA TypeStep ==
    ASSUME CapacityTypeOK, [CapacityNext]_capacityVars
    PROVE  CapacityTypeOK'
<1>1. CASE CapacityNext
  <2>1. strained' \in BOOLEAN
      BY <1>1 DEF CapacityNext, CapacityTypeOK
  <2>2. CASE CheckedStep
      BY <2>1, <2>2, CallTypes, TurnTypes, InviteTypes, PeopleTypes, AddonTypes, TeamTypes
         DEF CheckedStep, AddonStep, TeamStep
  <2>3. CASE UncheckedStep
      BY <2>1, <2>3, InviteTypes, PeopleTypes, AddonTypes DEF UncheckedStep, AddonStep
  <2> QED BY <1>1, <2>2, <2>3 DEF CapacityNext
<1>2. CASE UNCHANGED capacityVars
    BY <1>2 DEF capacityVars, peopleVars, inviteVars, callVars, settingVars, addonVars,
                historyVars, CapacityTypeOK, Open
<1> QED BY <1>1, <1>2

\* Everything keeps its type: among other things only an open invitation is past its
\* date, and a call has a subject exactly while it runs.
THEOREM CapacityTypeCorrect == CapacitySafety => []CapacityTypeOK
<1>1. ASSUME CapacityInit
      PROVE  CapacityTypeOK
  <2>1. PeopleOK /\ InvitesOK
      BY <1>1, CapacityAssumption DEF CapacityInit, PeopleOK, InvitesOK
  <2>2. CallsOK
      BY <1>1 DEF CapacityInit, CallsOK
  <2>3. SettingOK /\ AddonsOK
      BY <1>1, CapacityAssumption DEF CapacityInit, SettingOK, AddonsOK, Plans
  <2>4. HistoryOK
      BY <1>1 DEF CapacityInit, HistoryOK
  <2> QED BY <2>1, <2>2, <2>3, <2>4, TypeParts
<1>2. CapacityTypeOK /\ [CapacityNext]_capacityVars => CapacityTypeOK'
    BY TypeStep
<1> QED BY <1>1, <1>2, PTL DEF CapacitySafety

-----------------------------------------------------------------------------
(* Which step changes what *)

\* A call begins; acceptInvitationForEmail asks whether the person is a member.
Begins(c, j) == j \in Jobs /\ Start(c, j) /\ (j[1] = "accept" => ~Member(Person(j)))

CallTurn(c) ==
    \/ TakeLock(c) \/ TakeLockAndLook(c) \/ AssertCanCreate(c) \/ RefuseByLimit(c)
    \/ CreateRecord(c) \/ Join(c)
CallStart(c) ==
    \/ \E i \in Invites : CompleteInvitation(c, i) \/ AcceptInvitation(c, i)
    \/ \E p \in Applicants : ApproveApplication(c, p) \/ SubmitAutoApproved(c, p)
    \/ \E p \in People : AddAffiliate(c, p)
InviteStep ==
    \/ \E i \in Invites :
          \/ BulkInvite(i) \/ ResendInvitation(i)
          \/ AcceptAsMember(i) \/ Invite(i) \/ RevokeInvitation(i) \/ DeclineInvitation(i)
          \/ AcceptTerms(i) \/ InvitationLapses(i)
    \/ ListInvitations
PeopleStep ==
    \/ \E p \in Applicants : SubmitApplication(p) \/ RejectApplication(p)
    \/ \E p \in People : SetStatus(p, "ACTIVE") \/ SetStatus(p, "SUSPENDED")

LEMMA StepKinds ==
    ASSUME CapacityNext
    PROVE  \/ \E c \in Callers : CallStart(c) \/ CallTurn(c)
           \/ InviteStep \/ PeopleStep \/ AddonStep \/ TeamStep
<1>1. CASE CheckedStep
    BY <1>1 DEF CheckedStep, CallStart, CallTurn, InviteStep, PeopleStep, AddonStep, TeamStep
<1>2. CASE UncheckedStep
    BY <1>2 DEF UncheckedStep, InviteStep, PeopleStep, AddonStep
<1> QED BY <1>1, <1>2 DEF CapacityNext

LEMMA StartKinds ==
    ASSUME NEW c \in Callers, CallStart(c)
    PROVE  \E j \in Jobs : Begins(c, j)
<1>1. ASSUME NEW i \in Invites, CompleteInvitation(c, i)
      PROVE  Begins(c, <<"complete", i>>)
    BY <1>1, JobFacts DEF CompleteInvitation, Begins
<1>2. ASSUME NEW i \in Invites, AcceptInvitation(c, i)
      PROVE  Begins(c, <<"accept", i>>)
    BY <1>2, JobFacts DEF AcceptInvitation, Begins
<1>3. ASSUME NEW p \in Applicants, ApproveApplication(c, p) \/ SubmitAutoApproved(c, p)
      PROVE  Begins(c, <<"approve", p>>)
    BY <1>3, JobFacts DEF ApproveApplication, SubmitAutoApproved, Begins
<1>4. ASSUME NEW p \in People, AddAffiliate(c, p)
      PROVE  Begins(c, <<"add", p>>)
    BY <1>4, JobFacts DEF AddAffiliate, Begins
<1> QED BY <1>1, <1>2, <1>3, <1>4, JobFacts DEF CallStart

\* What the other kinds of steps leave alone.
LEMMA OtherFrames ==
    /\ InviteStep => UNCHANGED <<peopleVars, application, callVars, settingVars, addonVars,
                                 repeated, overlapped, revived>>
    /\ PeopleStep => UNCHANGED <<memberships, inviteVars, callVars, settingVars, addonVars, historyVars>>
    /\ AddonStep  => UNCHANGED <<peopleVars, inviteVars, application, callVars,
                                 program, seat, repeated, crossed, overlapped>>
    /\ TeamStep   => UNCHANGED <<peopleVars, inviteVars, application, callVars, plan, addonVars,
                                 repeated, crossed, revived>>
<1>1. InviteStep => UNCHANGED <<peopleVars, application, callVars, settingVars, addonVars,
                                repeated, overlapped, revived>>
    BY DEF InviteStep, BulkInvite, ResendInvitation, AcceptAsMember, Invite, RevokeInvitation,
           DeclineInvitation, Withdraw, AcceptTerms, InvitationLapses, ListInvitations,
           PutInvitation, historyVars
<1>2. PeopleStep => UNCHANGED <<memberships, inviteVars, callVars, settingVars, addonVars, historyVars>>
    BY DEF PeopleStep, SubmitApplication, RejectApplication, SetStatus, peopleVars
<1>3. AddonStep => UNCHANGED <<peopleVars, inviteVars, application, callVars,
                               program, seat, repeated, crossed, overlapped>>
    BY DEF AddonStep, ChangePlan, UpdateQuantity, CancelImmediately, PeriodEnds, PurchaseAddon,
           Pay, ActivatePurchases, FailPurchases, CancelAtPeriodEnd, ExpireLapsedPurchases,
           addonUnchanged, settingVars, historyVars
<1>4. TeamStep => UNCHANGED <<peopleVars, inviteVars, application, callVars, plan, addonVars,
                              repeated, crossed, revived>>
    BY TeamKinds DEF teamUnchanged
<1> QED BY <1>1, <1>2, <1>3, <1>4

LEMMA CallFrame ==
    ASSUME NEW c \in Callers, CallStart(c) \/ CallTurn(c)
    PROVE  UNCHANGED <<settingVars, addonVars, crossed, revived>>
BY DEF CallStart, CallTurn, CompleteInvitation, AcceptInvitation, ApproveApplication,
       SubmitAutoApproved, AddAffiliate, Start, TakeLock, TakeLockAndLook, AssertCanCreate, Admit,
       RefuseByLimit, CreateRecord, Join, historyVars

-----------------------------------------------------------------------------
(* Add-ons *)

\* A purchase that may grant units was paid, or was cancelled unpaid.
PaidInv ==
    \A o \in Orders :
        purchase[o] \in {"ACTIVE", "CANCEL_PENDING"} => "captured" \in provider[o] \/ o \in revived

\* Add-on units count only when Razorpay captured the payment of their purchase, or when
\* the purchase was cancelled to the end of the period while it granted nothing.
THEOREM GrantedWasPaid == CapacitySafety => []GrantedIsPaid
<1>1. CapacityInit => PaidInv
    BY DEF CapacityInit, PaidInv
<1>2. ASSUME CapacityTypeOK, PaidInv, [CapacityNext]_capacityVars
      PROVE  PaidInv'
  <2>1. AddonsOK
      BY <1>2, TypeParts
  <2>2. CASE UNCHANGED <<addonVars, revived>>
      BY <1>2, <2>2 DEF PaidInv, addonVars
  <2>3. CASE AddonStep
    <3>1. CASE \E o \in Orders : CancelAtPeriodEnd(o)
        BY <1>2, <2>1, <3>1 DEF CancelAtPeriodEnd, PaidInv, AddonsOK
    <3>2. CASE \E o \in Orders : \/ CancelImmediately(o) \/ PeriodEnds(o)
                                 \/ ActivatePurchases(o) \/ FailPurchases(o)
        BY <1>2, <2>1, <3>2
           DEF CancelImmediately, PeriodEnds, ActivatePurchases, FailPurchases, PaidInv, AddonsOK,
               historyVars
    <3>3. CASE \E o \in Orders, n \in 0..MaxQuantity : UpdateQuantity(o, n)
        BY <1>2, <2>1, <3>3 DEF UpdateQuantity, PaidInv, AddonsOK, historyVars
    <3>4. CASE \E o \in Orders, n \in 1..MaxQuantity : PurchaseAddon(o, n)
        BY <1>2, <2>1, <3>4 DEF PurchaseAddon, PaidInv, AddonsOK, historyVars
    <3>5. CASE \E o \in Orders, report \in {"captured", "failed"} : Pay(o, report)
        BY <1>2, <2>1, <3>5 DEF Pay, PaidInv, AddonsOK, historyVars
    <3>6. CASE ExpireLapsedPurchases \/ \E to \in Plans : ChangePlan(to)
        BY <1>2, <2>1, <3>6
           DEF ExpireLapsedPurchases, ChangePlan, PaidInv, AddonsOK, addonVars, historyVars
    <3> QED BY <2>3, <3>1, <3>2, <3>3, <3>4, <3>5, <3>6 DEF AddonStep
  <2>4. UNCHANGED <<addonVars, revived>> \/ AddonStep
      BY <1>2, StepKinds, OtherFrames, CallFrame DEF capacityVars, historyVars
  <2> QED BY <2>2, <2>3, <2>4
<1>3. PaidInv => GrantedIsPaid
    BY DEF PaidInv, GrantedIsPaid, Grants
<1> QED BY <1>1, <1>2, <1>3, CapacityTypeCorrect, PTL DEF CapacitySafety

-----------------------------------------------------------------------------
(* Memberships *)

Works(c) == stage[c] \notin {"idle", "joining"}
WorksFor(c, p) == Works(c) /\ Person(job[c]) = p

\* A person for whom create was not called again is enrolled by one handler at most, and
\* was not enrolled before.
MemberInv ==
    \A p \in People \ repeated :
        /\ memberships[p] <= 1
        /\ \A c, d \in Callers : WorksFor(c, p) /\ WorksFor(d, p) => c = d
        /\ \A c \in Callers : WorksFor(c, p) => memberships[p] = 0

\* How a caller's turn goes on: it stays, leaves, or enrols its person and leaves.
LEMMA TurnKinds ==
    ASSUME CapacityTypeOK, NEW c \in Callers, CallTurn(c)
    PROVE  /\ stage[c] # "idle"
           /\ \A d \in Callers \ {c} : stage'[d] = stage[d] /\ job'[d] = job[d]
           /\ repeated' = repeated
           /\ \/ Works(c) /\ job'[c] = job[c] /\ memberships' = memberships
              \/ stage'[c] \in {"idle", "joining"} /\ memberships' = memberships
              \/ /\ Works(c) /\ stage'[c] \in {"idle", "joining"}
                 /\ memberships' = [memberships EXCEPT ![Person(job[c])] = @ + 1]
<1>1. CallsOK
    BY TypeParts
<1>2. CASE TakeLock(c) \/ AssertCanCreate(c)
  <2>1. Works(c) /\ Admit(c) /\ stage[c] # "idle" /\ repeated' = repeated
      BY <1>2 DEF TakeLock, AssertCanCreate, Works, Admit
  <2>2. CASE Ineligible(Person(job[c]))
      BY <1>1, <2>1, <2>2 DEF Admit, Finish, CallsOK
  <2>3. CASE ~Ineligible(Person(job[c])) /\ HasRecord(Person(job[c]))
      BY <1>1, <2>1, <2>3 DEF Admit, EnrollNow, Finish, CallsOK
  <2>4. CASE ~Ineligible(Person(job[c])) /\ ~HasRecord(Person(job[c]))
      BY <1>1, <2>1, <2>4 DEF Admit, CallsOK
  <2> QED BY <2>2, <2>3, <2>4
<1>3. CASE TakeLockAndLook(c)
    BY <1>1, <1>3 DEF TakeLockAndLook, CallsOK, Works, historyVars, peopleVars
<1>4. CASE RefuseByLimit(c)
    BY <1>1, <1>4 DEF RefuseByLimit, Finish, CallsOK, peopleVars, historyVars
<1>5. CASE CreateRecord(c)
    BY <1>1, <1>5 DEF CreateRecord, EnrollNow, Finish, CallsOK, Works, historyVars
<1>6. CASE Join(c)
    BY <1>1, <1>6 DEF Join, Finish, CallsOK, peopleVars, historyVars
<1> QED BY <1>2, <1>3, <1>4, <1>5, <1>6 DEF CallTurn

\* Two handlers, a retry or an acceptance beside an approval enrol a person once, as long
\* as each of them asks first whether the person is a member.
THEOREM OneMembershipEach == CapacitySafety => []OneMembership
<1>1. CapacityInit => MemberInv
    BY DEF CapacityInit, MemberInv, WorksFor, Works
<1>2. ASSUME CapacityTypeOK, MemberInv, [CapacityNext]_capacityVars
      PROVE  MemberInv'
  <2>1. PeopleOK /\ CallsOK
      BY <1>2, TypeParts
  <2>2. CASE UNCHANGED <<memberships, callVars, repeated>>
      BY <1>2, <2>2 DEF MemberInv, WorksFor, Works, callVars
  <2>3. ASSUME NEW c \in Callers, NEW j \in Jobs, Begins(c, j)
        PROVE  MemberInv'
    <3>1. /\ memberships' = memberships /\ repeated \subseteq repeated'
          /\ stage'[c] = "waiting" /\ job'[c] = j
          /\ \A d \in Callers \ {c} : stage'[d] = stage[d] /\ job'[d] = job[d]
        BY <2>1, <2>3 DEF Begins, Start, peopleVars, CallsOK
    <3>2. Person(j) \notin repeated' => ~Busy(Person(j)) /\ ~Member(Person(j))
        BY <2>3 DEF Begins, Start
    <3>3. ASSUME NEW p \in People, p \notin repeated'
          PROVE  /\ memberships'[p] <= 1
                 /\ \A d, e \in Callers : WorksFor(d, p)' /\ WorksFor(e, p)' => d = e
                 /\ \A d \in Callers : WorksFor(d, p)' => memberships'[p] = 0
      <4>1. p \notin repeated /\ memberships[p] \in Nat
          BY <3>1, <3>3, <2>1, CapacityAssumption DEF PeopleOK
      <4>2. CASE p = Person(j)
        <5>1. \A d \in Callers : ~WorksFor(d, p)
            BY <3>2, <3>3, <4>2 DEF Busy, WorksFor, Works
        <5>2. memberships[p] = 0
            BY <3>2, <3>3, <4>1, <4>2 DEF Member
        <5> QED BY <3>1, <5>1, <5>2 DEF WorksFor, Works
      <4>3. CASE p # Person(j)
        <5>1. \A d \in Callers : WorksFor(d, p)' => WorksFor(d, p)
            BY <3>1, <4>3 DEF WorksFor, Works
        <5> QED BY <1>2, <3>1, <4>1, <5>1 DEF MemberInv
      <4> QED BY <4>2, <4>3
    <3> QED BY <3>3 DEF MemberInv
  <2>4. ASSUME NEW c \in Callers, CallTurn(c)
        PROVE  MemberInv'
    <3>1. \A d \in Callers \ {c}, p \in People : WorksFor(d, p)' <=> WorksFor(d, p)
        BY <1>2, <2>4, TurnKinds DEF WorksFor, Works
    <3>2. repeated' = repeated
        BY <1>2, <2>4, TurnKinds
    <3>3. CASE Works(c) /\ job'[c] = job[c] /\ memberships' = memberships
        BY <1>2, <3>1, <3>2, <3>3 DEF MemberInv, WorksFor
    <3>4. CASE stage'[c] \in {"idle", "joining"} /\ memberships' = memberships
      <4>1. \A p \in People : ~WorksFor(c, p)'
          BY <3>4 DEF WorksFor, Works
      <4> QED BY <1>2, <3>1, <3>2, <3>4, <4>1 DEF MemberInv
    <3>5. CASE /\ Works(c) /\ stage'[c] \in {"idle", "joining"}
               /\ memberships' = [memberships EXCEPT ![Person(job[c])] = @ + 1]
      <4>1. \A p \in People : ~WorksFor(c, p)'
          BY <3>5 DEF WorksFor, Works
      <4>2. ASSUME NEW p \in People, p \notin repeated'
            PROVE  /\ memberships'[p] <= 1
                   /\ \A d \in Callers : WorksFor(d, p)' => memberships'[p] = 0
        <5>1. CASE p = Person(job[c])
          <6>1. memberships[p] = 0 /\ \A d \in Callers : WorksFor(d, p) => d = c
              BY <1>2, <3>2, <3>5, <4>2, <5>1 DEF MemberInv, WorksFor
          <6>2. memberships'[p] = 1
              BY <2>1, <3>5, <5>1, <6>1 DEF PeopleOK
          <6> QED BY <3>1, <4>1, <6>1, <6>2
        <5>2. CASE p # Person(job[c])
          <6>1. memberships'[p] = memberships[p]
              BY <2>1, <3>5, <5>2 DEF PeopleOK
          <6> QED BY <1>2, <3>1, <3>2, <4>1, <4>2, <6>1 DEF MemberInv
        <5> QED BY <5>1, <5>2
      <4>3. \A p \in People \ repeated', d, e \in Callers :
               WorksFor(d, p)' /\ WorksFor(e, p)' => d = e
          BY <1>2, <3>1, <3>2, <4>1 DEF MemberInv
      <4> QED BY <4>2, <4>3 DEF MemberInv
    <3> QED BY <1>2, <2>4, <3>3, <3>4, <3>5, TurnKinds
  <2> QED BY <1>2, <2>2, <2>3, <2>4, StepKinds, StartKinds, OtherFrames
          DEF capacityVars, peopleVars, historyVars
<1>3. MemberInv => OneMembership
    BY DEF MemberInv, OneMembership
<1> QED BY <1>1, <1>2, <1>3, CapacityTypeCorrect, PTL DEF CapacitySafety

-----------------------------------------------------------------------------
(* Teams *)

\* A person whose joining and whose enrolment did not overlap has no seat once it has, or
\* is about to get, a record.
TeamInv ==
    \A p \in People \ overlapped : HasRecord(p) \/ BeingCreated(p) => seat[p] = "NONE"

\* A step that makes nobody an affiliate and gives nobody a seat.
LEMMA TeamFrame ==
    ASSUME TeamInv, overlapped \subseteq overlapped',
           \A p \in People : HasRecord(p)' => HasRecord(p) \/ BeingCreated(p),
           \A p \in People : BeingCreated(p)' => BeingCreated(p),
           \A p \in People : seat[p] = "NONE" => seat'[p] = "NONE"
    PROVE  TeamInv'
BY DEF TeamInv

\* Who is being created after a turn of a handler: whoever was, unless this one just
\* looked at the seat of its person.
LEMMA CreatedAfter ==
    ASSUME CapacityTypeOK, NEW c \in Callers, CallTurn(c), NEW p \in People, BeingCreated(p)'
    PROVE  BeingCreated(p) \/ (stage'[c] = "checked" /\ Person(job'[c]) = p)
<1>1. PICK d \in Callers : stage'[d] = "checked" /\ Person(job'[d]) = p
    BY DEF BeingCreated
<1>2. d # c => stage[d] = stage'[d] /\ job[d] = job'[d]
    BY TurnKinds
<1> QED BY <1>1, <1>2 DEF BeingCreated

\* An affiliate is no active member of a team and the other way round, unless the two
\* requests overlapped: affiliates are created and seats are taken behind a wait, without
\* a second look (createAffiliateRecord, acceptInvitationForUser).
THEOREM AffiliatesNotOnTeams == CapacitySafety => []NotBoth
<1>1. CapacityInit => TeamInv
    BY DEF CapacityInit, TeamInv
<1>2. ASSUME CapacityTypeOK, TeamInv, [CapacityNext]_capacityVars
      PROVE  TeamInv'
  <2>1. PeopleOK /\ CallsOK /\ SettingOK
      BY <1>2, TypeParts
  <2>2. CASE InviteStep \/ AddonStep \/ UNCHANGED capacityVars
    <3>1. UNCHANGED <<affiliate, callVars, seat, overlapped>>
      <4>1. CASE InviteStep
          BY <4>1, OtherFrames DEF peopleVars, settingVars
      <4>2. CASE AddonStep
          BY <4>2, OtherFrames DEF peopleVars
      <4>3. CASE UNCHANGED capacityVars
          BY <4>3 DEF capacityVars, peopleVars, settingVars, historyVars
      <4> QED BY <2>2, <4>1, <4>2, <4>3
    <3> QED BY <1>2, <3>1 DEF TeamInv, HasRecord, BeingCreated, callVars
  <2>3. CASE PeopleStep
    <3>1. UNCHANGED <<callVars, seat, overlapped>>
        BY <2>3, OtherFrames DEF settingVars, historyVars
    <3>2. \A p \in People : HasRecord(p)' => HasRecord(p)
        BY <2>1, <2>3 DEF PeopleStep, SubmitApplication, RejectApplication, SetStatus, HasRecord,
                          PeopleOK, peopleVars
    <3> QED BY <1>2, <3>1, <3>2, TeamFrame DEF BeingCreated, callVars
  <2>4. ASSUME NEW c \in Callers, CallStart(c)
        PROVE  TeamInv'
    <3>1. PICK j \in Jobs : Start(c, j)
        BY <2>4, StartKinds DEF Begins
    <3>2. UNCHANGED <<affiliate, seat, overlapped>>
        BY <3>1 DEF Start, peopleVars, settingVars
    <3>3. \A d \in Callers : stage'[d] = "checked" => stage[d] = "checked" /\ job'[d] = job[d]
        BY <2>1, <3>1 DEF Start, CallsOK
    <3> QED BY <1>2, <3>2, <3>3, TeamFrame DEF HasRecord, BeingCreated
  <2>5. ASSUME NEW c \in Callers, CallTurn(c)
        PROVE  TeamInv'
    <3>1. seat' = seat
        BY <2>5, CallFrame DEF settingVars
    <3>2. CASE RefuseByLimit(c) \/ Join(c) \/ TakeLockAndLook(c)
      <4>1. UNCHANGED <<affiliate, overlapped>> /\ stage'[c] # "checked"
          BY <2>1, <3>2 DEF RefuseByLimit, Join, TakeLockAndLook, Finish, CallsOK, peopleVars,
                            historyVars
      <4> QED BY <1>2, <2>5, <3>1, <4>1, CreatedAfter, TeamFrame DEF HasRecord
    <3>3. CASE CreateRecord(c)
      <4>1. /\ stage[c] = "checked" /\ overlapped' = overlapped
            /\ affiliate' = [affiliate EXCEPT ![Person(job[c])] = IF @ = "NONE" THEN "ACTIVE" ELSE @]
            /\ stage'[c] # "checked"
          BY <2>1, <3>3 DEF CreateRecord, EnrollNow, Finish, CallsOK, historyVars
      <4>2. \A p \in People : HasRecord(p)' => HasRecord(p) \/ BeingCreated(p)
          BY <2>1, <4>1 DEF HasRecord, BeingCreated, PeopleOK
      <4> QED BY <1>2, <2>5, <3>1, <4>1, <4>2, CreatedAfter, TeamFrame
    <3>4. CASE TakeLock(c) \/ AssertCanCreate(c)
      <4> DEFINE q == Person(job[c])
      <4>1. Admit(c) /\ affiliate' = affiliate
          BY <3>4 DEF TakeLock, AssertCanCreate, Admit
      <4>2. CASE Ineligible(q) \/ HasRecord(q)
        <5>1. overlapped' = overlapped /\ stage'[c] # "checked"
            BY <2>1, <4>1, <4>2 DEF Admit, EnrollNow, Finish, CallsOK
        <5> QED BY <1>2, <2>5, <3>1, <4>1, <5>1, CreatedAfter, TeamFrame DEF HasRecord
      <4>3. CASE ~Ineligible(q) /\ ~HasRecord(q)
        <5>1. /\ overlapped' = IF seat[q] # "NONE" THEN overlapped \cup {q} ELSE overlapped
              /\ job' = job
            BY <4>1, <4>3 DEF Admit
        <5>2. ASSUME NEW p \in People \ overlapped', HasRecord(p)' \/ BeingCreated(p)'
              PROVE  seat'[p] = "NONE"
          <6>1. HasRecord(p) \/ BeingCreated(p) \/ p = q
              BY <1>2, <2>5, <4>1, <5>1, <5>2, CreatedAfter DEF HasRecord
          <6> QED BY <1>2, <3>1, <5>1, <5>2, <6>1 DEF TeamInv
        <5> QED BY <5>2 DEF TeamInv
      <4> QED BY <4>2, <4>3
    <3> QED BY <2>5, <3>2, <3>3, <3>4 DEF CallTurn
  <2>6. CASE TeamStep
    <3>1. UNCHANGED <<affiliate, callVars>>
        BY <2>6, OtherFrames DEF peopleVars
    <3>2. \A p \in People : /\ HasRecord(p)' <=> HasRecord(p)
                            /\ BeingCreated(p)' <=> BeingCreated(p)
        BY <3>1 DEF HasRecord, BeingCreated, callVars
    <3>3. ASSUME NEW p \in People, AskForSeat(p)
          PROVE  TeamInv'
      <4>1. /\ ~HasRecord(p) /\ seat' = [seat EXCEPT ![p] = "ASKED"]
            /\ overlapped' = IF BeingCreated(p) THEN overlapped \cup {p} ELSE overlapped
          BY <3>3 DEF AskForSeat, MayJoinTeam
      <4>2. \A q \in People \ {p} : seat'[q] = seat[q]
          BY <2>1, <4>1 DEF SettingOK
      <4> QED BY <1>2, <3>2, <4>1, <4>2 DEF TeamInv
    <3>4. CASE \A p \in People : ~AskForSeat(p)
      <4>1. overlapped' = overlapped /\ \A p \in People : seat[p] = "NONE" => seat'[p] = "NONE"
          BY <2>1, <2>6, <3>4, TeamKinds DEF Seats, SettingOK
      <4> QED BY <1>2, <3>2, <4>1, TeamFrame
    <3> QED BY <3>3, <3>4
  <2> QED BY <1>2, <2>2, <2>3, <2>4, <2>5, <2>6, StepKinds
<1>3. TeamInv => NotBoth
    BY DEF TeamInv, NotBoth
<1> QED BY <1>1, <1>2, <1>3, CapacityTypeCorrect, PTL DEF CapacitySafety

-----------------------------------------------------------------------------
(* Withdrawn invitations *)

\* Nobody is accepting an invitation that was withdrawn before its acceptance.
WithdrawnInv ==
    \A i \in Invites, c \in Callers :
        invitation[i] \in {"REVOKED", "DECLINED"} /\ i \notin crossed =>
            ~(IsAcceptance(job[c]) /\ job[c][2] = i)

\* A step that withdraws nothing and begins no acceptance.
LEMMA WithdrawnFrame ==
    ASSUME WithdrawnInv, crossed \subseteq crossed',
           \A i \in Invites :
               invitation'[i] \in {"REVOKED", "DECLINED"} => invitation[i] = invitation'[i],
           \A c \in Callers : job'[c] = job[c] \/ ~IsAcceptance(job'[c])
    PROVE  WithdrawnInv'
BY DEF WithdrawnInv

\* Whoever was declined or whose invitation was revoked does not join by it afterwards,
\* unless the two crossed (revokeInvitation looks at no acceptance that is under way).
THEOREM WithdrawnIsOut == CapacitySafety => WithdrawnStaysOut
<1> DEFINE A == \A i \in Invites :
                   invitation[i] \in {"REVOKED", "DECLINED"} /\ i \notin crossed
                       => invitation'[i] # "JOINED"
<1>1. CapacityInit => WithdrawnInv
    BY DEF CapacityInit, WithdrawnInv
<1>2. ASSUME CapacityTypeOK, WithdrawnInv, [CapacityNext]_capacityVars
      PROVE  WithdrawnInv' /\ A
  <2>1. PeopleOK /\ CallsOK /\ InvitesOK /\ HistoryOK
      BY <1>2, TypeParts
  <2>2. \A i \in Invites :
           /\ Expired[i] \in {"REVOKED", "DECLINED"} => Expired[i] = invitation[i]
           /\ invitation[i] \in {"REVOKED", "DECLINED"} => Expired[i] = invitation[i]
      BY <2>1 DEF Expired, InvitesOK, Open
  <2>3. CASE PeopleStep \/ AddonStep \/ TeamStep \/ UNCHANGED capacityVars
    <3>1. UNCHANGED <<inviteVars, callVars, crossed>>
        BY <2>3, OtherFrames DEF capacityVars, historyVars
    <3> QED BY <1>2, <3>1 DEF WithdrawnInv, inviteVars, callVars
  <2>4. ASSUME NEW c \in Callers, CallStart(c)
        PROVE  WithdrawnInv' /\ A
    <3>1. PICK j \in Jobs : Begins(c, j)
        BY <2>4, StartKinds
    <3>2. /\ job' = [job EXCEPT ![c] = j] /\ crossed' = crossed
        BY <3>1 DEF Begins, Start
    <3>3. invitation' = Expired \/ invitation' = invitation
        BY <2>4 DEF CallStart, CompleteInvitation, AcceptInvitation, ApproveApplication,
                    SubmitAutoApproved, AddAffiliate, ExpireOld, inviteVars
    <3>4. IsAcceptance(j) => Open(j[2]) /\ j[2] \in Invites
      <4>1. ASSUME NEW i \in Invites, CompleteInvitation(c, i) \/ AcceptInvitation(c, i)
            PROVE  j[2] = i /\ Open(i)
        <5>1. Start(c, <<"complete", i>>) \/ Start(c, <<"accept", i>>)
            BY <4>1 DEF CompleteInvitation, AcceptInvitation
        <5>2. job'[c] = <<"complete", i>> \/ job'[c] = <<"accept", i>>
            BY <2>1, <5>1 DEF Start, CallsOK
        <5>3. job'[c] = j
            BY <2>1, <3>2 DEF CallsOK
        <5> QED BY <4>1, <5>2, <5>3 DEF CompleteInvitation, AcceptInvitation, MayAccept,
                                   CanBeAccepted
      <4>2. ASSUME \/ \E p \in Applicants : ApproveApplication(c, p) \/ SubmitAutoApproved(c, p)
                   \/ \E p \in People : AddAffiliate(c, p)
            PROVE  ~IsAcceptance(j)
        <5>1. \E k \in {"approve", "add"}, p \in People : Start(c, <<k, p>>)
            BY <4>2, CapacityAssumption DEF ApproveApplication, SubmitAutoApproved, AddAffiliate
        <5>2. PICK k \in {"approve", "add"}, p \in People : job'[c] = <<k, p>>
            BY <2>1, <5>1 DEF Start, CallsOK
        <5>3. job'[c] = j
            BY <2>1, <3>2 DEF CallsOK
        <5> QED BY <5>2, <5>3 DEF IsAcceptance
      <4> QED BY <2>4, <4>1, <4>2 DEF CallStart
    <3>5. ASSUME NEW i \in Invites, invitation'[i] \in {"REVOKED", "DECLINED"}
          PROVE  invitation[i] = invitation'[i] /\ ~(IsAcceptance(j) /\ j[2] = i)
      <4>1. invitation[i] = invitation'[i]
          BY <2>2, <3>3, <3>5
      <4> QED BY <3>4, <3>5, <4>1 DEF Open
    <3>6. \A d \in Callers : job'[d] = IF d = c THEN j ELSE job[d]
        BY <2>1, <3>2 DEF CallsOK
    <3> QED BY <1>2, <2>2, <3>2, <3>3, <3>5, <3>6 DEF WithdrawnInv
  <2>5. ASSUME NEW c \in Callers, CallTurn(c)
        PROVE  WithdrawnInv' /\ A
    <3>1. \A d \in Callers : job'[d] = job[d] \/ ~IsAcceptance(job'[d])
        BY <2>1, <2>5, JobFacts
           DEF CallTurn, TakeLock, TakeLockAndLook, AssertCanCreate, Admit, RefuseByLimit,
               CreateRecord, Join, EnrollNow, Finish, CallsOK
    <3>2. crossed' = crossed
        BY <2>5, CallFrame
    <3>3. CASE UNCHANGED invitation
        BY <1>2, <3>1, <3>2, <3>3, WithdrawnFrame
    <3>4. CASE Join(c)
      <4>1. IsAcceptance(job[c]) /\ job[c][2] \in Invites
          BY <2>1, <3>4, JobFacts DEF Join, CallsOK
      <4>2. \A i \in Invites : invitation'[i] = IF i = job[c][2] THEN "JOINED" ELSE invitation[i]
          BY <2>1, <3>4 DEF Join, InvitesOK
      <4> QED BY <1>2, <3>1, <3>2, <4>1, <4>2, WithdrawnFrame DEF WithdrawnInv
    <3> QED BY <2>5, <3>3, <3>4
            DEF CallTurn, TakeLock, TakeLockAndLook, AssertCanCreate, Admit, RefuseByLimit,
                CreateRecord, inviteVars
  <2>6. CASE InviteStep
    <3>1. callVars' = callVars /\ job' = job
        BY <2>6, OtherFrames DEF callVars
    <3>2. CASE ListInvitations
      <4>1. invitation' = Expired /\ crossed' = crossed
          BY <3>2 DEF ListInvitations, ExpireOld, historyVars
      <4> QED BY <1>2, <2>2, <3>1, <4>1, WithdrawnFrame
    <3>3. ASSUME NEW i \in Invites, BulkInvite(i) \/ ResendInvitation(i) \/ Invite(i)
          PROVE  WithdrawnInv' /\ A
      <4>1. invitation' = [invitation EXCEPT ![i] = "PENDING"] /\ crossed' = crossed
          BY <3>3 DEF BulkInvite, ResendInvitation, Invite, PutInvitation, historyVars
      <4> QED BY <1>2, <2>1, <3>1, <4>1, WithdrawnFrame DEF InvitesOK
    <3>4. ASSUME NEW i \in Invites, AcceptAsMember(i)
          PROVE  WithdrawnInv' /\ A
      <4>1. /\ invitation' = [Expired EXCEPT ![i] = "JOINED"] /\ crossed' = crossed
            /\ invitation[i] \in {"PENDING", "TERMS_ACCEPTED"}
          BY <3>4 DEF AcceptAsMember, MayAccept, CanBeAccepted, Open, historyVars
      <4>2. \A k \in Invites : invitation'[k] = IF k = i THEN "JOINED" ELSE Expired[k]
          BY <4>1 DEF Expired
      <4>3. \A k \in Invites :
               invitation'[k] \in {"REVOKED", "DECLINED"} => invitation[k] = invitation'[k]
          BY <2>2, <4>2
      <4>4. WithdrawnInv'
          BY <1>2, <3>1, <4>1, <4>3, WithdrawnFrame
      <4>5. A
          BY <2>2, <4>1, <4>2
      <4> QED BY <4>4, <4>5
    <3>5. ASSUME NEW i \in Invites, AcceptTerms(i)
          PROVE  WithdrawnInv' /\ A
      <4>1. /\ invitation' = [Expired EXCEPT ![i] = "TERMS_ACCEPTED"] /\ crossed' = crossed
          BY <3>5 DEF AcceptTerms, historyVars
      <4>2. \A k \in Invites : invitation'[k] = IF k = i THEN "TERMS_ACCEPTED" ELSE Expired[k]
          BY <4>1 DEF Expired
      <4>3. \A k \in Invites :
               invitation'[k] \in {"REVOKED", "DECLINED"} => invitation[k] = invitation'[k]
          BY <2>2, <4>2
      <4>4. WithdrawnInv'
          BY <1>2, <3>1, <4>1, <4>3, WithdrawnFrame
      <4>5. A
          BY <2>2, <4>2
      <4> QED BY <4>4, <4>5
    <3>6. ASSUME NEW i \in Invites, InvitationLapses(i)
          PROVE  WithdrawnInv' /\ A
        BY <1>2, <3>1, <3>6, WithdrawnFrame DEF InvitationLapses, historyVars
    <3>7. ASSUME NEW i \in Invites, NEW status \in {"REVOKED", "DECLINED"}, Withdraw(i, status)
          PROVE  WithdrawnInv' /\ A
      <4>1. /\ invitation' = [invitation EXCEPT ![i] = status]
            /\ crossed' = IF \E c \in Callers : IsAcceptance(job[c]) /\ job[c][2] = i
                          THEN crossed \cup {i} ELSE crossed
          BY <3>7 DEF Withdraw
      <4>2. \A k \in Invites : invitation'[k] = IF k = i THEN status ELSE invitation[k]
          BY <2>1, <4>1 DEF InvitesOK
      <4>3. i \in crossed' \/ \A c \in Callers : ~(IsAcceptance(job[c]) /\ job[c][2] = i)
          BY <4>1
      <4>4. \A k \in Invites : k # i => (k \in crossed' <=> k \in crossed)
          BY <4>1
      <4>5. WithdrawnInv'
          BY <1>2, <3>1, <4>2, <4>3, <4>4 DEF WithdrawnInv
      <4>6. A
          BY <4>2
      <4> QED BY <4>5, <4>6
    <3> QED BY <2>6, <3>2, <3>3, <3>4, <3>5, <3>6, <3>7
            DEF InviteStep, RevokeInvitation, DeclineInvitation
  <2> QED BY <1>2, <2>3, <2>4, <2>5, <2>6, StepKinds
<1>3. CapacitySafety => [](CapacityTypeOK /\ WithdrawnInv)
    BY <1>1, <1>2, CapacityTypeCorrect, PTL DEF CapacitySafety
<1>4. CapacitySafety => [][A]_capacityVars
  <2>1. CapacityTypeOK /\ WithdrawnInv /\ [CapacityNext]_capacityVars => A
      BY <1>2
  <2> HIDE DEF A
  <2> QED BY <1>3, <2>1, PTL DEF CapacitySafety
<1> QED BY <1>4, PTL DEF WithdrawnStaysOut

-----------------------------------------------------------------------------
(* The limit *)

PersonOf(c) == Person(job[c])

\* One handler holds the lock; unless strained, the account is within its limit, and so
\* it will be with the person of the handler that passed the check.
LimitInv ==
    /\ \A c, d \in Callers : c \in Holding /\ d \in Holding => c = d
    /\ ~strained => ~Exceeded
    /\ ~strained => \A c \in Callers :
                       stage[c] = "checked" => Cardinality(Occupied \cup {PersonOf(c)}) <= Limit

\* Units of add-ons are finitely many.
LEMMA FiniteUnits ==
    ASSUME NEW S \in SUBSET (Orders \X (1..MaxQuantity))
    PROVE  IsFiniteSet(S) /\ Cardinality(S) \in Nat
<1>1. IsFiniteSet(1..MaxQuantity)
  <2>1. 1 \in Int /\ MaxQuantity \in Int
      BY CapacityAssumption
  <2> QED BY <2>1, FS_Interval
<1>2. IsFiniteSet(Orders)
    BY CapacityAssumption
<1>3. IsFiniteSet(Orders \X (1..MaxQuantity))
    BY <1>1, <1>2, FS_Product
<1>4. IsFiniteSet(S)
    BY <1>3, FS_Subset
<1> QED BY <1>4, FS_CardinalityType

\* Usage and limit are numbers.
LEMMA LimitFacts ==
    ASSUME CapacityTypeOK
    PROVE  /\ IsFiniteSet(Occupied) /\ Cardinality(Occupied) \in Nat
           /\ IsFiniteSet(Granted) /\ Cardinality(Granted) \in Nat
           /\ Included[plan] \in Nat /\ Limit \in Nat
<1>1. IsFiniteSet(Granted) /\ Cardinality(Granted) \in Nat
    BY FiniteUnits DEF Granted
<1>2. IsFiniteSet(Occupied)
    BY CapacityAssumption, FS_Subset DEF Occupied
<1>3. Included[plan] \in Nat
    BY CapacityAssumption DEF CapacityTypeOK
<1> QED BY <1>1, <1>2, <1>3, FS_CardinalityType DEF Limit

\* What the check of the limit makes room for.
LEMMA RoomForOne ==
    ASSUME CapacityTypeOK, NEW p, Cardinality(Occupied) + 1 <= Limit
    PROVE  Cardinality(Occupied \cup {p}) <= Limit
<1>1. /\ IsFiniteSet(Occupied) /\ Cardinality(Occupied) \in Nat /\ Limit \in Nat
    BY LimitFacts
<1>2. Cardinality(Occupied \cup {p}) \in {Cardinality(Occupied), Cardinality(Occupied) + 1}
    BY <1>1, FS_AddElement
<1> QED BY <1>1, <1>2

\* Steps that take nothing from the capacity.
LEMMA LimitGrows ==
    ASSUME CapacityTypeOK, CapacityTypeOK', plan' = plan, Granted \subseteq Granted'
    PROVE  Limit' >= Limit
<1>1. /\ IsFiniteSet(Granted') /\ Cardinality(Granted') \in Nat
      /\ Cardinality(Granted) \in Nat /\ Included[plan] \in Nat
  <2>1. Granted' \subseteq Orders \X (1..MaxQuantity)
      BY DEF Granted
  <2> QED BY <2>1, LimitFacts, FiniteUnits
<1>2. Cardinality(Granted) <= Cardinality(Granted')
    BY <1>1, FS_Subset
<1> QED BY <1>1, <1>2 DEF Limit

LEMMA CheckedKeepsLimit ==
    ASSUME CapacityTypeOK, CapacityTypeOK', CheckedStep
    PROVE  Limit' >= Limit
<1>1. CASE UNCHANGED <<plan, addonVars>>
  <2>1. Granted' = Granted
      BY <1>1 DEF Granted, Grants, addonVars
  <2> QED BY <1>1, <2>1, LimitGrows
<1>2. ASSUME NEW o \in Orders,
             \/ ActivatePurchases(o) \/ FailPurchases(o) \/ CancelAtPeriodEnd(o)
             \/ \E n \in 1..MaxQuantity : PurchaseAddon(o, n)
             \/ \E report \in {"captured", "failed"} : Pay(o, report)
      PROVE  Limit' >= Limit
  <2>1. plan' = plan
      BY <1>2 DEF ActivatePurchases, FailPurchases, CancelAtPeriodEnd, PurchaseAddon, Pay,
                  settingVars
  <2>2. \A k \in Orders : Grants(k) => Grants(k)' /\ quantity'[k] = quantity[k]
      BY <1>2 DEF ActivatePurchases, FailPurchases, CancelAtPeriodEnd, PurchaseAddon, Pay, Grants,
                  CapacityTypeOK
  <2>3. Granted \subseteq Granted'
      BY <2>2 DEF Granted
  <2> QED BY <2>1, <2>3, LimitGrows
<1>3. CASE ExpireLapsedPurchases
  <2>1. \A k \in Orders : Grants(k) => Grants(k)' /\ quantity'[k] = quantity[k]
      BY <1>3 DEF ExpireLapsedPurchases, Grants, CapacityTypeOK
  <2>2. Granted \subseteq Granted'
      BY <2>1 DEF Granted
  <2> QED BY <1>3, <2>2, LimitGrows DEF ExpireLapsedPurchases, settingVars
<1>4. \/ UNCHANGED <<plan, addonVars>>
      \/ \E o \in Orders :
             \/ ActivatePurchases(o) \/ FailPurchases(o) \/ CancelAtPeriodEnd(o)
             \/ \E n \in 1..MaxQuantity : PurchaseAddon(o, n)
             \/ \E report \in {"captured", "failed"} : Pay(o, report)
      \/ ExpireLapsedPurchases
  <2>1. ASSUME NEW c \in Callers, CallStart(c) \/ CallTurn(c)
        PROVE  UNCHANGED <<plan, addonVars>>
      BY <2>1, CallFrame DEF settingVars
  <2>2. ASSUME InviteStep \/ PeopleStep \/ TeamStep PROVE UNCHANGED <<plan, addonVars>>
      BY <2>2, OtherFrames DEF settingVars
  <2> QED BY <2>1, <2>2 DEF CheckedStep, CallStart, CallTurn, InviteStep, PeopleStep, TeamStep
<1> QED BY <1>1, <1>2, <1>3, <1>4

\* A step after which no more people have a slot, and nobody else passed the check.
LEMMA FewerPeople ==
    ASSUME CapacityTypeOK, CapacityTypeOK', LimitInv, ~strained, Limit' >= Limit,
           Occupied' \subseteq Occupied,
           \A c \in Callers : stage'[c] = "checked" => stage[c] = "checked" /\ job'[c] = job[c]
    PROVE  /\ ~Exceeded'
           /\ \A c \in Callers :
                 stage'[c] = "checked" => Cardinality(Occupied' \cup {PersonOf(c)'}) <= Limit'
<1>1. /\ IsFiniteSet(Occupied) /\ Cardinality(Occupied) \in Nat /\ Limit \in Nat
      /\ Cardinality(Occupied') \in Nat /\ Cardinality(Occupied') <= Cardinality(Occupied)
      /\ IsFiniteSet(Occupied')
    BY LimitFacts, FS_Subset, FS_CardinalityType
<1>2. Limit' \in Nat
  <2>1. Granted' \subseteq Orders \X (1..MaxQuantity)
      BY DEF Granted
  <2>2. Cardinality(Granted') \in Nat
      BY <2>1, FiniteUnits
  <2>3. Included[plan'] \in Nat
      BY CapacityAssumption DEF CapacityTypeOK
  <2> QED BY <2>2, <2>3 DEF Limit
<1>3. ~Exceeded'
    BY <1>1, <1>2 DEF LimitInv, Exceeded
<1>4. ASSUME NEW c \in Callers, stage'[c] = "checked"
      PROVE  Cardinality(Occupied' \cup {PersonOf(c)'}) <= Limit'
  <2>1. PersonOf(c)' = PersonOf(c) /\ Cardinality(Occupied \cup {PersonOf(c)}) <= Limit
      BY <1>4 DEF PersonOf, LimitInv
  <2>2. IsFiniteSet(Occupied \cup {PersonOf(c)})
      BY <1>1, FS_AddElement
  <2>3. /\ Cardinality(Occupied' \cup {PersonOf(c)}) <= Cardinality(Occupied \cup {PersonOf(c)})
        /\ Cardinality(Occupied' \cup {PersonOf(c)}) \in Nat
        /\ Cardinality(Occupied \cup {PersonOf(c)}) \in Nat
    <3>1. Occupied' \cup {PersonOf(c)} \subseteq Occupied \cup {PersonOf(c)}
        OBVIOUS
    <3> QED BY <2>2, <3>1, FS_Subset, FS_CardinalityType
  <2> QED BY <1>1, <1>2, <2>1, <2>3
<1> QED BY <1>3, <1>4

\* A step after which one more person, for whom there was room, may have a slot, and
\* nobody is between the check and the creation.
LEMMA OneMore ==
    ASSUME CapacityTypeOK, CapacityTypeOK', Limit' >= Limit, NEW p,
           Cardinality(Occupied \cup {p}) <= Limit,
           Occupied' \subseteq Occupied \cup {p},
           \A c \in Callers : stage'[c] # "checked"
    PROVE  /\ ~Exceeded'
           /\ \A c \in Callers :
                 stage'[c] = "checked" => Cardinality(Occupied' \cup {PersonOf(c)'}) <= Limit'
<1>1. IsFiniteSet(Occupied \cup {p}) /\ Limit \in Nat
    BY LimitFacts, FS_AddElement
<1>2. /\ Cardinality(Occupied') <= Cardinality(Occupied \cup {p}) /\ Cardinality(Occupied') \in Nat
      /\ Cardinality(Occupied \cup {p}) \in Nat
    BY <1>1, FS_Subset, FS_CardinalityType
<1>3. Limit' \in Nat
  <2>1. Granted' \subseteq Orders \X (1..MaxQuantity)
      BY DEF Granted
  <2>2. Cardinality(Granted') \in Nat
      BY <2>1, FiniteUnits
  <2>3. Included[plan'] \in Nat
      BY CapacityAssumption DEF CapacityTypeOK
  <2> QED BY <2>2, <2>3 DEF Limit
<1> QED BY <1>1, <1>2, <1>3 DEF Exceeded

\* Who has a slot afterwards, if no record became ACTIVE and no invitation live.
LEMMA NobodyNew ==
    ASSUME \A p \in People : Billable(p)' => Billable(p),
           \A i \in Invites : Live(i)' => Live(i)
    PROVE  Occupied' \subseteq Occupied
BY DEF Occupied, Invited

\* The lock is handed on, and not shared.
LEMMA OneHolds ==
    ASSUME CapacityTypeOK, [CapacityNext]_capacityVars,
           \A c, d \in Callers : c \in Holding /\ d \in Holding => c = d
    PROVE  (\A c, d \in Callers : c \in Holding /\ d \in Holding => c = d)'
<1>1. CallsOK
    BY TypeParts
<1>2. CASE UNCHANGED stage
    BY <1>2 DEF Holding
<1>3. ASSUME NEW c \in Callers, CallStart(c)
      PROVE  Holding' \subseteq Holding
  <2>1. PICK j \in Jobs : Start(c, j)
      BY <1>3, StartKinds DEF Begins
  <2> QED BY <1>1, <2>1 DEF Start, Holding, CallsOK
<1>4. ASSUME NEW c \in Callers, TakeLock(c) \/ TakeLockAndLook(c)
      PROVE  Holding = {} /\ Holding' \subseteq {c}
  <2>1. Holding = {} /\ \A d \in Callers \ {c} : stage'[d] = stage[d]
      BY <1>1, <1>4, TurnKinds DEF TakeLock, TakeLockAndLook, CallTurn
  <2> QED BY <2>1 DEF Holding
<1>5. ASSUME NEW c \in Callers,
             AssertCanCreate(c) \/ RefuseByLimit(c) \/ CreateRecord(c) \/ Join(c)
      PROVE  Holding' \subseteq Holding
  <2>1. \A d \in Callers \ {c} : stage'[d] = stage[d]
      BY <1>5, TurnKinds DEF CallTurn
  <2>2. c \in Holding \/ c \notin Holding'
      BY <1>1, <1>5 DEF AssertCanCreate, RefuseByLimit, CreateRecord, Join, Finish, Holding, CallsOK
  <2> QED BY <2>1, <2>2 DEF Holding
<1>6. \/ UNCHANGED stage
      \/ \E c \in Callers : CallStart(c) \/ CallTurn(c)
    BY StepKinds, OtherFrames DEF capacityVars, callVars
<1> QED BY <1>2, <1>3, <1>4, <1>5, <1>6 DEF CallTurn

\* The steps that check keep the account within its limit.
LEMMA CheckedWithin ==
    ASSUME CapacityTypeOK, CapacityTypeOK', LimitInv, ~strained, CheckedStep
    PROVE  /\ ~Exceeded'
           /\ \A c \in Callers :
                 stage'[c] = "checked" => Cardinality(Occupied' \cup {PersonOf(c)'}) <= Limit'
<1> DEFINE Good == /\ ~Exceeded'
                   /\ \A c \in Callers :
                         stage'[c] = "checked" => Cardinality(Occupied' \cup {PersonOf(c)'}) <= Limit'
<1>1. PeopleOK /\ InvitesOK /\ CallsOK
    BY TypeParts
<1>2. Limit' >= Limit
    BY CheckedKeepsLimit
<1>3. ASSUME \A p \in People : Billable(p)' => Billable(p),
             \A i \in Invites : Live(i)' => Live(i),
             \A c \in Callers : stage'[c] = "checked" => stage[c] = "checked" /\ job'[c] = job[c]
      PROVE  Good
    BY <1>2, <1>3, NobodyNew, FewerPeople
<1>4. ASSUME NEW c \in Callers, CallStart(c)
      PROVE  Good
  <2>1. PICK j \in Jobs : Start(c, j)
      BY <1>4, StartKinds DEF Begins
  <2>2. \A d \in Callers : stage'[d] = "checked" => stage[d] = "checked" /\ job'[d] = job[d]
      BY <1>1, <2>1 DEF Start, CallsOK
  <2>3. \A p \in People : Billable(p)' => Billable(p)
      BY <2>1 DEF Start, Billable, peopleVars
  <2>4. ExpireOld \/ UNCHANGED inviteVars
      BY <1>4 DEF CallStart, CompleteInvitation, AcceptInvitation, ApproveApplication,
                  SubmitAutoApproved, AddAffiliate
  <2>5. \A i \in Invites : Live(i)' => Live(i)
      BY <2>4 DEF ExpireOld, Expired, Live, inviteVars
  <2> QED BY <1>3, <2>2, <2>3, <2>5
<1>5. ASSUME NEW c \in Callers, CallTurn(c)
      PROVE  Good
  <2>1. \A d \in Callers \ {c} : stage'[d] = stage[d] /\ job'[d] = job[d]
      BY <1>5, TurnKinds
  <2>2. CASE RefuseByLimit(c) \/ Join(c) \/ TakeLockAndLook(c)
    <3>1. stage'[c] # "checked"
        BY <1>1, <2>2 DEF RefuseByLimit, Join, TakeLockAndLook, Finish, CallsOK
    <3>2. affiliate' = affiliate
        BY <2>2 DEF RefuseByLimit, Join, TakeLockAndLook, peopleVars
    <3>3. \A i \in Invites : Live(i)' => Live(i)
        BY <1>1, <2>2 DEF RefuseByLimit, Join, TakeLockAndLook, Live, inviteVars, InvitesOK
    <3> QED BY <1>3, <2>1, <3>1, <3>2, <3>3 DEF Billable
  <2>3. CASE TakeLock(c)
    <3>1. UNCHANGED <<affiliate, inviteVars, settingVars, addonVars>> /\ Holding = {} /\ Admit(c)
        BY <2>3 DEF TakeLock, Admit
    <3>2. Occupied' = Occupied
        BY <3>1 DEF Occupied, Billable, Invited, Live, inviteVars
    <3>3. CASE stage'[c] # "checked"
      <4>1. \A d \in Callers : stage'[d] # "checked"
          BY <2>1, <3>1, <3>3 DEF Holding
      <4> QED BY <1>3, <3>1, <4>1 DEF Billable, Live, inviteVars
    <3>4. CASE stage'[c] = "checked"
      <4>1. Reserved(PersonOf(c)) /\ job'[c] = job[c]
        <5>1. ~Ineligible(PersonOf(c)) /\ ~HasRecord(PersonOf(c))
            BY <1>1, <3>1, <3>4 DEF Admit, PersonOf, EnrollNow, Finish, CallsOK
        <5> QED BY <2>3, <3>1, <5>1 DEF TakeLock, HasSlot, Admit, PersonOf
      <4>2. PersonOf(c) \in Occupied
        <5>1. job[c] \in Jobs
            BY <1>1, <2>3 DEF TakeLock, CallsOK
        <5>2. PersonOf(c) \in People
            BY <5>1, JobFacts DEF PersonOf
        <5> QED BY <4>1, <5>2 DEF Reserved, Occupied
      <4>3. Occupied' \cup {PersonOf(c)'} = Occupied
          BY <3>2, <4>1, <4>2 DEF PersonOf
      <4>4. ~Exceeded
          BY DEF LimitInv
      <4>5. Limit' = Limit
          BY <3>1 DEF Limit, Granted, Grants, addonVars, settingVars
      <4>6. Cardinality(Occupied) <= Limit
          BY <4>4, LimitFacts DEF Exceeded
      <4>7. \A d \in Callers : stage'[d] = "checked" => d = c
          BY <2>1, <3>1 DEF Holding
      <4>8. ~Exceeded'
          BY <3>2, <4>4, <4>5 DEF Exceeded
      <4> QED BY <4>3, <4>5, <4>6, <4>7, <4>8
    <3> QED BY <3>3, <3>4
  <2>4. CASE AssertCanCreate(c)
    <3>1. /\ Cardinality(Occupied) + 1 <= Limit /\ Admit(c)
          /\ UNCHANGED <<affiliate, inviteVars, settingVars, addonVars>> /\ stage[c] = "looking"
        BY <2>4 DEF AssertCanCreate, CanCreate, Admit
    <3>2. Occupied' = Occupied /\ Limit' = Limit
        BY <3>1 DEF Occupied, Billable, Invited, Live, inviteVars, Limit, Granted, Grants, addonVars,
                    settingVars
    <3>3. Cardinality(Occupied \cup {PersonOf(c)}) <= Limit
        BY <3>1, RoomForOne
    <3>4. \A d \in Callers : stage'[d] = "checked" => d = c
        BY <2>1, <3>1 DEF LimitInv, Holding
    <3>5. ~Exceeded'
        BY <3>2 DEF LimitInv, Exceeded
    <3>6. stage'[c] = "checked" => PersonOf(c)' = PersonOf(c)
        BY <1>1, <3>1 DEF Admit, EnrollNow, Finish, CallsOK, PersonOf
    <3> QED BY <3>2, <3>3, <3>4, <3>5, <3>6
  <2>5. CASE CreateRecord(c)
    <3>1. /\ stage[c] = "checked" /\ UNCHANGED inviteVars
          /\ affiliate' = [affiliate EXCEPT ![PersonOf(c)] = IF @ = "NONE" THEN "ACTIVE" ELSE @]
        BY <2>5 DEF CreateRecord, PersonOf
    <3>2. Cardinality(Occupied \cup {PersonOf(c)}) <= Limit
        BY <3>1 DEF LimitInv
    <3>3. Occupied' \subseteq Occupied \cup {PersonOf(c)}
        BY <1>1, <3>1 DEF Occupied, Billable, Invited, Live, inviteVars, PeopleOK
    <3>4. stage'[c] # "checked"
        BY <1>1, <2>5 DEF CreateRecord, EnrollNow, Finish, CallsOK
    <3>5. \A d \in Callers : stage'[d] # "checked"
        BY <2>1, <3>1, <3>4 DEF LimitInv, Holding
    <3> QED BY <1>2, <3>2, <3>3, <3>5, OneMore
  <2> QED BY <1>5, <2>2, <2>3, <2>4, <2>5 DEF CallTurn
<1>6. ASSUME NEW i \in Invites, Invite(i)
      PROVE  Good
  <2>1. /\ Cardinality(Occupied) + 1 <= Limit /\ Holding = {}
        /\ invitation' = [invitation EXCEPT ![i] = "PENDING"] /\ lapsed' = lapsed \ {i}
        /\ affiliate' = affiliate /\ stage' = stage
      BY <1>6 DEF Invite, CanCreate, PutInvitation, peopleVars, callVars
  <2>2. Cardinality(Occupied \cup {Invitee[i]}) <= Limit
      BY <2>1, RoomForOne
  <2>3. \A k \in Invites \ {i} : Live(k)' => Live(k)
      BY <1>1, <2>1 DEF Live, InvitesOK
  <2>4. Occupied' \subseteq Occupied \cup {Invitee[i]}
      BY <2>1, <2>3 DEF Occupied, Billable, Invited
  <2>5. \A c \in Callers : stage'[c] # "checked"
      BY <2>1 DEF Holding
  <2> QED BY <1>2, <2>2, <2>4, <2>5, OneMore
<1>7. CASE \/ ListInvitations
           \/ \E i \in Invites : \/ AcceptAsMember(i) \/ RevokeInvitation(i) \/ DeclineInvitation(i)
                                 \/ AcceptTerms(i) \/ InvitationLapses(i)
  <2>1. InviteStep
      BY <1>7 DEF InviteStep
  <2>2. UNCHANGED <<affiliate, stage, job>>
      BY <2>1, OtherFrames DEF peopleVars, callVars
  <2>3. \A i \in Invites : Live(i)' => Live(i)
    <3>1. CASE ListInvitations
        BY <3>1 DEF ListInvitations, ExpireOld, Expired, Live
    <3>2. ASSUME NEW i \in Invites, AcceptAsMember(i) \/ AcceptTerms(i)
          PROVE  \A k \in Invites : Live(k)' => Live(k)
        BY <3>2 DEF AcceptAsMember, AcceptTerms, Expired, Live
    <3>3. ASSUME NEW i \in Invites, RevokeInvitation(i) \/ DeclineInvitation(i)
          PROVE  \A k \in Invites : Live(k)' => Live(k)
        BY <1>1, <3>3 DEF RevokeInvitation, DeclineInvitation, Withdraw, Live, InvitesOK
    <3>4. ASSUME NEW i \in Invites, InvitationLapses(i)
          PROVE  \A k \in Invites : Live(k)' => Live(k)
        BY <3>4 DEF InvitationLapses, Live
    <3> QED BY <1>7, <3>1, <3>2, <3>3, <3>4
  <2> QED BY <1>3, <2>2, <2>3 DEF Billable
<1>8. CASE \/ \E p \in Applicants : SubmitApplication(p) \/ RejectApplication(p)
           \/ \E p \in People : SetStatus(p, "SUSPENDED")
  <2>1. UNCHANGED <<inviteVars, stage, job>>
      BY <1>8, OtherFrames DEF PeopleStep, callVars
  <2>2. \A p \in People : Billable(p)' => Billable(p)
      BY <1>1, <1>8 DEF SubmitApplication, RejectApplication, SetStatus, Billable, PeopleOK, peopleVars
  <2> QED BY <1>3, <2>1, <2>2 DEF Live, inviteVars
<1>9. CASE AddonStep \/ TeamStep
  <2>1. UNCHANGED <<affiliate, inviteVars, stage, job>>
      BY <1>9, OtherFrames DEF peopleVars, callVars
  <2> QED BY <1>3, <2>1 DEF Live, Billable, inviteVars
<1> QED BY <1>4, <1>5, <1>6, <1>7, <1>8, <1>9 DEF CheckedStep, CallStart, CallTurn, AddonStep, TeamStep

\* The account uses no more than it is entitled to, unless a bulk invitation, a resent
\* invitation, a reactivation or a loss of capacity took it over the limit or undercut a
\* check, and it has not come back since (SubscriptionLimitService.reserve).
THEOREM StaysWithinCapacity == CapacitySafety => []WithinCapacity
<1>1. ASSUME CapacityInit
      PROVE  LimitInv
  <2>1. Occupied = {} /\ Holding = {} /\ Granted = {}
      BY <1>1 DEF CapacityInit, Occupied, Holding, Billable, Invited, Live, Granted, Grants
  <2>2. Cardinality(Occupied) = 0 /\ Cardinality(Granted) = 0
      BY <2>1, FS_EmptySet
  <2>3. Limit \in Nat
      BY <1>1, <2>2, CapacityAssumption DEF Limit, CapacityInit, Plans
  <2> QED BY <1>1, <2>1, <2>2, <2>3 DEF LimitInv, Exceeded, Holding, CapacityInit
<1>2. ASSUME CapacityTypeOK, CapacityTypeOK', LimitInv, [CapacityNext]_capacityVars
      PROVE  LimitInv'
  <2>1. (\A c, d \in Callers : c \in Holding /\ d \in Holding => c = d)'
      BY <1>2, OneHolds DEF LimitInv
  <2>2. CASE UNCHANGED capacityVars
      BY <1>2, <2>2
         DEF LimitInv, capacityVars, peopleVars, inviteVars, callVars, settingVars, addonVars,
             historyVars,
             Holding, Exceeded, Occupied, Billable, Invited, Live, Limit, Granted, Grants, PersonOf
  <2>3. CASE CapacityNext /\ ~strained'
    <3>1. CASE ~Exceeded' /\ ~Checking'
        BY <2>1, <3>1 DEF LimitInv, Checking
    <3>2. CASE ~strained /\ CheckedStep
        BY <1>2, <2>1, <3>2, CheckedWithin DEF LimitInv
    <3>3. strained' = (strained /\ (Exceeded' \/ Checking')) \/ strained' = (Exceeded' \/ Checking')
        BY <2>3 DEF CapacityNext
    <3>4. (~strained /\ CheckedStep) \/ (~Exceeded' /\ ~Checking')
        BY <2>3 DEF CapacityNext
    <3> QED BY <3>1, <3>2, <3>4
  <2>4. CASE CapacityNext /\ strained'
      BY <2>1, <2>4 DEF LimitInv
  <2> QED BY <1>2, <2>2, <2>3, <2>4
<1>3. LimitInv => WithinCapacity
    BY DEF LimitInv, WithinCapacity
<1> QED BY <1>1, <1>2, <1>3, CapacityTypeCorrect, PTL DEF CapacitySafety

=============================================================================

------------------------------- MODULE Members -------------------------------
(***************************************************************************)
(* The team of one organization: invitations, the memberships that come of *)
(* them (MembershipsService) and what GET /auth/me does to memberships     *)
(* (AuthService.getMe).                                                    *)
(*                                                                         *)
(* Invitations and memberships are entities in memory with a row each.     *)
(* Memberships stand in a list that starts the writes; getMe replaces that *)
(* list when it drops a membership of an organization that was deleted,    *)
(* and the new list starts none.  Roles are left out, and so are writes    *)
(* that fail and whoever has no account yet.                               *)
(***************************************************************************)
EXTENDS Naturals, FiniteSets

CONSTANTS
    Persons,
    Founder,        \* organization.createdBy
    Invitations,    \* invitations that may be sent
    Seats,          \* memberships that may be made
    FirstSeat,      \* the founder's
    SeatLimit,      \* seats of the account
    Visits,         \* calls that may run at the same time
    NoOne, NoSeat

ASSUME MembersAssumption ==
    /\ Founder \in Persons /\ NoOne \notin Persons
    /\ FirstSeat \in Seats /\ NoSeat \notin Seats
    /\ SeatLimit \in Nat

VARIABLES
    invited,        \* who an invitation is for
    over,           \* invitations that are revoked or past their expiresAt
    accepted,       \* invitations with acceptedAt in memory
    acceptedRow,    \* and in their row
    seat,           \* [of, status] of a membership in memory
    seatRow,        \* its row
    detached,       \* the list of memberships starts no write
    adrift,         \* memberships that were put into such a list
    visit,          \* where a call stands
    told,           \* people who were answered that they joined, and were not removed since
    dismissed,      \* history: people removed since they last joined
    unlisted,       \* history: people who joined while the list was detached
    leaned          \* history: people answered for a membership another call was still writing

invitedVars == <<invited, over>>
joinVars == <<told, dismissed, unlisted, leaned>>
memberVars == <<invitedVars, accepted, acceptedRow, seat, seatRow, detached, adrift, visit,
                joinVars>>

Vacant == [of |-> NoOne, status |-> "none"]
Active(p) == [of |-> p, status |-> "ACTIVE"]
Free == [at |-> "free"]
Founders == [m \in Seats |-> IF m = FirstSeat THEN Active(Founder) ELSE Vacant]

MembersInit ==
    /\ invited = [i \in Invitations |-> NoOne]
    /\ over = {} /\ accepted = {} /\ acceptedRow = {}
    /\ seat = Founders /\ seatRow = Founders
    /\ detached = FALSE /\ adrift = {}
    /\ visit = [r \in Visits |-> Free]
    /\ told = {} /\ dismissed = {} /\ unlisted = {} /\ leaned = {}

-----------------------------------------------------------------------------
(* Who is in, and who holds a seat.  An operator whose name has an underscore *)
(* is the operator before the underscore with a slip in it.                   *)

Belongs(p) == \E m \in Seats : seat[m] = Active(p)

\* No membership of his that is active is in its row yet.
Leaning(p) ==
    Belongs(p) /\ \A m \in Seats : seat[m] = Active(p) => seatRow[m] # seat[m]

Standing(i) == invited[i] # NoOne /\ i \notin accepted \cup over
Seated == {p \in Persons : Belongs(p) \/ \E i \in Invitations : Standing(i) /\ invited[i] = p}

Unused(m) == seat[m] = Vacant /\ seatRow[m] = Vacant

-----------------------------------------------------------------------------
(* The actions *)

\* createMemberInvitation, under the lock and behind the check of the limit.  The token goes
\* out when the row is written.
InviteMember(i, p) ==
    /\ invited[i] = NoOne
    /\ p \notin Seated
    /\ Cardinality(Seated) < SeatLimit
    /\ invited' = [invited EXCEPT ![i] = p]
    /\ UNCHANGED <<over, accepted, acceptedRow, seat, seatRow, detached, adrift, visit,
                   joinVars>>

\* revokeInvitation, which looks at no status, or the clock.  A revocation whose write a restart
\* cuts off is none.
RevokeOrExpire(i) ==
    /\ invited[i] # NoOne
    /\ over' = over \cup {i}
    /\ UNCHANGED <<invited, accepted, acceptedRow, seat, seatRow, detached, adrift, visit,
                   joinVars>>

\* acceptInvitationForUser up to the read of the user.
AcceptInvitationForUser(r, i) ==
    /\ visit[r] = Free
    /\ Standing(i)
    /\ visit' = [visit EXCEPT ![r] = [at |-> "accepting", on |-> i]]
    /\ UNCHANGED <<invitedVars, accepted, acceptedRow, seat, seatRow, detached, adrift,
                   joinVars>>

\* The membership he has already.
HasOne_Ever(p) == \E m \in Seats : seat[m].of = p
HasOne(p) == Belongs(p)

\* The user is read: the member stays what he is, or gets a membership.
JoinTeam(r, m) ==
    LET i == visit[r].on
        p == invited[i]
    IN  /\ visit[r].at = "accepting"
        /\ IF HasOne(p)
           THEN m = NoSeat /\ UNCHANGED <<seat, adrift, unlisted>>
           ELSE /\ m \in Seats /\ Unused(m)
                /\ seat' = [seat EXCEPT ![m] = Active(p)]
                /\ adrift' = IF detached THEN adrift \cup {m} ELSE adrift
                /\ unlisted' = IF detached THEN unlisted \cup {p} ELSE unlisted
        /\ accepted' = accepted \cup {i}
        /\ visit' = [visit EXCEPT ![r] = [at |-> "joining", on |-> i, with |-> m]]
        /\ dismissed' = dismissed \ {p}
        /\ UNCHANGED <<invitedVars, acceptedRow, seatRow, detached, told, leaned>>

\* Both writes it waits for are done, and the call is answered.
Joined(r) ==
    LET i == visit[r].on
        m == visit[r].with
        p == invited[i]
    IN  /\ visit[r].at = "joining"
        /\ i \in acceptedRow
        /\ m # NoSeat => m \in adrift \/ seatRow[m] = seat[m]
        /\ visit' = [visit EXCEPT ![r] = Free]
        /\ told' = IF p \in dismissed THEN told ELSE told \cup {p}
        /\ leaned' = IF (m = NoSeat \/ seat[m] # Active(p)) /\ Leaning(p)
                     THEN leaned \cup {p} ELSE leaned
        /\ UNCHANGED <<invitedVars, accepted, acceptedRow, seat, seatRow, detached, adrift,
                       dismissed, unlisted>>

\* removeMember, the founder's membership as any other.
RemoveMember(m) ==
    LET p == seat[m].of
    IN  /\ p # NoOne
        /\ seat' = [seat EXCEPT ![m].status = "REMOVED"]
        /\ told' = told \ {p}
        /\ dismissed' = dismissed \cup {p}
        /\ UNCHANGED <<invitedVars, accepted, acceptedRow, seatRow, detached, adrift, visit,
                       unlisted, leaned>>

\* getMe of the founder, whose rows show no active membership; the new one is saved first.
MissMembership(r) ==
    /\ visit[r] = Free
    /\ ~\E m \in Seats : seatRow[m] = Active(Founder)
    /\ visit' = [visit EXCEPT ![r] = [at |-> "restoring"]]
    /\ UNCHANGED <<invitedVars, accepted, acceptedRow, seat, seatRow, detached, adrift,
                   joinVars>>

RestoreOwner(r, m) ==
    /\ visit[r].at = "restoring"
    /\ Unused(m)
    /\ seat' = [seat EXCEPT ![m] = Active(Founder)]
    /\ seatRow' = [seatRow EXCEPT ![m] = Active(Founder)]
    /\ adrift' = IF detached THEN adrift \cup {m} ELSE adrift
    /\ visit' = [visit EXCEPT ![r] = Free]
    /\ UNCHANGED <<invitedVars, accepted, acceptedRow, detached, joinVars>>

\* getMe of somebody who belongs to an organization that was deleted.
PurgeStale ==
    /\ detached' = TRUE
    /\ UNCHANGED <<invitedVars, accepted, acceptedRow, seat, seatRow, adrift, visit,
                   joinVars>>

\* The writes.
AcceptanceSaved(i) ==
    /\ i \in accepted
    /\ acceptedRow' = acceptedRow \cup {i}
    /\ UNCHANGED <<invitedVars, accepted, seat, seatRow, detached, adrift, visit, joinVars>>

SeatSaved(m) ==
    /\ m \notin adrift
    /\ seatRow[m] # seat[m]
    /\ seatRow' = [seatRow EXCEPT ![m] = seat[m]]
    /\ UNCHANGED <<invitedVars, accepted, acceptedRow, seat, detached, adrift, visit,
                   joinVars>>

RestartMembers ==
    /\ accepted' = acceptedRow /\ seat' = seatRow
    /\ detached' = FALSE /\ adrift' = {}
    /\ visit' = [r \in Visits |-> Free]
    /\ UNCHANGED <<invitedVars, acceptedRow, seatRow, joinVars>>

MembersNext ==
    \/ PurgeStale \/ RestartMembers
    \/ \E i \in Invitations :
          \/ RevokeOrExpire(i) \/ AcceptanceSaved(i)
          \/ \E p \in Persons : InviteMember(i, p)
          \/ \E r \in Visits : AcceptInvitationForUser(r, i)
    \/ \E m \in Seats : RemoveMember(m) \/ SeatSaved(m)
    \/ \E r \in Visits :
          \/ Joined(r) \/ MissMembership(r)
          \/ \E m \in Seats \cup {NoSeat} : JoinTeam(r, m)
          \/ \E m \in Seats : RestoreOwner(r, m)

MembersSafety == MembersInit /\ [][MembersNext]_memberVars
-----------------------------------------------------------------------------
(* Properties *)

\* What the variables hold.
MembersTypeOK ==
    /\ invited \in [Invitations -> Persons \cup {NoOne}]
    /\ over \subseteq Invitations
    /\ accepted \subseteq Invitations /\ acceptedRow \subseteq Invitations
    /\ seat \in [Seats -> [of : Persons \cup {NoOne}, status : {"none", "ACTIVE", "REMOVED"}]]
    /\ seatRow \in [Seats -> [of : Persons \cup {NoOne}, status : {"none", "ACTIVE", "REMOVED"}]]
    /\ detached \in BOOLEAN /\ adrift \subseteq Seats
    /\ visit \in [Visits -> [at : {"free", "restoring"}]
                                \cup [at : {"accepting"}, on : Invitations]
                                \cup [at : {"joining"}, on : Invitations,
                                     with : Seats \cup {NoSeat}]]
    /\ told \subseteq Persons /\ dismissed \subseteq Persons
    /\ unlisted \subseteq Persons /\ leaned \subseteq Persons

\* Who was told that he joined is a member until he is removed, through restarts, overlapping
\* acceptances, and invitations sent again after a removal: unless he joined while the list
\* was detached, or his answer came before another call had written his membership.
ToldIsMember == \A p \in told \ (unlisted \cup leaned) : Belongs(p)
=============================================================================

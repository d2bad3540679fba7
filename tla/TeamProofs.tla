------------------------------ MODULE TeamProofs ------------------------------
(***************************************************************************)
(* Proofs about Onboarding and Members, for any number of tabs,            *)
(* organizations, people, seats, invitations and calls.                    *)
(*                                                                         *)
(* That an owner is never locked out by what was founded needs to know     *)
(* that whatever is in the way of a founding is one to go on with, is      *)
(* deleted, or bears the form that asks again.  That an organization is    *)
(* welcomed once counts, next to the welcomes, the calls that still have   *)
(* one to send.  That who is told of a membership has one needs to know,   *)
(* for every call that is still to answer, what it found or wrote.         *)
(***************************************************************************)
EXTENDS Onboarding, Members, FiniteSetTheorems, WellFoundedInduction, TLAPS

-----------------------------------------------------------------------------
(* Onboarding *)

\* There is a slug that no live organization has: fewer organizations than numbers.
LEMMA SlugIsFree ==
    ASSUME NEW name
    PROVE  \E n \in 0..Cardinality(Workspaces) : SlugFor(name) = <<name, n>> /\ ~SlugTaken(name, n)
<1> DEFINE S == 0..Cardinality(Workspaces)
           Open == {n \in S : ~SlugTaken(name, n)}
           R == {ss \in Nat \X Nat : ss[1] < ss[2]}
<1>1. Cardinality(Workspaces) \in Nat
    BY FS_CardinalityType, OnboardingAssumption
<1>2. IsFiniteSet(S) /\ Cardinality(S) = Cardinality(Workspaces) + 1
    BY <1>1, FS_Interval
<1>3. Open # {}
    <2> SUFFICES ASSUME \A n \in S : SlugTaken(name, n)
                 PROVE  FALSE
        OBVIOUS
    <2> DEFINE f == [n \in S |-> CHOOSE o \in Workspaces : orgRow[o].slug = <<name, n>>]
    <2>1. \A n \in S : f[n] \in Workspaces /\ orgRow[f[n]].slug = <<name, n>>
        BY DEF SlugTaken
    <2>2. f \in [S -> Workspaces]
        BY <2>1
    <2>3. PICK m, n \in S : m # n /\ f[m] = f[n]
        <3> HIDE DEF f, S
        <3> QED BY <1>1, <1>2, <2>2, FS_PigeonHole, OnboardingAssumption
    <2>4. <<name, m>> = <<name, n>>
        BY <2>1, <2>3
    <2> QED BY <2>3, <2>4
<1>4. IsWellFoundedOn(R, Nat)
    BY NatLessThanWellFounded DEF OpToRel
<1>5. PICK n \in Open : \A m \in Open : ~(<<m, n>> \in R)
    <2>1. Open \subseteq Nat
        BY <1>1
    <2> HIDE DEF Open, R
    <2> QED BY <1>3, <1>4, <2>1, WFMin
<1>6. \A m \in 0..(n - 1) : SlugTaken(name, m)
    <2> SUFFICES ASSUME NEW m \in 0..(n - 1)
                 PROVE  m \notin Open
        BY <1>1
    <2>1. n \in Nat /\ m \in Nat /\ m < n
        BY <1>1
    <2>2. <<m, n>> \in R
        BY <2>1
    <2> HIDE DEF Open, R
    <2> QED BY <1>5, <2>2
<1> QED BY <1>5, <1>6 DEF SlugFor

\* An organization stays one when it is completed or deleted.
LEMMA OrganizationChanges ==
    ASSUME NEW e \in Organization
    PROVE  /\ [e EXCEPT !.closed = TRUE] \in Organization
           /\ [e EXCEPT !.status = "COMPLETED", !.lock = FALSE] \in Organization
<1> DEFINE Slugs == {<<>>} \cup (Names \X (0..Cardinality(Workspaces)))
           FormsOrNone == Forms \cup {NoForm}
<1>1. Organization = [status : {"none", "IN_PROGRESS", "COMPLETED"}, form : FormsOrNone,
                      slug : Slugs, lock : BOOLEAN, closed : BOOLEAN]
    BY DEF Organization
<1> HIDE DEF Slugs, FormsOrNone
<1> QED BY <1>1

\* The variables keep their types.
LEMMA OnboardingTypeStep ==
    OnboardingTypeOK /\ [OnboardingNext]_onboardingVars => OnboardingTypeOK'
<1> SUFFICES ASSUME OnboardingTypeOK, [OnboardingNext]_onboardingVars
             PROVE  OnboardingTypeOK'
    OBVIOUS
<1> USE DEF OnboardingTypeOK, TabCalls, Stands, Closed, GoOn, Leave
<1>1. CASE RestartOnboarding
    BY <1>1 DEF RestartOnboarding
<1>2. ASSUME NEW o \in Workspaces, DeleteOrganization(o) \/ Saved(o)
      PROVE  OnboardingTypeOK'
    <2>1. org[o] \in Organization /\ [org[o] EXCEPT !.closed = TRUE] \in Organization
        BY OrganizationChanges
    <2> QED BY <1>2, <2>1 DEF DeleteOrganization, Saved
<1>3. ASSUME NEW t \in Tabs, ReserveOrganization(t) \/ LookUp(t) \/ FoundingFails(t)
      PROVE  OnboardingTypeOK'
    BY <1>3 DEF ReserveOrganization, LookUp, FoundingFails
<1>4. ASSUME NEW t \in Tabs, Welcome(t)
      PROVE  OnboardingTypeOK'
    <2>1. tab[t] \in [at : {"seeding"}, wizard : BOOLEAN, on : Workspaces]
        BY <1>4 DEF Welcome
    <2>2. Cleared(tab[t].on) \in Organization
        BY <2>1, OrganizationChanges DEF Cleared
    <2> QED BY <1>4, <2>1, <2>2 DEF Welcome
<1>5. ASSUME NEW t \in Tabs, NEW o \in Workspaces, Found(t, o)
      PROVE  OnboardingTypeOK'
    <2>1. tab[t] \in [at : {"founding"}, wizard : BOOLEAN, form : Forms \cup {NoForm}, name : Names]
        BY <1>5 DEF Found
    <2>2. SlugFor(tab[t].name) \in Names \X (0..Cardinality(Workspaces))
        BY <2>1, SlugIsFree
    <2>3. orgRow' \in [Workspaces -> Organization] /\ org' \in [Workspaces -> Organization]
        BY <1>5, <2>1, <2>2 DEF Found, Organization, LockKey
    <2>4. tab' \in [Tabs -> TabCalls]
        <3>1. [at |-> "seeding", wizard |-> FALSE, on |-> o] \in TabCalls
            OBVIOUS
        <3>2. tab' = [tab EXCEPT ![t] = Closed]
              \/ tab' = [tab EXCEPT ![t] = [at |-> "seeding", wizard |-> FALSE, on |-> o]]
            BY <1>5 DEF Found
        <3> HIDE DEF TabCalls, Closed
        <3>3. Closed \in TabCalls
            BY DEF TabCalls, Closed
        <3> QED BY <3>1, <3>2, <3>3
    <2> QED BY <1>5, <2>3, <2>4 DEF Found
<1>6. ASSUME NEW t \in Tabs, NEW o \in Workspaces, Duplicate(t, o) \/ Complete(t, o)
      PROVE  OnboardingTypeOK'
    <2>1. CASE Duplicate(t, o)
        <3>1. tab[t] \in [at : {"founding"}, wizard : BOOLEAN, form : Forms \cup {NoForm},
                          name : Names]
            BY <2>1 DEF Duplicate
        <3>2. \A unfinished \in BOOLEAN :
                  [at |-> "duplicate", wizard |-> tab[t].wizard, form |-> tab[t].form, on |-> o,
                   unfinished |-> unfinished] \in TabCalls
            BY <3>1
        <3> QED BY <2>1, <3>2 DEF Duplicate
    <2>2. CASE Complete(t, o)
        <3>1. [at |-> "seeding", wizard |-> TRUE, on |-> o] \in TabCalls
            OBVIOUS
        <3> QED BY <2>2, <3>1 DEF Complete
    <2> QED BY <1>6, <2>1, <2>2
<1>7. ASSUME NEW t \in Tabs, NEW wizard \in BOOLEAN, NEW form \in Forms \cup {NoForm},
             NEW name \in Names, Enter(t, wizard, form, name)
      PROVE  OnboardingTypeOK'
    BY <1>7 DEF Enter
<1>8. CASE UNCHANGED onboardingVars
    BY <1>8 DEF onboardingVars
<1> QED BY <1>1, <1>2, <1>3, <1>4, <1>5, <1>6, <1>7, <1>8 DEF OnboardingNext

\* An unfinished organization has the lock until it is completed, and only then; its row gets
\* what memory has, so a row loses the lock later and nothing else gets it.
OneIs(e) == /\ e.status = "IN_PROGRESS" => e.lock
            /\ e.status = "COMPLETED" => ~e.lock
            /\ e.status = "none" => ~e.lock
LocksHeld ==
    /\ \A o \in Workspaces : /\ OneIs(org[o]) /\ OneIs(orgRow[o])
                             /\ org[o].lock => orgRow[o].lock
                             /\ orgRow[o].closed => org[o].closed
                             /\ org[o].status = "none" <=> orgRow[o].status = "none"
                             /\ org[o].form = orgRow[o].form
    /\ \A o, p \in Workspaces : orgRow[o].lock /\ orgRow[p].lock => o = p

\* What was in the way of a call is unfinished, deleted, or found by its form.
InItsWay ==
    \A t \in Tabs :
        /\ Stands(t, {"duplicate", "refused"}) => orgRow[tab[t].on].status # "none"
        /\ Stands(t, {"duplicate"}) =>
              \/ tab[t].unfinished \/ orgRow[tab[t].on].closed
              \/ Founded(tab[t].on, tab[t].form)
        /\ Stands(t, {"refused"}) => tab[t].unfinished \/ orgRow[tab[t].on].closed

\* An organization that no two calls welcomed together has one call at a time at it: the one
\* that completes it, while it is unfinished, or the one that founded it complete.
Seeds(t, o) == Stands(t, {"seeding"}) /\ tab[t].on = o
OneGreets ==
    /\ \A t \in Tabs, o \in Workspaces : Seeds(t, o) => org[o].status # "none"
    /\ \A o \in Workspaces \ (overlapped \cup severed) : \A t \in Tabs :
          Seeds(t, o) => /\ tab[t].wizard => org[o].status = "IN_PROGRESS"
                         /\ ~tab[t].wizard => org[o].status = "COMPLETED"
                         /\ \A u \in Tabs : Seeds(u, o) => u = t

OnboardingInv == OnboardingTypeOK /\ LocksHeld /\ InItsWay /\ OneGreets /\ WelcomedOnce

\* A founding is told apart from what it finds in its way.
LEMMA WayIsKnown ==
    ASSUME OnboardingInv, NEW t \in Tabs, NEW o \in Workspaces, Duplicate(t, o)
    PROVE  orgRow[o].status = "IN_PROGRESS" \/ orgRow[o].closed \/ Founded(o, tab[t].form)
<1> USE DEF OnboardingInv, OnboardingTypeOK, LocksHeld
<1>1. InTheWay(o, tab[t]) /\ tab[t].at = "founding"
    BY DEF Duplicate, Stands
<1>2. orgRow[o].status \in {"none", "IN_PROGRESS", "COMPLETED"} /\ orgRow[o].lock \in BOOLEAN
      /\ orgRow[o].closed \in BOOLEAN
    BY DEF Organization
<1>3. CASE orgRow[o].lock
    BY <1>1, <1>2, <1>3 DEF OneIs, InTheWay
<1>4. CASE tab[t].form # NoForm /\ orgRow[o].form = tab[t].form
    BY <1>1, <1>4 DEF InTheWay, Founded, Existing
<1>5. CASE orgRow[o].slug = SlugFor(tab[t].name)
    <2>1. PICK n : orgRow[o].slug = <<tab[t].name, n>> /\ ~SlugTaken(tab[t].name, n)
        BY <1>5, SlugIsFree
    <2> QED BY <1>1, <2>1 DEF SlugTaken, Existing, InTheWay
<1> QED BY <1>1, <1>3, <1>4, <1>5 DEF InTheWay

\* A step keeps the locks apart.
LEMMA LocksStep == OnboardingInv /\ [OnboardingNext]_onboardingVars => LocksHeld'
<1> SUFFICES ASSUME OnboardingInv, [OnboardingNext]_onboardingVars
             PROVE  LocksHeld'
    OBVIOUS
<1> USE DEF OnboardingInv, LocksHeld, OneIs
<1>1. CASE RestartOnboarding
    BY <1>1 DEF RestartOnboarding
<1>2. ASSUME NEW o \in Workspaces, DeleteOrganization(o)
      PROVE  LocksHeld'
    BY <1>2 DEF DeleteOrganization, OnboardingTypeOK, Organization
<1>3. ASSUME NEW o \in Workspaces, Saved(o)
      PROVE  LocksHeld'
    BY <1>3 DEF Saved, OnboardingTypeOK
<1>4. ASSUME NEW t \in Tabs, Welcome(t)
      PROVE  LocksHeld'
    <2>1. tab[t].on \in Workspaces /\ org[tab[t].on].status # "none"
        BY <1>4 DEF Welcome, OneGreets, Seeds, Stands, OnboardingTypeOK, TabCalls
    <2> QED BY <1>4, <2>1 DEF Welcome, Cleared, OnboardingTypeOK, Organization
<1>5. ASSUME NEW t \in Tabs, NEW o \in Workspaces, Found(t, o)
      PROVE  LocksHeld'
    BY <1>5 DEF Found, LockKey, InTheWay, OnboardingTypeOK
<1>6. CASE UNCHANGED <<org, orgRow>>
    BY <1>6
<1> QED
    BY <1>1, <1>2, <1>3, <1>4, <1>5, <1>6
    DEF OnboardingNext, onboardingVars, ReserveOrganization, LookUp, FoundingFails, Duplicate, Complete, Enter

\* A step keeps what is known of what is in the way.
LEMMA WayStep == OnboardingInv /\ [OnboardingNext]_onboardingVars => InItsWay'
<1> SUFFICES ASSUME OnboardingInv, [OnboardingNext]_onboardingVars
             PROVE  InItsWay'
    OBVIOUS
<1> USE DEF OnboardingInv, InItsWay, Stands, Closed, GoOn, Leave
<1>r. ASSUME \A o \in Workspaces : /\ orgRow[o].closed => orgRow'[o].closed
                                   /\ orgRow'[o].form = orgRow[o].form \/ orgRow[o].status = "none"
                                   /\ orgRow'[o].status = "none" => orgRow[o].status = "none",
             UNCHANGED tab
      PROVE  InItsWay'
    <2> SUFFICES ASSUME NEW t \in Tabs,
                        tab[t].at \in {"duplicate", "refused"}
                 PROVE  /\ orgRow'[tab[t].on].status # "none"
                        /\ orgRow[tab[t].on].closed => orgRow'[tab[t].on].closed
                        /\ tab[t].at = "duplicate" /\ Founded(tab[t].on, tab[t].form)
                           /\ ~orgRow'[tab[t].on].closed => Founded(tab[t].on, tab[t].form)'
        BY <1>r
    <2>1. tab[t].on \in Workspaces
        BY DEF OnboardingTypeOK, TabCalls
    <2> QED BY <1>r, <2>1 DEF Founded, Existing
<1>1. CASE RestartOnboarding
    BY <1>1 DEF RestartOnboarding
<1>2. ASSUME NEW o \in Workspaces, DeleteOrganization(o)
      PROVE  InItsWay'
    BY <1>2, <1>r DEF DeleteOrganization
<1>3. ASSUME NEW o \in Workspaces, Saved(o)
      PROVE  InItsWay'
    <2>1. \A p \in Workspaces : orgRow'[p] = IF p = o THEN org[o] ELSE orgRow[p]
        BY <1>3 DEF Saved, OnboardingTypeOK
    <2>2. UNCHANGED tab
        BY <1>3 DEF Saved
    <2> QED BY <1>r, <2>1, <2>2 DEF LocksHeld
<1>4. ASSUME NEW t \in Tabs, Welcome(t)
      PROVE  InItsWay'
    BY <1>4 DEF Welcome, OnboardingTypeOK, Founded, Existing
<1>5. ASSUME NEW t \in Tabs, NEW o \in Workspaces, Found(t, o)
      PROVE  InItsWay'
    <2>1. \A u \in Tabs : tab'[u].at \in {"duplicate", "refused"} => u # t /\ tab'[u] = tab[u]
        BY <1>5 DEF Found, OnboardingTypeOK
    <2>2. \A p \in Workspaces \ {o} : orgRow'[p] = orgRow[p]
        BY <1>5 DEF Found, OnboardingTypeOK
    <2>3. \A u \in Tabs : tab[u].at \in {"duplicate", "refused"} => tab[u].on \in Workspaces \ {o}
        BY <1>5 DEF Found, OnboardingTypeOK, TabCalls
    <2> QED BY <2>1, <2>2, <2>3 DEF Founded, Existing
<1>6. ASSUME NEW t \in Tabs, NEW o \in Workspaces, Duplicate(t, o)
      PROVE  InItsWay'
    <2>1. /\ tab'[t].at = "duplicate" /\ tab'[t].form = tab[t].form /\ tab'[t].on = o
          /\ tab'[t].unfinished = (orgRow[o].status = "IN_PROGRESS")
        BY <1>6 DEF Duplicate, OnboardingTypeOK
    <2>2. (\A u \in Tabs \ {t} : tab'[u] = tab[u]) /\ UNCHANGED orgRow
        BY <1>6 DEF Duplicate, OnboardingTypeOK
    <2>3. orgRow[o].status # "none"
        BY <1>6 DEF Duplicate, InTheWay
    <2>4. orgRow[o].status = "IN_PROGRESS" \/ orgRow[o].closed \/ Founded(o, tab[t].form)
        BY <1>6, WayIsKnown
    <2> QED BY <2>1, <2>2, <2>3, <2>4 DEF Founded, Existing
<1>7. ASSUME NEW t \in Tabs, LookUp(t)
      PROVE  InItsWay'
    BY <1>7 DEF LookUp, Answerable, OnboardingTypeOK, TabCalls, Founded, Existing
<1>8. ASSUME NEW t \in Tabs, ReserveOrganization(t) \/ FoundingFails(t)
      PROVE  InItsWay'
    <2>1. UNCHANGED orgRow
        BY <1>8 DEF ReserveOrganization, FoundingFails
    <2>2. tab' = [tab EXCEPT ![t].at = "founding"] \/ tab' = [tab EXCEPT ![t] = [at |-> "closed"]]
        BY <1>8 DEF ReserveOrganization, FoundingFails
    <2>3. tab'[t].at \in {"founding", "closed"} /\ \A u \in Tabs \ {t} : tab'[u] = tab[u]
        <3>1. CASE tab' = [tab EXCEPT ![t].at = "founding"]
            BY <3>1 DEF OnboardingTypeOK, TabCalls
        <3>2. CASE tab' = [tab EXCEPT ![t] = [at |-> "closed"]]
            BY <3>2 DEF OnboardingTypeOK
        <3> QED BY <2>2, <3>1, <3>2
    <2> QED BY <2>1, <2>3 DEF Founded, Existing
<1>9. ASSUME NEW t \in Tabs, NEW o \in Workspaces, Complete(t, o)
      PROVE  InItsWay'
    BY <1>9 DEF Complete, OnboardingTypeOK, Founded, Existing
<1>10. ASSUME NEW t \in Tabs, NEW wizard \in BOOLEAN, NEW form \in Forms \cup {NoForm},
              NEW name \in Names, Enter(t, wizard, form, name)
       PROVE  InItsWay'
    BY <1>10 DEF Enter, OnboardingTypeOK, Founded, Existing
<1>11. CASE UNCHANGED onboardingVars
    BY <1>11 DEF onboardingVars, Founded, Existing
<1> QED
    BY <1>1, <1>2, <1>3, <1>4, <1>5, <1>6, <1>7, <1>8, <1>9, <1>10, <1>11 DEF OnboardingNext

\* A step keeps the calls at an organization apart, and the count of its welcomes right.
LEMMA GreetStep ==
    OnboardingInv /\ [OnboardingNext]_onboardingVars => OneGreets' /\ WelcomedOnce'
<1> SUFFICES ASSUME OnboardingInv, [OnboardingNext]_onboardingVars
             PROVE  OneGreets' /\ WelcomedOnce'
    OBVIOUS
<1> USE DEF OnboardingInv, OneGreets, WelcomedOnce, Seeds, Being, Stands
<1>0. ASSUME \A o \in Workspaces : org'[o].status = org[o].status,
             \A t \in Tabs : tab'[t] = tab[t] \/ (tab[t].at # "seeding" /\ tab'[t].at # "seeding"),
             UNCHANGED <<welcomed, overlapped, severed>>
      PROVE  OneGreets' /\ WelcomedOnce'
    BY <1>0
<1>1. CASE RestartOnboarding
    <2>1. \A t \in Tabs : tab'[t].at # "seeding"
        BY <1>1 DEF RestartOnboarding, Closed
    <2>2. \A o \in Workspaces \ (overlapped' \cup severed') :
              /\ o \in Workspaces \ (overlapped \cup severed)
              /\ org'[o].status = org[o].status /\ ~Being(o)
        BY <1>1 DEF RestartOnboarding
    <2>3. UNCHANGED welcomed
        BY <1>1 DEF RestartOnboarding
    <2> QED BY <2>1, <2>2, <2>3
<1>2. ASSUME NEW o \in Workspaces, DeleteOrganization(o) \/ Saved(o)
      PROVE  OneGreets' /\ WelcomedOnce'
    <2>1. UNCHANGED <<tab, welcomed, overlapped, severed>>
        BY <1>2 DEF DeleteOrganization, Saved
    <2>2. \A p \in Workspaces : org'[p].status = org[p].status
        BY <1>2 DEF DeleteOrganization, Saved, OnboardingTypeOK, Organization
    <2> QED BY <2>1, <2>2, <1>0
<1>3. ASSUME NEW t \in Tabs, Welcome(t)
      PROVE  OneGreets' /\ WelcomedOnce'
    <2>1. PICK o \in Workspaces : o = tab[t].on /\ tab[t].wizard \in BOOLEAN /\ Seeds(t, o)
        BY <1>3 DEF Welcome, OnboardingTypeOK, TabCalls
    <2>2. /\ \A p \in Workspaces \ {o} : org'[p] = org[p] /\ welcomed'[p] = welcomed[p]
          /\ welcomed'[o] = welcomed[o] + 1
          /\ org'[o].status = IF tab[t].wizard THEN "COMPLETED" ELSE org[o].status
        BY <1>3, <2>1 DEF Welcome, OnboardingTypeOK, Cleared, Organization
    <2>3. tab'[t].at = "closed" /\ \A u \in Tabs \ {t} : tab'[u] = tab[u]
        BY <1>3 DEF Welcome, Leave, Closed, OnboardingTypeOK
    <2>4. UNCHANGED <<overlapped, severed>>
        BY <1>3 DEF Welcome
    <2>5. OneGreets'
        BY <2>1, <2>2, <2>3, <2>4
    <2>6. ASSUME o \notin overlapped \cup severed
          PROVE  welcomed'[o] = 1 /\ org'[o].status = "COMPLETED" /\ ~Being(o)'
        <3>1. \A u \in Tabs : Seeds(u, o) => u = t
            BY <2>1, <2>6
        <3>2. welcomed[o] = 0
            BY <2>1, <2>6
        <3>3. org'[o].status = "COMPLETED"
            BY <2>1, <2>2, <2>6
        <3>4. ~Being(o)'
            BY <2>3, <3>1
        <3> QED BY <2>1, <2>2, <3>2, <3>3, <3>4
    <2>7. ASSUME NEW p \in Workspaces, p # o
          PROVE  Being(p)' <=> Being(p)
        BY <2>1, <2>3, <2>7
    <2>8. ASSUME NEW p \in Workspaces \ (overlapped' \cup severed')
          PROVE  welcomed'[p] = IF org'[p].status = "COMPLETED" /\ ~Being(p)' THEN 1 ELSE 0
        <3>1. CASE p = o
            BY <2>4, <2>6, <2>8, <3>1
        <3>2. CASE p # o
            BY <2>2, <2>4, <2>7, <2>8, <3>2
        <3> QED BY <3>1, <3>2
    <2> QED BY <2>5, <2>8
<1>4. ASSUME NEW t \in Tabs, NEW o \in Workspaces, Found(t, o)
      PROVE  OneGreets' /\ WelcomedOnce'
    <2>1. org[o].status = "none" /\ \A p \in Workspaces \ {o} : org'[p] = org[p]
        BY <1>4 DEF Found, LocksHeld, OnboardingTypeOK
    <2>2. /\ tab'[t].at \in {"closed", "seeding"}
          /\ tab'[t].at = "seeding" => tab'[t].on = o /\ ~tab'[t].wizard /\ org'[o].status = "COMPLETED"
          /\ tab'[t].at = "closed" => org'[o].status = "IN_PROGRESS"
          /\ org'[o].status \in {"IN_PROGRESS", "COMPLETED"}
        BY <1>4 DEF Found, OnboardingTypeOK, TabCalls, Leave, Closed
    <2>3. tab[t].at = "founding" /\ \A u \in Tabs \ {t} : tab'[u] = tab[u]
        BY <1>4 DEF Found, OnboardingTypeOK, Leave
    <2>4. UNCHANGED <<welcomed, overlapped, severed>>
        BY <1>4 DEF Found
    <2>5. \A u \in Tabs : ~Seeds(u, o)
        BY <2>1
    <2>6. OneGreets'
        BY <2>1, <2>2, <2>3, <2>4, <2>5
    <2>7. \A p \in Workspaces \ {o} : Being(p)' <=> Being(p)
        BY <2>2, <2>3
    <2>8. Being(o)' <=> org'[o].status = "COMPLETED"
        BY <2>2, <2>3, <2>5
    <2> QED BY <2>1, <2>4, <2>6, <2>7, <2>8
<1>5. ASSUME NEW t \in Tabs, NEW o \in Workspaces, Complete(t, o)
      PROVE  OneGreets' /\ WelcomedOnce'
    <2>1. UNCHANGED <<org, welcomed, severed>> /\ org[o].status = "IN_PROGRESS"
        BY <1>5 DEF Complete, MayComplete, Existing, OnboardingTypeOK, Organization
    <2>2. /\ tab[t].at # "seeding" /\ \A u \in Tabs \ {t} : tab'[u] = tab[u]
          /\ tab'[t].at = "seeding" /\ tab'[t].on = o /\ tab'[t].wizard
        BY <1>5 DEF Complete, OnboardingTypeOK
    <2>3. overlapped \subseteq overlapped' /\ (o \notin overlapped' => \A u \in Tabs : ~Seeds(u, o))
        BY <1>5 DEF Complete
    <2>4. \A p \in Workspaces : Being(p)' <=> Being(p)
        BY <2>2
    <2>5. OneGreets'
        BY <2>1, <2>2, <2>3
    <2> QED BY <2>1, <2>3, <2>4, <2>5
<1>6. ASSUME NEW t \in Tabs,
             \/ ReserveOrganization(t) \/ LookUp(t) \/ FoundingFails(t) \/ \E o \in Workspaces : Duplicate(t, o)
             \/ \E wizard \in BOOLEAN, form \in Forms \cup {NoForm}, name \in Names :
                    Enter(t, wizard, form, name)
      PROVE  OneGreets' /\ WelcomedOnce'
    <2>1. UNCHANGED <<org, welcomed, overlapped, severed>> /\ tab[t].at # "seeding"
        BY <1>6 DEF ReserveOrganization, LookUp, FoundingFails, Duplicate, Enter
    <2>2. tab'[t].at # "seeding" /\ \A u \in Tabs \ {t} : tab'[u] = tab[u]
        <3>1. CASE ReserveOrganization(t) \/ LookUp(t) \/ FoundingFails(t)
            <4>1. CASE Leave(t)
                BY <4>1 DEF Leave, Closed, OnboardingTypeOK
            <4>2. ASSUME NEW at \in {"founding", "refused"}, GoOn(t, at)
                  PROVE  tab'[t].at # "seeding" /\ \A u \in Tabs \ {t} : tab'[u] = tab[u]
                BY <4>2 DEF GoOn, OnboardingTypeOK, TabCalls
            <4> QED BY <3>1, <4>1, <4>2 DEF ReserveOrganization, LookUp, FoundingFails
        <3>2. CASE \E o \in Workspaces : Duplicate(t, o)
            BY <3>2 DEF Duplicate, OnboardingTypeOK
        <3>3. CASE \E wizard \in BOOLEAN, form \in Forms \cup {NoForm}, name \in Names :
                       Enter(t, wizard, form, name)
            BY <3>3 DEF Enter, OnboardingTypeOK
        <3> QED BY <1>6, <3>1, <3>2, <3>3
    <2> QED BY <2>1, <2>2, <1>0
<1>7. CASE UNCHANGED onboardingVars
    BY <1>7, <1>0 DEF onboardingVars
<1> QED BY <1>1, <1>2, <1>3, <1>4, <1>5, <1>6, <1>7 DEF OnboardingNext

\* All of it holds at every time.
LEMMA OnboardingInvHolds == OnboardingSafety => []OnboardingInv
<1>1. OnboardingInit => OnboardingInv
    BY DEF OnboardingInit, OnboardingInv, OnboardingTypeOK, Unfounded, Organization, TabCalls,
           LocksHeld, OneIs, InItsWay, OneGreets, Seeds, WelcomedOnce, Stands, Closed
<1>2. OnboardingInv /\ [OnboardingNext]_onboardingVars => OnboardingInv'
    BY OnboardingTypeStep, LocksStep, WayStep, GreetStep DEF OnboardingInv
<1> QED BY <1>1, <1>2, PTL DEF OnboardingSafety

\* Every variable keeps its type, the slug an organization gets included.
THEOREM OnboardingTypeCorrect == OnboardingSafety => []OnboardingTypeOK
<1>1. OnboardingInv => OnboardingTypeOK
    BY DEF OnboardingInv
<1> QED BY <1>1, OnboardingInvHolds, PTL

\* However many tabs found at the same time, an owner has one unfinished organization:
\* the lock of the owner refuses the others.
THEOREM UnfinishedIsOne == OnboardingSafety => []OneUnfinished
<1>1. OnboardingInv => OneUnfinished
    BY DEF OnboardingInv, LocksHeld, OneIs, OneUnfinished, Unfinished
<1> QED BY <1>1, OnboardingInvHolds, PTL

\* An organization is welcomed once, unless two completions of it overlapped or the
\* program restarted before its completion was saved.
THEOREM WelcomesAreOnce == OnboardingSafety => []WelcomedOnce
<1>1. OnboardingInv => WelcomedOnce
    BY DEF OnboardingInv
<1> QED BY <1>1, OnboardingInvHolds, PTL

\* Whatever the other tabs founded, completed or deleted, a founding that is refused
\* finds what to go on with, with the exceptions the property names.
THEOREM NobodyIsLockedOut == OnboardingSafety => []NeverLockedOut
<1>1. OnboardingInv => NeverLockedOut
    BY DEF OnboardingInv, InItsWay, NeverLockedOut
<1> QED BY <1>1, OnboardingInvHolds, PTL

-----------------------------------------------------------------------------
(* Members *)

\* A call accepts an invitation that was sent.
Accepted ==
    \A r \in Visits : visit[r].at \in {"accepting", "joining"} =>
                          invited[visit[r].on] \in Persons

\* A call that waits for the writes waits for a membership of the member it is about; he has
\* one that is active unless he was removed; one in a detached list is known to be.
Waits(p, m) ==
    /\ p \in dismissed \/ Belongs(p)
    /\ m # NoSeat => seat[m].of = p /\ (m \in adrift => p \in unlisted)
Awaited ==
    \A r \in Visits :
        visit[r].at = "joining" => Waits(invited[visit[r].on], visit[r].with)

\* Who was told that he joined has a membership that is in its row.
Recorded ==
    \A p \in told \ (unlisted \cup leaned) :
        \E m \in Seats : seat[m] = Active(p) /\ seatRow[m] = Active(p)

\* Only a detached list leaves memberships out.
Drifting == adrift # {} => detached

TeamIsSound == Accepted /\ Awaited /\ Recorded /\ Drifting
MembersInv == MembersTypeOK /\ TeamIsSound

\* The variables keep their types.
LEMMA MembersTypeStep ==
    MembersTypeOK /\ Accepted /\ [MembersNext]_memberVars => MembersTypeOK'
<1> SUFFICES ASSUME MembersTypeOK, Accepted, [MembersNext]_memberVars
             PROVE  MembersTypeOK'
    OBVIOUS
<1> USE MembersAssumption DEF MembersTypeOK, invitedVars, joinVars, Active
<1>1. CASE PurgeStale
    BY <1>1 DEF PurgeStale
<1>2. CASE RestartMembers
    BY <1>2 DEF RestartMembers, Free
<1>3. ASSUME NEW i \in Invitations,
             RevokeOrExpire(i) \/ AcceptanceSaved(i) \/ \E p \in Persons : InviteMember(i, p)
      PROVE  MembersTypeOK'
    BY <1>3 DEF RevokeOrExpire, AcceptanceSaved, InviteMember
<1>4. ASSUME NEW i \in Invitations, NEW r \in Visits, AcceptInvitationForUser(r, i)
      PROVE  MembersTypeOK'
    BY <1>4 DEF AcceptInvitationForUser
<1>5. ASSUME NEW m \in Seats, RemoveMember(m) \/ SeatSaved(m)
      PROVE  MembersTypeOK'
    <2>1. CASE RemoveMember(m)
        <3>1. [seat[m] EXCEPT !.status = "REMOVED"]
                  \in [of : Persons \cup {NoOne}, status : {"none", "ACTIVE", "REMOVED"}]
            OBVIOUS
        <3> QED BY <2>1, <3>1 DEF RemoveMember
    <2>2. CASE SeatSaved(m)
        BY <2>2 DEF SeatSaved
    <2> QED BY <1>5, <2>1, <2>2
<1>6. ASSUME NEW r \in Visits, Joined(r)
      PROVE  MembersTypeOK'
    <2>1. invited[visit[r].on] \in Persons
        BY <1>6 DEF Joined, Accepted
    <2> QED BY <1>6, <2>1 DEF Joined, Free
<1>7. ASSUME NEW r \in Visits, MissMembership(r)
      PROVE  MembersTypeOK'
    BY <1>7 DEF MissMembership
<1>8. ASSUME NEW r \in Visits, NEW m \in Seats \cup {NoSeat}, JoinTeam(r, m)
      PROVE  MembersTypeOK'
    <2>1. visit[r].on \in Invitations /\ invited[visit[r].on] \in Persons
        BY <1>8 DEF JoinTeam, Accepted
    <2>2. [at |-> "joining", on |-> visit[r].on, with |-> m]
              \in [at : {"joining"}, on : Invitations, with : Seats \cup {NoSeat}]
        BY <2>1
    <2>3. CASE HasOne(invited[visit[r].on])
        BY <1>8, <2>1, <2>2, <2>3 DEF JoinTeam
    <2>4. CASE ~HasOne(invited[visit[r].on])
        BY <1>8, <2>1, <2>2, <2>4 DEF JoinTeam
    <2> QED BY <2>3, <2>4
<1>9. ASSUME NEW r \in Visits, NEW m \in Seats, RestoreOwner(r, m)
      PROVE  MembersTypeOK'
    BY <1>9 DEF RestoreOwner, Free
<1>10. CASE UNCHANGED memberVars
    BY <1>10 DEF memberVars
<1> QED BY <1>1, <1>2, <1>3, <1>4, <1>5, <1>6, <1>7, <1>8, <1>9, <1>10 DEF MembersNext

Rest ==
    /\ UNCHANGED <<seat, adrift, told, dismissed, unlisted, leaned>>
    /\ \A i \in Invitations : invited[i] \in Persons => invited'[i] = invited[i]
    /\ \A r \in Visits : visit'[r] = visit[r] \/ visit'[r].at \in {"free", "restoring"}
    /\ \A m \in Seats : seatRow'[m] = seatRow[m] \/ seatRow'[m] = seat[m]
    /\ detached => detached'

\* The rest of the invariant survives what leaves memberships, answers and calls alone.
LEMMA MembersRest ==
    ASSUME MembersInv,
           Rest
    PROVE  TeamIsSound'
<1> USE MembersAssumption DEF Rest, MembersInv, MembersTypeOK, TeamIsSound
<1>1. \A r \in Visits : visit'[r].at \in {"accepting", "joining"} =>
          /\ visit'[r] = visit[r] /\ visit[r].on \in Invitations
          /\ invited'[visit[r].on] = invited[visit[r].on]
    BY DEF Accepted
<1>2. Accepted'
    BY <1>1 DEF Accepted
<1>3. Awaited'
    BY <1>1 DEF Awaited, Waits, Belongs
<1>4. Recorded'
    BY DEF Recorded, Active
<1>5. Drifting'
    BY DEF Drifting
<1> QED BY <1>2, <1>3, <1>4, <1>5

\* A step keeps the rest of the invariant.
LEMMA MembersStep == MembersInv /\ [MembersNext]_memberVars => TeamIsSound'
<1> SUFFICES ASSUME MembersInv, [MembersNext]_memberVars
             PROVE  TeamIsSound'
    OBVIOUS
<1> USE MembersAssumption DEF MembersInv, MembersTypeOK, TeamIsSound, invitedVars, joinVars, Free
<1>1. CASE PurgeStale \/ UNCHANGED memberVars
    <2>1. Rest
        BY <1>1 DEF PurgeStale, memberVars, Rest
    <2> QED BY <2>1, MembersRest
<1>2. CASE RestartMembers
    BY <1>2 DEF RestartMembers, Accepted, Awaited, Waits, Recorded, Drifting
<1>3. ASSUME NEW i \in Invitations,
             RevokeOrExpire(i) \/ AcceptanceSaved(i) \/ \E p \in Persons : InviteMember(i, p)
      PROVE  TeamIsSound'
    <2>1. Rest
        BY <1>3 DEF RevokeOrExpire, AcceptanceSaved, InviteMember, Rest
    <2> QED BY <2>1, MembersRest
<1>4. ASSUME NEW i \in Invitations, NEW r \in Visits, AcceptInvitationForUser(r, i)
      PROVE  TeamIsSound'
    BY <1>4 DEF AcceptInvitationForUser, Standing, Accepted, Awaited, Waits, Recorded, Belongs, Drifting
<1>5. ASSUME NEW m \in Seats, SeatSaved(m)
      PROVE  TeamIsSound'
    <2>1. Rest
        BY <1>5 DEF SeatSaved, Rest
    <2> QED BY <2>1, MembersRest
<1>6. ASSUME NEW m \in Seats, RemoveMember(m)
      PROVE  TeamIsSound'
    <2>1. seat[m].of \in Persons /\ seat'[m].of = seat[m].of
          /\ \A n \in Seats \ {m} : seat'[n] = seat[n]
        BY <1>6 DEF RemoveMember
    <2>2. UNCHANGED <<invited, visit, adrift, unlisted, leaned, seatRow>>
          /\ told' = told \ {seat[m].of} /\ dismissed' = dismissed \cup {seat[m].of}
        BY <1>6 DEF RemoveMember
    <2>3. Accepted'
        BY <2>2 DEF Accepted
    <2>4. \A p \in Persons : p = seat[m].of \/ (Belongs(p) => Belongs(p)')
        BY <2>1 DEF Belongs, Active
    <2>5. Awaited'
        BY <2>1, <2>2, <2>4 DEF Awaited, Waits, Accepted
    <2>6. Recorded'
        BY <2>1, <2>2 DEF Recorded, Active
    <2> QED BY <1>6, <2>3, <2>5, <2>6 DEF RemoveMember, Drifting
<1>7. ASSUME NEW r \in Visits, Joined(r)
      PROVE  TeamIsSound'
    <2>1. PICK p \in Persons, m \in Seats \cup {NoSeat} :
              p = invited[visit[r].on] /\ m = visit[r].with /\ visit[r].at = "joining"
        BY <1>7 DEF Joined, Accepted
    <2>2. UNCHANGED <<invited, seat, seatRow, adrift, dismissed, unlisted>>
          /\ visit' = [visit EXCEPT ![r] = Free]
        BY <1>7 DEF Joined
    <2>3. Accepted' /\ Awaited'
        BY <2>2 DEF Accepted, Awaited, Waits, Belongs
    <2>4. told' \subseteq told \cup {p} /\ leaned \subseteq leaned'
        BY <1>7, <2>1 DEF Joined
    <2>5. ASSUME p \in told', p \notin told, p \notin unlisted \cup leaned'
          PROVE  \E n \in Seats : seat[n] = Active(p) /\ seatRow[n] = Active(p)
        <3>1. Belongs(p)
            BY <1>7, <2>1, <2>5 DEF Joined, Awaited, Waits
        <3>2. CASE m = NoSeat \/ seat[m] # Active(p)
            BY <1>7, <2>1, <2>5, <3>1, <3>2 DEF Joined, Leaning
        <3>3. CASE m \in Seats /\ seat[m] = Active(p)
            BY <1>7, <2>1, <2>5, <3>3 DEF Joined, Awaited, Waits
        <3> QED BY <3>2, <3>3
    <2>6. Recorded'
        BY <2>2, <2>4, <2>5 DEF Recorded
    <2> QED BY <1>7, <2>3, <2>6 DEF Joined, Drifting
<1>8. ASSUME NEW r \in Visits, MissMembership(r)
      PROVE  TeamIsSound'
    <2>1. Rest
        BY <1>8 DEF MissMembership, Rest
    <2> QED BY <2>1, MembersRest
<1>9. ASSUME NEW r \in Visits, NEW m \in Seats \cup {NoSeat}, JoinTeam(r, m)
      PROVE  TeamIsSound'
    <2>1. PICK i \in Invitations, p \in Persons : i = visit[r].on /\ p = invited[i]
        BY <1>9 DEF JoinTeam, Accepted
    <2>2. /\ UNCHANGED <<invited, seatRow, told, leaned>>
          /\ visit' = [visit EXCEPT ![r] = [at |-> "joining", on |-> i, with |-> m]]
          /\ dismissed' = dismissed \ {p}
        BY <1>9, <2>1 DEF JoinTeam
    <2>3. Accepted'
        BY <2>1, <2>2 DEF Accepted
    <2>4. CASE HasOne(p)
        <3>1. m = NoSeat /\ UNCHANGED <<seat, adrift, unlisted>>
            BY <1>9, <2>1, <2>4 DEF JoinTeam
        <3>2. Awaited'
            BY <2>1, <2>2, <2>4, <3>1 DEF Awaited, Waits, HasOne, Belongs
        <3>3. Recorded'
            BY <2>2, <3>1 DEF Recorded
        <3> QED BY <1>9, <2>3, <3>1, <3>2, <3>3 DEF JoinTeam, Drifting
    <2>5. CASE ~HasOne(p)
        <3>1. /\ m \in Seats /\ seat[m].of = NoOne /\ seat' = [seat EXCEPT ![m] = Active(p)]
              /\ adrift' = IF detached THEN adrift \cup {m} ELSE adrift
              /\ unlisted' = IF detached THEN unlisted \cup {p} ELSE unlisted
              /\ UNCHANGED detached
            BY <1>9, <2>1, <2>5 DEF JoinTeam, Unused, Vacant
        <3>2. Drifting'
            BY <3>1 DEF Drifting
        <3>3. seat'[m] = Active(p) /\ \A n \in Seats \ {m} : seat'[n] = seat[n]
            BY <3>1
        <3>4. Belongs(p)' /\ \A q \in Persons : Belongs(q) => Belongs(q)'
            BY <3>1, <3>3 DEF Belongs, Active
        <3>5. Awaited'
            <4> SUFFICES ASSUME NEW u \in Visits, visit'[u].at = "joining"
                         PROVE  Waits(invited[visit[u].on], visit[u].with)'
                BY DEF Awaited
            <4>1. CASE u = r
                <5>1. invited'[visit'[u].on] = p /\ visit'[u].with = m
                    BY <2>1, <2>2, <4>1
                <5>2. m \in adrift' => p \in unlisted'
                    BY <3>1 DEF Drifting
                <5> QED BY <3>3, <3>4, <5>1, <5>2 DEF Waits, Active
            <4>2. CASE u # r
                <5>1. visit'[u] = visit[u] /\ visit[u].at = "joining"
                    BY <2>2, <4>2
                <5>2. PICK q \in Persons, n \in Seats \cup {NoSeat} :
                          q = invited[visit[u].on] /\ n = visit[u].with
                    BY <5>1 DEF Accepted
                <5>3. Waits(q, n)
                    BY <5>1, <5>2 DEF Awaited
                <5>4. n # m
                    BY <3>1, <5>3 DEF Waits
                <5>5. q \in dismissed' \/ Belongs(q)'
                    BY <2>2, <3>4, <5>3 DEF Waits
                <5>6. n # NoSeat => seat'[n].of = q /\ (n \in adrift' => q \in unlisted')
                    BY <3>1, <3>3, <5>3, <5>4 DEF Waits
                <5>7. invited'[visit'[u].on] = q /\ visit'[u].with = n
                    BY <2>2, <5>1, <5>2
                <5> QED BY <5>5, <5>6, <5>7 DEF Waits
            <4> QED BY <4>1, <4>2
        <3>6. Recorded'
            BY <2>2, <3>1, <3>3 DEF Recorded, Active
        <3> QED BY <2>3, <3>2, <3>5, <3>6
    <2> QED BY <2>4, <2>5
<1>10. ASSUME NEW r \in Visits, NEW m \in Seats, RestoreOwner(r, m)
       PROVE  TeamIsSound'
    <2>1. /\ seat[m].of = NoOne /\ seatRow[m].of = NoOne
          /\ seat' = [seat EXCEPT ![m] = Active(Founder)]
          /\ seatRow' = [seatRow EXCEPT ![m] = Active(Founder)]
          /\ adrift' = IF detached THEN adrift \cup {m} ELSE adrift
          /\ visit' = [visit EXCEPT ![r] = Free]
          /\ UNCHANGED <<invited, detached, told, dismissed, unlisted, leaned>>
        BY <1>10 DEF RestoreOwner, Unused, Vacant
    <2>2. Accepted'
        BY <2>1 DEF Accepted
    <2>3. \A p \in Persons : Belongs(p) => Belongs(p)'
        BY <2>1 DEF Belongs, Active
    <2>4. Awaited'
        BY <2>1, <2>3 DEF Awaited, Waits, Accepted
    <2>5. Recorded'
        BY <2>1 DEF Recorded, Active
    <2> QED BY <2>1, <2>2, <2>4, <2>5 DEF Drifting
<1> QED BY <1>1, <1>2, <1>3, <1>4, <1>5, <1>6, <1>7, <1>8, <1>9, <1>10 DEF MembersNext

\* All of it holds at every time.
LEMMA MembersInvHolds == MembersSafety => []MembersInv
<1>1. MembersInit => MembersInv
    <2> SUFFICES ASSUME MembersInit PROVE MembersInv
        OBVIOUS
    <2> USE MembersAssumption DEF MembersInit, Free
    <2>1. \A m \in Seats : Founders[m] \in [of : Persons \cup {NoOne},
                                            status : {"none", "ACTIVE", "REMOVED"}]
        BY DEF Founders, Active, Vacant
    <2>2. MembersTypeOK
        BY <2>1 DEF MembersTypeOK, Founders
    <2>3. TeamIsSound
        BY DEF TeamIsSound, Accepted, Awaited, Recorded, Drifting
    <2> QED BY <2>2, <2>3 DEF MembersInv
<1>2. MembersInv /\ [MembersNext]_memberVars => MembersInv'
    BY MembersTypeStep, MembersStep DEF MembersInv, TeamIsSound
<1> QED BY <1>1, <1>2, PTL DEF MembersSafety

\* Every variable keeps its type.
THEOREM MembersTypeCorrect == MembersSafety => []MembersTypeOK
<1>1. MembersInv => MembersTypeOK
    BY DEF MembersInv
<1> QED BY <1>1, MembersInvHolds, PTL

\* Who is told of a membership has one, however the calls that give and take it
\* overlap, with the exceptions the property names.
THEOREM WhoIsToldIsMember == MembersSafety => []ToldIsMember
<1>1. MembersInv => ToldIsMember
    BY DEF MembersInv, TeamIsSound, Recorded, ToldIsMember, Belongs
<1> QED BY <1>1, MembersInvHolds, PTL
=============================================================================

------------------------------ MODULE Onboarding -----------------------------
(***************************************************************************)
(* How one customer founds organizations: through the wizard, which makes  *)
(* an organization at its first step and completes it at its last, or at   *)
(* once (OrganizationsService.create, onboardingOrg, completeOnboarding);  *)
(* and how he deletes them (deleteOrganization).                           *)
(*                                                                         *)
(* An organization is an entity in memory and a row; what is set on the    *)
(* entity reaches the row in one of the writes that follow.  New rows must *)
(* pass three unique indexes: on the form's key, on onboardingLockKey and  *)
(* on the slug.  Left out are the names of other customers' organizations, *)
(* later changes of a slug, and calls that find the row of an organization *)
(* whose deletion is being written (the last resort of findOne).           *)
(***************************************************************************)
EXTENDS Integers, FiniteSets

CONSTANTS
    Tabs,           \* browser tabs; each makes one call at a time
    Workspaces,     \* organizations the customer may found
    Forms,          \* idempotency keys, one for each time the wizard's form is opened
    NoForm,
    Names,          \* names for organizations
    OrgLimit,       \* how many organizations the account may have
    MaxWelcomes     \* bound: completions of one organization

ASSUME OnboardingAssumption ==
    /\ IsFiniteSet(Workspaces)
    /\ NoForm \notin Forms
    /\ OrgLimit \in Nat /\ MaxWelcomes \in Nat

VARIABLES
    org,            \* the entity in memory
    orgRow,         \* its row
    tab,            \* where a tab's call stands
    welcomed,       \* how often an organization was audited, announced and welcomed
    overlapped,     \* history: organizations that two calls completed at a time
    severed         \* history: organizations whose seeding, or its record, a restart cut off

onboardingVars == <<org, orgRow, tab, welcomed, overlapped, severed>>

Unfounded ==
    [status |-> "none", form |-> NoForm, slug |-> <<>>, lock |-> FALSE, closed |-> FALSE]
Closed == [at |-> "closed"]
Stands(t, places) == tab[t].at \in places

OnboardingInit ==
    /\ org = [o \in Workspaces |-> Unfounded]
    /\ orgRow = [o \in Workspaces |-> Unfounded]
    /\ tab = [t \in Tabs |-> Closed]
    /\ welcomed = [o \in Workspaces |-> 0]
    /\ overlapped = {}
    /\ severed = {}

-----------------------------------------------------------------------------
(* Lookups.  An operator whose name has an underscore is the operator before  *)
(* the underscore with a slip in it.                                          *)

Existing(o, copy) == copy[o].status # "none" /\ ~copy[o].closed

\* findInProgressOnboardingOrg and findByIdempotencyKey read rows.
Unfinished(o) == Existing(o, orgRow) /\ orgRow[o].status = "IN_PROGRESS"
Founded(o, form) == Existing(o, orgRow) /\ form # NoForm /\ orgRow[o].form = form
Answerable(wizard, form) ==
    \E o \in Workspaces : Founded(o, form) \/ (wizard /\ Unfinished(o))

\* The first slug that no live organization has.
SlugTaken(name, n) == \E o \in Workspaces : Existing(o, orgRow) /\ orgRow[o].slug = <<name, n>>
SlugFor(name) ==
    <<name, CHOOSE n \in 0..Cardinality(Workspaces) :
                /\ ~SlugTaken(name, n)
                /\ \A m \in 0..(n - 1) : SlugTaken(name, m)>>

\* A row on which one of the unique indexes refuses the organization of call c.
InTheWay(o, c) ==
    /\ orgRow[o].status # "none"
    /\ \/ c.form # NoForm /\ orgRow[o].form = c.form
       \/ c.wizard /\ orgRow[o].lock
       \/ orgRow[o].slug = SlugFor(c.name)

\* The lock of the account's organizations: a call has it from its check of the limit on.
Founding(t) == Stands(t, {"founding", "duplicate"}) \/ (Stands(t, {"seeding"}) /\ ~tab[t].wizard)

GoOn(t, at) == tab' = [tab EXCEPT ![t].at = at]
Leave(t) == tab' = [tab EXCEPT ![t] = Closed]

-----------------------------------------------------------------------------
(* Founding *)

\* onboardingOrg, or create, up to the lock.  A call that can be answered is.
Enter(t, wizard, form, name) ==
    /\ Stands(t, {"closed", "refused"})
    /\ ~wizard => form = NoForm
    /\ ~Answerable(wizard, form)
    /\ tab' = [tab EXCEPT ![t] = [at |-> "asking", wizard |-> wizard, form |-> form,
                                  name |-> name]]
    /\ UNCHANGED <<org, orgRow, welcomed, overlapped, severed>>

\* reserve: the lock is free, and there is room or not.
ReserveOrganization(t) ==
    /\ Stands(t, {"asking"})
    /\ ~\E u \in Tabs : Founding(u)
    /\ IF Cardinality({o \in Workspaces : Existing(o, org)}) < OrgLimit
       THEN GoOn(t, "founding")
       ELSE Leave(t)
    /\ UNCHANGED <<org, orgRow, welcomed, overlapped, severed>>

LockKey_Unset(wizard) == FALSE
LockKey(wizard) == wizard

\* The transaction of createOrganizationRecord commits.
Found(t, o) ==
    /\ Stands(t, {"founding"})
    /\ orgRow[o].status = "none"
    /\ ~\E p \in Workspaces : InTheWay(p, tab[t])
    /\ LET new == [status |-> IF tab[t].wizard THEN "IN_PROGRESS" ELSE "COMPLETED",
                   form |-> tab[t].form, slug |-> SlugFor(tab[t].name),
                   lock |-> LockKey(tab[t].wizard), closed |-> FALSE]
       IN  /\ orgRow' = [orgRow EXCEPT ![o] = new]
           /\ org' = [org EXCEPT ![o] = new]
    /\ IF tab[t].wizard THEN Leave(t)
       ELSE tab' = [tab EXCEPT ![t] = [at |-> "seeding", wizard |-> FALSE, on |-> o]]
    /\ UNCHANGED <<welcomed, overlapped, severed>>

\* It fails on an index; unfinished says what was in the way.
Duplicate(t, o) ==
    /\ Stands(t, {"founding"})
    /\ InTheWay(o, tab[t])
    /\ tab' = [tab EXCEPT ![t] = [at |-> "duplicate", wizard |-> @.wizard, form |-> @.form,
                                  on |-> o, unfinished |-> orgRow[o].status = "IN_PROGRESS"]]
    /\ UNCHANGED <<org, orgRow, welcomed, overlapped, severed>>

\* The organization that was in the way is looked up, and is the answer when it is found.
LookUp(t) ==
    /\ Stands(t, {"duplicate"})
    /\ IF Answerable(tab[t].wizard, tab[t].form) THEN Leave(t) ELSE GoOn(t, "refused")
    /\ UNCHANGED <<org, orgRow, welcomed, overlapped, severed>>

\* It fails for another reason.
FoundingFails(t) ==
    /\ Stands(t, {"founding"})
    /\ Leave(t)
    /\ UNCHANGED <<org, orgRow, welcomed, overlapped, severed>>

-----------------------------------------------------------------------------
(* Completing and deleting *)

MayComplete_Again(o) == Existing(o, org)
MayComplete(o) == Existing(o, org) /\ org[o].status # "COMPLETED"

\* completeOnboarding up to the wait for the trial.  Completing again changes nothing.
Complete(t, o) ==
    /\ Stands(t, {"closed", "refused"})
    /\ MayComplete(o)
    /\ welcomed[o] < MaxWelcomes
    /\ tab' = [tab EXCEPT ![t] = [at |-> "seeding", wizard |-> TRUE, on |-> o]]
    /\ overlapped' = IF \E u \in Tabs : Stands(u, {"seeding"}) /\ tab[u].on = o
                     THEN overlapped \cup {o} ELSE overlapped
    /\ UNCHANGED <<org, orgRow, welcomed, severed>>

Cleared_Undefined(o) == [org[o] EXCEPT !.status = "COMPLETED"]
Cleared(o) == [org[o] EXCEPT !.status = "COMPLETED", !.lock = FALSE]

\* The trial has started, or failed; the rest of seedOrganizationDefaults and of the caller.
Welcome(t) ==
    /\ Stands(t, {"seeding"})
    /\ LET o == tab[t].on
       IN  /\ welcomed' = [welcomed EXCEPT ![o] = @ + 1]
           /\ org' = IF tab[t].wizard THEN [org EXCEPT ![o] = Cleared(o)] ELSE org
    /\ Leave(t)
    /\ UNCHANGED <<orgRow, overlapped, severed>>

\* deleteOrganization.
DeleteOrganization(o) ==
    /\ Existing(o, org)
    /\ org' = [org EXCEPT ![o].closed = TRUE]
    /\ UNCHANGED <<orgRow, tab, welcomed, overlapped, severed>>

\* What was set on the entity is written.
Saved(o) ==
    /\ orgRow[o] # org[o]
    /\ orgRow' = [orgRow EXCEPT ![o] = org[o]]
    /\ UNCHANGED <<org, tab, welcomed, overlapped, severed>>

\* The process restarts: calls end, entities are what their rows say.
RestartOnboarding ==
    /\ org' = orgRow
    /\ tab' = [t \in Tabs |-> Closed]
    /\ severed' = severed \cup {o \in Workspaces :
                      \/ org[o].status # orgRow[o].status
                      \/ \E t \in Tabs : Stands(t, {"seeding"}) /\ ~tab[t].wizard /\ tab[t].on = o}
    /\ UNCHANGED <<orgRow, welcomed, overlapped>>

OnboardingNext ==
    \/ RestartOnboarding
    \/ \E o \in Workspaces : DeleteOrganization(o) \/ Saved(o)
    \/ \E t \in Tabs :
          \/ ReserveOrganization(t) \/ LookUp(t) \/ FoundingFails(t) \/ Welcome(t)
          \/ \E o \in Workspaces : Found(t, o) \/ Duplicate(t, o) \/ Complete(t, o)
          \/ \E wizard \in BOOLEAN, form \in Forms \cup {NoForm}, name \in Names :
                Enter(t, wizard, form, name)

OnboardingSafety == OnboardingInit /\ [][OnboardingNext]_onboardingVars
-----------------------------------------------------------------------------
(* Properties *)

\* What the variables hold.
Organization ==
    [status : {"none", "IN_PROGRESS", "COMPLETED"}, form : Forms \cup {NoForm},
     slug : {<<>>} \cup (Names \X (0..Cardinality(Workspaces))), lock : BOOLEAN,
     closed : BOOLEAN]
TabCalls ==
    [at : {"closed"}]
    \cup [at : {"asking", "founding"}, wizard : BOOLEAN, form : Forms \cup {NoForm}, name : Names]
    \cup [at : {"duplicate", "refused"}, wizard : BOOLEAN, form : Forms \cup {NoForm},
          on : Workspaces, unfinished : BOOLEAN]
    \cup [at : {"seeding"}, wizard : BOOLEAN, on : Workspaces]
OnboardingTypeOK ==
    /\ org \in [Workspaces -> Organization]
    /\ orgRow \in [Workspaces -> Organization]
    /\ tab \in [Tabs -> TabCalls]
    /\ welcomed \in [Workspaces -> Nat]
    /\ overlapped \subseteq Workspaces /\ severed \subseteq Workspaces

\* However many tabs, forms, retries and restarts: a customer has one unfinished organization
\* (the unique index on onboardingLockKey, and when it is set and cleared).
OneUnfinished ==
    \A o, p \in Workspaces : Unfinished(o) /\ Unfinished(p) => o = p

\* An organization that is completed was welcomed once, and not before, whatever tabs complete
\* it in whatever order: unless two of them were at it together, or a restart came between
\* the welcome and its record, or into a creation without the wizard (seedOrganizationDefaults,
\* completeOnboarding).
Being(o) == \E t \in Tabs : Stands(t, {"seeding"}) /\ tab[t].on = o /\ ~tab[t].wizard
WelcomedOnce ==
    \A o \in Workspaces \ (overlapped \cup severed) :
        welcomed[o] = IF org[o].status = "COMPLETED" /\ ~Being(o) THEN 1 ELSE 0

\* A customer who is told that he cannot found an organization has a deleted one in the way,
\* which keeps its form, its lock and its slug, or finished or deleted another one just then;
\* a finished organization is never in the way (createOrganizationRecord, completeOnboarding).
NeverLockedOut ==
    \A t \in Tabs : Stands(t, {"refused"}) => tab[t].unfinished \/ orgRow[tab[t].on].closed
=============================================================================

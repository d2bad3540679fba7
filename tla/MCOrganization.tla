--------------------------- MODULE MCOrganization ---------------------------
(* One organization on small sets: its payout batches, what one affiliate is   *)
(* paid at once, who founds it beside others, and who is in its team.          *)
EXTENDS Payouts, InstantPayout, Onboarding, Members, TLC

\* Two that are alike: affiliates, tabs, invitations; requests, organizations, visits.
CONSTANTS a1, a2, r1, r2

Alike == Permutations({a1, a2}) \cup Permutations({r1, r2})

\* What a behaviour is about; the modules do not meet.
VARIABLE part

moneyVars == <<vars, instantVars>>
identityVars == <<onboardingVars, memberVars>>

InBatches(action) ==
    part = "batches" /\ action /\ UNCHANGED <<instantVars, identityVars, part>>
AtOnce ==
    part = "instant" /\ InstantNext /\ UNCHANGED <<vars, identityVars, part>>
Organizing ==
    part = "founding" /\ OnboardingNext /\ UNCHANGED <<memberVars, moneyVars, part>>
Teaming ==
    part = "team" /\ MembersNext /\ UNCHANGED <<onboardingVars, moneyVars, part>>

OrganizationInit ==
    /\ Init /\ InstantInit /\ OnboardingInit /\ MembersInit
    /\ part \in {"batches", "instant", "founding", "team"}
OrganizationNext == InBatches(Next) \/ AtOnce \/ Organizing \/ Teaming
OrganizationSafety == OrganizationInit /\ [][OrganizationNext]_<<moneyVars, identityVars, part>>

\* The Spec of Payouts, with nothing else happening.
BatchesSpec ==
    /\ OrganizationInit
    /\ [][InBatches(Next)]_<<moneyVars, identityVars, part>>
    /\ \A b \in Batches :
          WF_<<moneyVars, identityVars, part>>(InBatches(Continue(b)))
=============================================================================

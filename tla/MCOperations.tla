---------------------------- MODULE MCOperations ----------------------------
(* Instances for TLC of the modules around the core: what is reported, who is  *)
(* enrolled and who books a demonstration.                                      *)
EXTENDS Intake, PartnerDeals, Capacity, Bookings, TLC

CONSTANTS o1, o2, h1, h2, call1, call2, call3, paid, back, created, processed,
          x, y, tx, ty, k, s, id,
          p1, c1, c2, b3, ann, bob

\* Clients: two orders under one key, two orders that name one click, whose customer came
\* over another click too, and a refund; the second names an attribution.  A provider: a
\* payment that a client reports too, and two events about one refund of it.
PaymentsInUse == {call1, call2, call3, paid}
RefundsInUse  == {back, created, processed}
Order == [r \in PaymentsInUse \cup RefundsInUse |-> IF r \in {call2, call3} THEN o2 ELSE o1]
Click == [r \in PaymentsInUse |-> IF r \in {call1, call3} THEN x ELSE NoClick]
Named == [r \in PaymentsInUse |-> IF r = call2 THEN tx ELSE Nothing]
Touch == [a \in {tx, ty} |-> IF a = tx THEN x ELSE y]
Own   == [r \in PaymentsInUse |-> IF r \in {call1, call3} THEN {ty} ELSE {}]
Part  == [r \in RefundsInUse |-> 1]
Id    == [r \in RefundsInUse |-> IF r = back THEN NoId ELSE id]
Key   == [r \in PaymentsInUse \cup RefundsInUse |->
             CASE r \in {call1, call2} -> k [] r = call3 -> NoKey [] r = back -> s [] OTHER -> r]

\* An invitation is to the first person, and only the paid plan has room.
ToFirst   == [i \in Invites |-> p1]
Allowance == [q \in Plans |-> IF q = "PAID" THEN 1 ELSE 0]

\* Ann asks for all demonstrations but one.
By     == [b \in Demos |-> IF b = b3 THEN bob ELSE ann]
NoTags == [b \in Demos |-> NoTag]

Alike == Permutations({h1, h2}) \cup Permutations({c1, c2})

\* What a behaviour is about; the modules do not meet.  Who reports: API clients among
\* themselves, a client and the provider, or a deal.  Who comes and goes, and what the
\* allowance is made of, meet in the limit only: in "people" the add-ons and the plan
\* rest; in "addons" the limit moves and people are only added and suspended; in "teams"
\* the first person is enrolled, beside the teams this person joins and a program that
\* closes.
VARIABLE part

operationVars == <<intakeVars, dealVars, capacityVars, bookingVars, part>>

\* Bound on the messages of one behaviour.
CONSTANT MaxMessages
Messages == {m \in Requests \X (1..MaxSends) : m[2] <= sends[m[1]]}

Silent == IF part = "clients" THEN {paid, created, processed} ELSE {call2, call3}

OperationsInit ==
    /\ IntakeInit /\ DealsInit /\ CapacityInit /\ BookingsInit
    /\ part \in {"clients", "provider", "deal", "people", "addons", "teams", "bookings"}
    /\ part # "provider" => trusted

Reported ==
    /\ part \in {"clients", "provider"}
    /\ IntakeNext
    /\ \A r \in Silent : sends'[r] = 0
    /\ part = "clients" => trusted'
    /\ part = "provider" => UNCHANGED attribution
    /\ Cardinality(Messages') <= MaxMessages
    /\ UNCHANGED <<dealVars, capacityVars, bookingVars, part>>

Registered ==
    /\ part = "deal" /\ DealsNext
    /\ UNCHANGED <<intakeVars, capacityVars, bookingVars, part>>

OnlyAddons ==
    /\ UNCHANGED <<inviteVars, application>>
    /\ \A c \in Callers : job'[c] = NoJob \/ (job'[c][1] = "add" /\ ~Member(job'[c][2]))
OnlyFirst ==
    /\ \A c \in Callers : job'[c] = NoJob \/ Person(job'[c]) = p1
    /\ \A p \in People \ {p1} : seat'[p] = "NONE"
    /\ UNCHANGED application
Enrolled ==
    /\ part \in {"people", "addons", "teams"} /\ CapacityNext
    /\ part # "addons" => UNCHANGED <<addonVars, plan>>
    /\ part # "teams" => UNCHANGED <<program, seat>>
    /\ part = "teams" => OnlyFirst
    /\ part = "addons" => OnlyAddons
    /\ UNCHANGED <<intakeVars, dealVars, bookingVars, part>>

Booked ==
    /\ part = "bookings" /\ BookingsNext
    /\ UNCHANGED <<intakeVars, dealVars, capacityVars, part>>

OperationsNext == Reported \/ Registered \/ Enrolled \/ Booked
OperationsSafety == OperationsInit /\ [][OperationsNext]_operationVars
=============================================================================

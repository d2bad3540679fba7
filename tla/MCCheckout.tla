----------------------------- MODULE MCCheckout -----------------------------
(* Instances of Checkout for TLC: who asks for what.                        *)
EXTENDS Checkout, TLC

CONSTANTS r1, r2, r3, a, b

\* r1 and r2 are purchases of one organization, r3 of another.
Buyers == [r \in Requests |-> IF r = r3 THEN b ELSE a]

\* The two organizations have accounts of their own, or belong to one customer.
Separate == [o \in {a, b} |-> o]
Shared   == [o \in {a, b} |-> a]

\* r1 and r2 are alike where both have a key or neither has.
Alike == Permutations({r1, r2})

Once  == [r \in Requests |-> 1]
Retry == [r \in Requests |-> IF r = r1 THEN 2 ELSE 1]
=============================================================================

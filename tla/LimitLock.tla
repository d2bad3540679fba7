------------------------------ MODULE LimitLock ------------------------------
(***************************************************************************)
(* "Check the limit, then create" under the lock of one account and        *)
(* resource: LimitLockService and SubscriptionLimitService.reserve.        *)
(*                                                                         *)
(* Two layers: on a node, a chain of promises per key; between nodes, a    *)
(* named lock of the database, which a caller gives up after ten seconds   *)
(* or when the database fails, and then works without it.  MySQL gives the *)
(* lock to a connection, again and again if it asks again; the connection  *)
(* of a request whose RELEASE_LOCK fails goes back to the pool of its node *)
(* with the lock.  Every node counts what its own memory holds, which it   *)
(* loaded when it started and extends by what it creates itself.           *)
(***************************************************************************)
EXTENDS Naturals, FiniteSets, Sequences

CONSTANTS
    Nodes,          \* processes of the backend
    Requests,       \* requests for one unit each
    Allowance,      \* the effective limit
    MaxCrashes      \* bound: restarts

ASSUME LimitLockAssumption ==
    /\ IsFiniteSet(Requests)
    /\ Allowance \in Nat
    /\ MaxCrashes \in Nat

VARIABLES
    home,           \* the node that serves a request
    chain,          \* chains: the requests queued on a node, the running one first
    at,             \* where a request stands
    named,          \* the requests that hold the named lock: none or one
    leaked,         \* the nodes in whose pool a connection kept it: none or one
    known,          \* what the memory of a node holds
    rows,           \* what the database holds
    crashes         \* how many restarts there were

lockVars == <<home, chain, at, named, leaked, known, rows, crashes>>

LockInit ==
    /\ home \in [Requests -> Nodes]
    /\ chain = [n \in Nodes |-> <<>>]
    /\ at = [r \in Requests |-> "new"]
    /\ named = {}
    /\ leaked = {}
    /\ known = [n \in Nodes |-> {}]
    /\ rows = {}
    /\ crashes = 0

Served == {"done", "refused", "failed"}
InWork(r) == at[r] \in {"working", "creating"}

\* withLock joins the chain of the node.
Ask(r) ==
    /\ at[r] = "new"
    /\ chain' = [chain EXCEPT ![home[r]] = Append(@, r)]
    /\ at' = [at EXCEPT ![r] = "queued"]
    /\ UNCHANGED <<home, named, leaked, known, rows, crashes>>

\* The predecessor has settled, one way or the other: GET_LOCK.
First(r) == at[r] = "queued" /\ Head(chain[home[r]]) = r

Begin(r) ==
    /\ First(r)
    /\ at' = [at EXCEPT ![r] = "locking"]
    /\ UNCHANGED <<home, chain, named, leaked, known, rows, crashes>>

\* A connection that kept the lock gets it again, if the pool hands out that one.
Acquire(r) ==
    /\ at[r] = "locking"
    /\ named = {}
    /\ leaked \subseteq {home[r]}
    /\ named' = {r}
    /\ at' = [at EXCEPT ![r] = "working"]
    /\ UNCHANGED <<home, chain, leaked, known, rows, crashes>>

\* The lock is taken for ten seconds, or cannot be asked for: the work is done anyway.
GiveUp(r) ==
    /\ at[r] = "locking"
    /\ at' = [at EXCEPT ![r] = "working"]
    /\ UNCHANGED <<home, chain, named, leaked, known, rows, crashes>>

\* The work: a recount in memory, and the creation behind a read of the database.
HasRoom_Late(r) == Cardinality(known[home[r]]) <= Allowance
HasRoom(r) == Cardinality(known[home[r]]) + 1 <= Allowance

Count(r) ==
    /\ at[r] = "working"
    /\ at' = [at EXCEPT ![r] = IF HasRoom(r) THEN "creating" ELSE "refusing"]
    /\ UNCHANGED <<home, chain, named, leaked, known, rows, crashes>>

Create(r) ==
    /\ at[r] = "creating"
    /\ at' = [at EXCEPT ![r] = "created"]
    /\ known' = [known EXCEPT ![home[r]] = @ \cup {r}]
    /\ rows' = rows \cup {r}
    /\ UNCHANGED <<home, chain, named, leaked, crashes>>

\* create throws: nothing is created.
Throw(r) ==
    /\ at[r] = "creating"
    /\ at' = [at EXCEPT ![r] = "failing"]
    /\ UNCHANGED <<home, chain, named, leaked, known, rows, crashes>>

\* finally: RELEASE_LOCK if it was acquired; the chain goes on.
Outcome == [created |-> "done", refusing |-> "refused", failing |-> "failed"]

Settle_Poisons(r) ==
    /\ at[r] \in DOMAIN Outcome
    /\ at' = [at EXCEPT ![r] = Outcome[at[r]]]
    /\ named' = named \ {r}
    /\ chain' = IF at[r] = "failing" THEN chain ELSE [chain EXCEPT ![home[r]] = Tail(@)]
    /\ UNCHANGED <<home, known, rows, crashes>>
Settle(r) ==
    /\ at[r] \in DOMAIN Outcome
    /\ at' = [at EXCEPT ![r] = Outcome[at[r]]]
    /\ named' = named \ {r}
    /\ chain' = [chain EXCEPT ![home[r]] = Tail(@)]
    /\ UNCHANGED <<home, known, rows, crashes>>

Release(r) == Settle(r) /\ UNCHANGED leaked

\* RELEASE_LOCK throws: the error is logged, and the connection is pooled as it is.
ReleaseFails(r) == r \in named /\ Settle(r) /\ leaked' = {home[r]}

\* The connection that has the lock is closed, in use or in the pool: MySQL frees the lock.
ConnectionEnds ==
    /\ named \cup leaked # {}
    /\ named' = {}
    /\ leaked' = {}
    /\ UNCHANGED <<home, chain, at, known, rows, crashes>>

\* A node restarts: its requests are gone, MySQL drops the locks of its connections,
\* and its memory is what the database holds.
Restart(n) ==
    /\ crashes < MaxCrashes
    /\ crashes' = crashes + 1
    /\ at' = [r \in Requests |-> IF home[r] = n /\ at[r] \notin Served \cup {"new"}
                                 THEN "failed" ELSE at[r]]
    /\ chain' = [chain EXCEPT ![n] = <<>>]
    /\ named' = {r \in named : home[r] # n}
    /\ leaked' = leaked \ {n}
    /\ known' = [known EXCEPT ![n] = rows]
    /\ UNCHANGED <<home, rows>>

Step(r) ==
    \/ Begin(r) \/ Acquire(r) \/ GiveUp(r) \/ Count(r) \/ Create(r) \/ Throw(r)
    \/ Release(r) \/ ReleaseFails(r)

LockNext ==
    \/ \E r \in Requests : Ask(r) \/ Step(r)
    \/ \E n \in Nodes : Restart(n)
    \/ ConnectionEnds

LockSafety == LockInit /\ [][LockNext]_lockVars

\* Nothing keeps a request that is first in its chain waiting for ever: GET_LOCK times
\* out, and the handlers behind it wait for the database only.
LockSpec == LockSafety /\ \A r \in Requests : WF_lockVars(Step(r))

-----------------------------------------------------------------------------
(* Properties *)

\* What the variables hold.
LockTypeOK ==
    /\ home \in [Requests -> Nodes]
    /\ chain \in [Nodes -> Seq(Requests)]
    /\ at \in [Requests -> {"new", "queued", "locking", "working", "creating", "refusing",
                            "failing", "created"} \cup Served]
    /\ named \in SUBSET Requests
    /\ leaked \in SUBSET Nodes
    /\ known \in [Nodes -> SUBSET Requests]
    /\ rows \in SUBSET Requests
    /\ crashes \in 0..MaxCrashes

\* On one node no two requests count and create at the same time, so that both read
\* the same free slot (withLock).
OneAtATime ==
    \A r, s \in Requests : r # s /\ home[r] = home[s] => ~(InWork(r) /\ InWork(s))

\* The named lock has one holder at a time across all nodes: a request between GET_LOCK
\* and its finally, or the pool of one node since a RELEASE_LOCK failed there; then only
\* requests of that node get it (withDatabaseLock).
LockHeldOnce ==
    /\ \A r \in named : InWork(r) \/ at[r] \in DOMAIN Outcome
    /\ \A r, s \in named : r = s
    /\ \A n, m \in leaked : n = m
    /\ \A r \in named, n \in leaked : home[r] = n

\* What one node created never passes the limit, whatever fails, whoever times out and
\* however often it restarts, as long as no other node created anything.
NodeWithinLimit ==
    (\A r, s \in rows : home[r] = home[s]) => Cardinality(rows) <= Allowance

\* A failed or refused predecessor does not poison the chain: every request is served.
EveryoneServed == \A r \in Requests : at[r] = "queued" ~> at[r] \in Served
=============================================================================

------------------------------- MODULE Store -------------------------------
(***************************************************************************)
(* One row of the in-memory store (src/database/store.ts).  Memory is what *)
(* handlers read; the database follows it.  An assignment through the      *)
(* proxy starts a write of the whole row and does not wait; awaitPersist   *)
(* waits for the write started last.  Writes go over a pool of connections *)
(* and land in any order; one that fails is logged and its promise         *)
(* resolves.  A restart loads what the database holds.                     *)
(*                                                                         *)
(* A version stands for the content of the row: 0 when there is none, and  *)
(* a new number for every assignment.                                      *)
(***************************************************************************)
EXTENDS Naturals, FiniteSets

CONSTANTS
    Waiters,        \* handlers that may wait at the same time
    MaxAssigned,    \* bound: assignments
    MaxStarted      \* bound: writes

ASSUME StoreAssumption == MaxAssigned \in Nat /\ MaxStarted \in Nat

VARIABLES
    memory,         \* content of the entity
    listed,         \* it is in its array
    row,            \* content of the row in the database
    assigned,       \* how many assignments there were
    started,        \* how many writes were started; a write is named by its number
    flying,         \* writes under way, with the content they carry once they are built
    pending,        \* __pendingPersist: the write it stands for, 0 when it has resolved
    waiting,        \* what a handler that called awaitPersist waits for
    confirmed,      \* history: what awaitPersist has confirmed
    landed,         \* history: the write that landed last
    bypassed,       \* history: the last assignment was to the object behind the proxy
    revived         \* history: it was assigned to after its removal

storeVars == <<memory, listed, row, assigned, started, flying, pending, waiting,
               confirmed, landed, bypassed, revived>>

NoWait == [for |-> 0, content |-> 0, behind |-> FALSE]
Unbuilt == 0
Contents == 0..MaxAssigned

StoreInit ==
    /\ memory = 0
    /\ listed = FALSE
    /\ row = 0
    /\ assigned = 0
    /\ started = 0
    /\ flying = {}
    /\ pending = 0
    /\ waiting = [h \in Waiters |-> NoWait]
    /\ confirmed = {}
    /\ landed = 0
    /\ bypassed = FALSE
    /\ revived = FALSE

-----------------------------------------------------------------------------
(* Writes.  An operator whose name has an underscore is the operator before   *)
(* the underscore with a slip in it.                                          *)

Under(w) == \E f \in flying : f.write = w

StartWrite(kind) ==
    /\ started < MaxStarted
    /\ started' = started + 1
    /\ flying' = flying \cup {[write |-> started + 1, kind |-> kind, content |-> Unbuilt]}

\* setPendingPersist
Stash_First(w) == pending' = IF Under(pending) THEN pending ELSE w
Stash(w) == pending' = w

\* persistEntity has built its query: it carries what memory holds then.
Build(f) ==
    /\ f.kind = "save" /\ f.content = Unbuilt
    /\ flying' = (flying \ {f}) \cup {[f EXCEPT !.content = memory]}
    /\ UNCHANGED <<memory, listed, row, assigned, started, pending, waiting, confirmed,
                   landed, bypassed, revived>>

\* The database has executed it.
Land(f) ==
    /\ f.kind = "remove" \/ f.content # Unbuilt
    /\ row' = IF f.kind = "remove" THEN 0 ELSE f.content
    /\ landed' = f.write
    /\ flying' = flying \ {f}
    /\ UNCHANGED <<memory, listed, assigned, started, pending, waiting, confirmed,
                   bypassed, revived>>

\* It failed: an error is logged, and who waits is told nothing.
FailWrite(f) ==
    /\ flying' = flying \ {f}
    /\ UNCHANGED <<memory, listed, row, assigned, started, pending, waiting, confirmed,
                   landed, bypassed, revived>>

-----------------------------------------------------------------------------
(* What handlers do *)

Change == assigned < MaxAssigned /\ assigned' = assigned + 1 /\ memory' = assigned + 1

\* push, unshift, or the items splice puts in.
Push ==
    /\ assigned = 0
    /\ Change
    /\ listed' = TRUE
    /\ StartWrite("save")
    /\ Stash(started + 1)
    /\ bypassed' = FALSE
    /\ UNCHANGED <<row, waiting, confirmed, landed, revived>>

\* The set trap of the proxy; a handler may still hold an entity that left its array.
Assign ==
    /\ memory # 0
    /\ Change
    /\ StartWrite("save")
    /\ Stash(started + 1)
    /\ bypassed' = FALSE
    /\ revived' = (revived \/ ~listed)
    /\ UNCHANGED <<listed, row, waiting, confirmed, landed>>

\* An assignment to the object that was pushed.
AssignBehind ==
    /\ memory # 0
    /\ Change
    /\ bypassed' = TRUE
    /\ UNCHANGED <<listed, row, started, flying, pending, waiting, confirmed, landed,
                   revived>>

\* splice, pop or shift.
Remove_Kept ==
    /\ listed
    /\ listed' = FALSE
    /\ UNCHANGED <<memory, row, assigned, started, flying, pending, waiting, confirmed,
                   landed, bypassed, revived>>
Remove ==
    /\ listed
    /\ listed' = FALSE
    /\ StartWrite("remove")
    /\ UNCHANGED <<memory, row, assigned, pending, waiting, confirmed, landed, bypassed,
                   revived>>

AwaitPersist(h) ==
    /\ memory # 0
    /\ waiting[h] = NoWait
    /\ waiting' = [waiting EXCEPT ![h] = 
                    [for |-> pending, content |-> memory, behind |-> bypassed]]
    /\ UNCHANGED <<memory, listed, row, assigned, started, flying, pending, confirmed,
                   landed, bypassed, revived>>

\* The handler goes on and reports success.
Confirm(h) ==
    /\ waiting[h] # NoWait
    /\ ~Under(waiting[h].for)
    /\ confirmed' = confirmed \cup {waiting[h]}
    /\ waiting' = [waiting EXCEPT ![h] = NoWait]
    /\ UNCHANGED <<memory, listed, row, assigned, started, flying, pending, landed,
                   bypassed, revived>>

\* The process restarts and initialize loads the row; what has not landed is lost.
Reload ==
    /\ memory # 0
    /\ memory' = row
    /\ listed' = (row # 0)
    /\ flying' = {}
    /\ pending' = 0
    /\ waiting' = [h \in Waiters |-> NoWait]
    /\ bypassed' = FALSE
    /\ revived' = FALSE
    /\ UNCHANGED <<row, assigned, started, confirmed, landed>>

StoreNext ==
    \/ Push \/ Assign \/ AssignBehind \/ Remove \/ Reload
    \/ \E h \in Waiters : AwaitPersist(h) \/ Confirm(h)
    \/ \E f \in flying : Build(f) \/ Land(f) \/ FailWrite(f)

StoreSafety == StoreInit /\ [][StoreNext]_storeVars
-----------------------------------------------------------------------------
(* Properties *)

\* What the variables hold.
StoreTypeOK ==
    /\ memory \in Contents /\ row \in Contents /\ assigned \in Contents
    /\ listed \in BOOLEAN /\ bypassed \in BOOLEAN /\ revived \in BOOLEAN
    /\ started \in 0..MaxStarted
    /\ flying \subseteq [write : 1..started, kind : {"save", "remove"}, content : Contents]
    /\ pending \in 0..started
    /\ waiting \in [Waiters -> [for : 0..started, content : Contents, behind : BOOLEAN]]
    /\ confirmed \subseteq [for : 0..started, content : Contents, behind : BOOLEAN]
    /\ landed \in 0..started

\* What awaitPersist confirmed is in the database, before and after a restart, as long as
\* the entity is in its array: unless it was assigned behind the proxy, or the write that
\* landed last is older than the one that was waited for, because that one failed, or
\* was overtaken.
ConfirmedIsSaved ==
    \A c \in confirmed : ~c.behind /\ c.for <= landed => row >= c.content \/ ~listed

\* When no write is under way and the one started last landed last, the database holds
\* what memory holds, a removal included, unless the last assignment went past the proxy
\* or an entity was assigned to after its removal.
AgreesAtRest ==
    flying = {} /\ landed = started /\ ~bypassed /\ ~revived
        => row = IF listed THEN memory ELSE 0

\* "Waits for an entity's most recent database write [...] to actually land before
\* continuing [...] so the HTTP response only confirms success once the change is durable"
\* (awaitPersist).
ConfirmedIsDurable == \A c \in confirmed : ~c.behind => row >= c.content \/ ~listed
=============================================================================

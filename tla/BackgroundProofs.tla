-------------------------- MODULE BackgroundProofs --------------------------
(***************************************************************************)
(* Proofs about LimitLock, for any number of nodes, requests and restarts, *)
(* about Automations, for any number of events and executions, and about   *)
(* Store, for any number of handlers, assignments and writes.              *)
(*                                                                         *)
(* The chain of a node carries the argument about the lock: a request that *)
(* is past the queue is the first of its chain, so at most one request of  *)
(* a node is, and what it counted is still true when it creates.  An       *)
(* execution of a workflow is in the hands of one event at most, and does  *)
(* not wait while it is.  For the store it is about age: a write that is   *)
(* at least as new as the one a handler waits for carries at least what    *)
(* the handler saw.                                                        *)
(***************************************************************************)
EXTENDS LimitLock, Automations, Store, SequenceTheorems, FiniteSetTheorems, TLAPS

Running(r) == at[r] \notin {"new", "queued"} \cup Served

\* A request in the queue is in its chain, a running one is its head.
InChain ==
    \A r \in Requests :
        /\ at[r] = "queued" => \E i \in 1..Len(chain[home[r]]) : chain[home[r]][i] = r
        /\ Running(r) => chain[home[r]] # <<>> /\ Head(chain[home[r]]) = r

\* A node knows what it created, and nothing that the database does not hold.
Known ==
    /\ \A n \in Nodes : known[n] \subseteq rows
    /\ \A r \in rows : r \in known[home[r]]

\* What a request counted still holds when it creates.
Counted ==
    \A r \in Requests :
        at[r] = "creating" => Cardinality(known[home[r]]) + 1 <= Allowance

LockInv == LockTypeOK /\ InChain /\ Known /\ Counted /\ NodeWithinLimit /\ LockHeldOnce

-----------------------------------------------------------------------------

\* The variables keep their types.
LEMMA LockTypeStep == LockTypeOK /\ InChain /\ [LockNext]_lockVars => LockTypeOK'
<1> SUFFICES ASSUME LockTypeOK, InChain, [LockNext]_lockVars
             PROVE  LockTypeOK'
    OBVIOUS
<1> USE LimitLockAssumption DEF LockTypeOK, Served
<1>1. ASSUME NEW r \in Requests, Ask(r) PROVE LockTypeOK'
    BY <1>1 DEF Ask
<1>2. ASSUME NEW r \in Requests, Begin(r) PROVE LockTypeOK'
    BY <1>2 DEF Begin
<1>3. ASSUME NEW r \in Requests, Acquire(r) PROVE LockTypeOK'
    BY <1>3 DEF Acquire
<1>4. ASSUME NEW r \in Requests, GiveUp(r) PROVE LockTypeOK'
    BY <1>4 DEF GiveUp
<1>5. ASSUME NEW r \in Requests, Count(r) PROVE LockTypeOK'
    BY <1>5 DEF Count
<1>6. ASSUME NEW r \in Requests, Create(r) PROVE LockTypeOK'
    BY <1>6 DEF Create
<1>7. ASSUME NEW r \in Requests, Throw(r) PROVE LockTypeOK'
    BY <1>7 DEF Throw
<1>8. ASSUME NEW r \in Requests, Release(r) \/ ReleaseFails(r) PROVE LockTypeOK'
  <2>1. Running(r)
      BY <1>8 DEF Release, ReleaseFails, Settle, Outcome, Running
  <2>2. chain[home[r]] # <<>>
      BY <2>1 DEF InChain
  <2>3. Tail(chain[home[r]]) \in Seq(Requests)
      BY <2>2
  <2>4. Outcome[at[r]] \in Served
      BY <1>8 DEF Release, ReleaseFails, Settle, Outcome
  <2>5. chain' \in [Nodes -> Seq(Requests)]
      BY <1>8, <2>3 DEF Release, ReleaseFails, Settle
  <2> QED BY <1>8, <2>4, <2>5 DEF Release, ReleaseFails, Settle
<1>9. ASSUME NEW n \in Nodes, Restart(n) PROVE LockTypeOK'
    BY <1>9 DEF Restart
<1>10. ASSUME ConnectionEnds PROVE LockTypeOK'
    BY <1>10 DEF ConnectionEnds
<1>11. CASE UNCHANGED lockVars
    BY <1>11 DEF lockVars
<1> QED
    BY <1>1, <1>2, <1>3, <1>4, <1>5, <1>6, <1>7, <1>8, <1>9, <1>10, <1>11 DEF LockNext, Step

\* Who joins a chain is in it, and nobody in front of it moves.
LEMMA Joined ==
    ASSUME NEW S, NEW q \in Seq(S), NEW x \in S
    PROVE  /\ Len(q) <= Len(Append(q, x))
           /\ \A i \in 1..Len(q) : Append(q, x)[i] = q[i]
           /\ \E i \in 1..Len(Append(q, x)) : Append(q, x)[i] = x
           /\ q # <<>> => Append(q, x) # <<>> /\ Head(Append(q, x)) = Head(q)
<1>1. /\ Append(q, x) # <<>>
      /\ Len(Append(q, x)) = Len(q) + 1
      /\ \A i \in 1..Len(q) : Append(q, x)[i] = q[i]
      /\ Append(q, x)[Len(q) + 1] = x
    BY AppendProperties
<1>2. Len(q) \in Nat /\ (q # <<>> => 1 \in 1..Len(q))
    OBVIOUS
<1>3. Append(q, x) \in Seq(S)
    BY AppendProperties
<1> QED BY <1>1, <1>2, <1>3

\* The chains stay in order.
LEMMA ChainStep == LockTypeOK /\ InChain /\ [LockNext]_lockVars => InChain'
<1> SUFFICES ASSUME LockTypeOK, InChain, [LockNext]_lockVars
             PROVE  InChain'
    OBVIOUS
<1> USE DEF LockTypeOK, Served
<1>1. ASSUME NEW r \in Requests, Ask(r) PROVE InChain'
  <2> SUFFICES ASSUME NEW s \in Requests
               PROVE /\ at'[s] = "queued" => \E i \in 1..Len(chain'[home[s]]) : chain'[home[s]][i] = s
                     /\ Running(s)' => chain'[home[s]] # <<>> /\ Head(chain'[home[s]]) = s
      BY <1>1 DEF Ask, InChain
  <2> DEFINE old == chain[home[s]]
             new == chain'[home[s]]
  <2>1. old \in Seq(Requests)
      OBVIOUS
  <2>2. new = old \/ (home[s] = home[r] /\ new = Append(old, r))
      BY <1>1 DEF Ask
  <2>3. /\ Len(old) <= Len(Append(old, r))
        /\ \A i \in 1..Len(old) : Append(old, r)[i] = old[i]
        /\ \E i \in 1..Len(Append(old, r)) : Append(old, r)[i] = r
        /\ old # <<>> => Append(old, r) # <<>> /\ Head(Append(old, r)) = Head(old)
    <3> HIDE DEF old
    <3> QED BY <2>1, Joined
  <2>4. Len(old) \in Nat /\ Len(Append(old, r)) \in Nat
      BY <2>1
  <2> HIDE DEF old, new
  <2>5. CASE s = r
    <3>1. new = Append(old, r)
        BY <1>1, <2>5 DEF Ask, old, new
    <3> QED BY <1>1, <2>3, <2>5, <3>1 DEF Ask, Running, new
  <2>6. CASE s # r
    <3>1. at'[s] = at[s]
        BY <1>1, <2>6 DEF Ask
    <3>2. at'[s] = "queued" => \E i \in 1..Len(old) : old[i] = s
        BY <3>1 DEF InChain, old
    <3>3. Running(s)' => old # <<>> /\ Head(old) = s
        BY <3>1 DEF InChain, Running, old
    <3>4. CASE new = old
        BY <3>2, <3>3, <3>4 DEF new
    <3>5. CASE new = Append(old, r)
        BY <2>3, <2>4, <3>2, <3>3, <3>5 DEF new
    <3> QED BY <2>2, <3>4, <3>5
  <2> QED BY <2>5, <2>6
<1>2. ASSUME NEW r \in Requests, Begin(r) PROVE InChain'
  <2>1. chain[home[r]] # <<>> /\ Head(chain[home[r]]) = r
      BY <1>2 DEF Begin, First, InChain
  <2> QED BY <1>2, <2>1 DEF Begin, First, InChain, Running
<1>3. ASSUME NEW r \in Requests, Acquire(r) \/ GiveUp(r) \/ Count(r) \/ Create(r) \/ Throw(r)
      PROVE  InChain'
    BY <1>3 DEF Acquire, GiveUp, Count, Create, Throw, InChain, Running
<1>4. ASSUME NEW r \in Requests, Release(r) \/ ReleaseFails(r) PROVE InChain'
  <2> USE DEF Release, ReleaseFails, Settle
  <2> SUFFICES ASSUME NEW s \in Requests
               PROVE /\ at'[s] = "queued" => \E i \in 1..Len(chain'[home[s]]) : chain'[home[s]][i] = s
                     /\ Running(s)' => chain'[home[s]] # <<>> /\ Head(chain'[home[s]]) = s
      BY <1>4 DEF InChain
  <2>1. Running(r) /\ at'[r] \in Served
      BY <1>4 DEF Outcome, Running
  <2>2. chain[home[r]] # <<>> /\ Head(chain[home[r]]) = r
      BY <2>1 DEF InChain
  <2>3. CASE s = r
      BY <2>1, <2>3 DEF Running
  <2>4. CASE s # r
    <3>1. at'[s] = at[s]
        BY <1>4, <2>4
    <3>2. CASE home[s] # home[r]
      <4>1. chain'[home[s]] = chain[home[s]]
          BY <1>4, <3>2
      <4> QED BY <3>1, <4>1 DEF InChain, Running
    <3>3. CASE home[s] = home[r]
      <4> DEFINE old == chain[home[s]]
      <4>1. old \in Seq(Requests) /\ old # <<>> /\ Head(old) = r
          BY <2>2, <3>3
      <4>2. chain'[home[s]] = Tail(old)
          BY <1>4, <3>3
      <4>3. ~Running(s)
          BY <2>4, <4>1 DEF InChain
      <4>4. ASSUME at[s] = "queued"
            PROVE  \E i \in 1..Len(Tail(old)) : Tail(old)[i] = s
        <5>1. PICK i \in 1..Len(old) : old[i] = s
            BY <4>4 DEF InChain
        <5>2. i # 1
            BY <2>4, <4>1, <5>1
        <5>3. i - 1 \in 1..Len(Tail(old)) /\ Tail(old)[i - 1] = s
            BY <4>1, <5>1, <5>2
        <5> QED BY <5>3
      <4> QED BY <3>1, <4>2, <4>3, <4>4 DEF Running
    <3> QED BY <3>2, <3>3
  <2> QED BY <2>3, <2>4
<1>5. ASSUME (\E n \in Nodes : Restart(n)) \/ ConnectionEnds PROVE InChain'
    BY <1>5 DEF Restart, ConnectionEnds, InChain, Running
<1>6. CASE UNCHANGED lockVars
    BY <1>6 DEF lockVars, InChain, Running
<1> QED
    BY <1>1, <1>2, <1>3, <1>4, <1>5, <1>6 DEF LockNext, Step

\* A chain has one head: two running requests of a node are the same one.
LEMMA OneRuns ==
    ASSUME LockTypeOK, InChain, NEW r \in Requests, NEW s \in Requests,
           home[r] = home[s], Running(r), Running(s)
    PROVE  r = s
BY DEF InChain

-----------------------------------------------------------------------------

\* What a node created is known to it, and it knows nothing else.
LEMMA KnownStep == LockTypeOK /\ Known /\ [LockNext]_lockVars => Known'
<1> SUFFICES ASSUME LockTypeOK, Known, [LockNext]_lockVars
             PROVE  Known'
    OBVIOUS
<1> USE DEF LockTypeOK, Known
<1>1. ASSUME NEW r \in Requests, Create(r) PROVE Known'
    BY <1>1 DEF Create
<1>2. ASSUME NEW n \in Nodes, Restart(n) PROVE Known'
    BY <1>2 DEF Restart
<1>3. ASSUME NEW r \in Requests,
             Ask(r) \/ Begin(r) \/ Acquire(r) \/ GiveUp(r) \/ Count(r) \/ Throw(r)
             \/ Release(r) \/ ReleaseFails(r)
      PROVE  Known'
    BY <1>3 DEF Ask, Begin, Acquire, GiveUp, Count, Throw, Release, ReleaseFails, Settle
<1>4. CASE ConnectionEnds \/ UNCHANGED lockVars
    BY <1>4 DEF ConnectionEnds, lockVars
<1> QED BY <1>1, <1>2, <1>3, <1>4 DEF LockNext, Step

\* A count still holds when it is acted on: nothing else is created on the node meanwhile.
LEMMA CountedStep ==
    LockTypeOK /\ InChain /\ Counted /\ [LockNext]_lockVars => Counted'
<1> SUFFICES ASSUME LockTypeOK, InChain, Counted, [LockNext]_lockVars,
                    NEW s \in Requests, at'[s] = "creating"
             PROVE  Cardinality(known'[home'[s]]) + 1 <= Allowance
    BY DEF Counted
<1> USE DEF LockTypeOK, Counted, Served
<1>1. ASSUME NEW r \in Requests, Create(r)
      PROVE  Cardinality(known'[home'[s]]) + 1 <= Allowance
  <2>1. s # r /\ at[s] = "creating"
      BY <1>1 DEF Create
  <2>2. home[s] # home[r]
      BY <1>1, <2>1, OneRuns DEF Create, Running
  <2> QED BY <1>1, <2>1, <2>2 DEF Create
<1>2. ASSUME NEW n \in Nodes, Restart(n)
      PROVE  Cardinality(known'[home'[s]]) + 1 <= Allowance
  <2>1. at[s] = "creating" /\ home[s] # n
      BY <1>2 DEF Restart
  <2> QED BY <1>2, <2>1 DEF Restart
<1>3. ASSUME NEW r \in Requests, Count(r)
      PROVE  Cardinality(known'[home'[s]]) + 1 <= Allowance
    BY <1>3 DEF Count, HasRoom
<1>4. ASSUME NEW r \in Requests,
             Ask(r) \/ Begin(r) \/ Acquire(r) \/ GiveUp(r) \/ Throw(r)
      PROVE  Cardinality(known'[home'[s]]) + 1 <= Allowance
    BY <1>4 DEF Ask, Begin, Acquire, GiveUp, Throw
<1>5. ASSUME NEW r \in Requests, Settle(r)
      PROVE  Cardinality(known'[home'[s]]) + 1 <= Allowance
  <2>1. Outcome[at[r]] # "creating"
      BY <1>5 DEF Settle, Outcome
  <2>2. at[s] = "creating"
      BY <1>5, <2>1 DEF Settle
  <2> QED BY <1>5, <2>2 DEF Settle
<1>6. CASE ConnectionEnds \/ UNCHANGED lockVars
    BY <1>6 DEF ConnectionEnds, lockVars
<1> QED
    BY <1>1, <1>2, <1>3, <1>4, <1>5, <1>6 DEF LockNext, Step, Release, ReleaseFails

\* One node does not create more than the limit.
LEMMA LimitStep ==
    LockTypeOK /\ Known /\ Counted /\ NodeWithinLimit /\ [LockNext]_lockVars => NodeWithinLimit'
<1> SUFFICES ASSUME LockTypeOK, Known, Counted, NodeWithinLimit, [LockNext]_lockVars,
                    \A q, s \in rows' : home'[q] = home'[s]
             PROVE  Cardinality(rows') <= Allowance
    BY DEF NodeWithinLimit
<1>1. ASSUME NEW r \in Requests, Create(r) PROVE Cardinality(rows') <= Allowance
  <2> USE DEF LockTypeOK
  <2>1. rows' = rows \cup {r} /\ home' = home /\ at[r] = "creating"
      BY <1>1 DEF Create
  <2>2. rows = known[home[r]]
    <3>1. \A q \in rows : home[q] = home[r]
        BY <2>1
    <3>2. home[r] \in Nodes
        OBVIOUS
    <3>3. rows \subseteq known[home[r]]
        BY <3>1 DEF Known
    <3>4. known[home[r]] \subseteq rows
        BY <3>2 DEF Known
    <3> QED BY <3>3, <3>4
  <2>3. IsFiniteSet(rows)
      BY LimitLockAssumption, FS_Subset
  <2>4. Cardinality(rows \cup {r}) = Cardinality(rows) \/ Cardinality(rows \cup {r}) = Cardinality(rows) + 1
      BY <2>3, FS_AddElement
  <2>5. Cardinality(rows) + 1 <= Allowance
      BY <2>1, <2>2 DEF Counted
  <2>6. Cardinality(rows) \in Nat
      BY <2>3, FS_CardinalityType
  <2> QED BY <2>1, <2>4, <2>5, <2>6, LimitLockAssumption
<1>2. CASE UNCHANGED <<rows, home>>
    BY <1>2 DEF NodeWithinLimit
<1>3. (\E r \in Requests : Create(r)) \/ UNCHANGED <<rows, home>>
    BY DEF LockNext, Step, Ask, Begin, Acquire, GiveUp, Count, Throw, Release, ReleaseFails, Settle,
           Restart, ConnectionEnds, lockVars
<1> QED BY <1>1, <1>2, <1>3

\* The named lock keeps one holder.
LEMMA NamedStep == LockTypeOK /\ LockHeldOnce /\ [LockNext]_lockVars => LockHeldOnce'
<1> SUFFICES ASSUME LockTypeOK, LockHeldOnce, [LockNext]_lockVars
             PROVE  LockHeldOnce'
    OBVIOUS
<1> USE DEF LockTypeOK, LockHeldOnce, InWork, Outcome
<1>1. ASSUME NEW r \in Requests, Step(r) PROVE LockHeldOnce'
    BY <1>1 DEF Step, Begin, First, Acquire, GiveUp, Count, Create, Throw, Release,
                ReleaseFails, Settle
<1>2. ASSUME NEW r \in Requests, Ask(r) PROVE LockHeldOnce'
    BY <1>2 DEF Ask
<1>3. ASSUME (\E n \in Nodes : Restart(n)) \/ ConnectionEnds PROVE LockHeldOnce'
    BY <1>3 DEF Restart, ConnectionEnds
<1>4. CASE UNCHANGED lockVars
    BY <1>4 DEF lockVars
<1> QED BY <1>1, <1>2, <1>3, <1>4 DEF LockNext

-----------------------------------------------------------------------------

\* The inductive invariant of LimitLock holds in every state.
THEOREM LockInvHolds == LockSafety => []LockInv
<1>1. LockInit => LockInv
  <2> SUFFICES ASSUME LockInit PROVE LockInv
      OBVIOUS
  <2>1. LockTypeOK
      BY LimitLockAssumption DEF LockInit, LockTypeOK
  <2>2. InChain /\ Known /\ Counted /\ LockHeldOnce
      BY DEF LockInit, InChain, Known, Counted, LockHeldOnce, Running
  <2>3. NodeWithinLimit
      BY LimitLockAssumption, FS_EmptySet DEF LockInit, NodeWithinLimit
  <2> QED BY <2>1, <2>2, <2>3 DEF LockInv
<1>2. LockInv /\ [LockNext]_lockVars => LockInv'
    BY LockTypeStep, ChainStep, KnownStep, CountedStep, LimitStep, NamedStep DEF LockInv
<1> QED BY <1>1, <1>2, PTL DEF LockSafety

\* Every variable keeps its type.
THEOREM LockTypeCorrect == LockSafety => []LockTypeOK
BY LockInvHolds, PTL DEF LockInv

\* On one node no two requests count and create at the same time (withLock).
THEOREM MutualExclusion == LockSafety => []OneAtATime
<1>1. LockInv => OneAtATime
    BY OneRuns DEF LockInv, OneAtATime, InWork, Running, Served
<1> QED BY <1>1, LockInvHolds, PTL

\* A node alone stays within the limit, for any number of requests, restarts and time-outs
\* of the named lock (withLock, reserve).
THEOREM NodeLimit == LockSafety => []NodeWithinLimit
BY LockInvHolds, PTL DEF LockInv

\* The named lock has one holder at a time, for any number of nodes: a request that has not
\* settled, or the pool of a node where RELEASE_LOCK failed, whose requests alone get it
\* from then on until its connection ends (withDatabaseLock).
THEOREM NamedLockOneHolder == LockSafety => []LockHeldOnce
BY LockInvHolds, PTL DEF LockInv

-----------------------------------------------------------------------------
(* Automations *)

InHand(v) == handling[v].at \in {"starting", "acting"}

Owned ==
    /\ \A v \in Events : InHand(v) => execution[handling[v].on] \notin {"NONE", "WAITING"}
    /\ \A v, w \in Events : InHand(v) /\ InHand(w) /\ handling[v].on = handling[w].on => v = w

AutomationsInv == AutomationsTypeOK /\ Owned /\ OneActive

-----------------------------------------------------------------------------

\* What a handler of an event that is in hand works on is an execution.
LEMMA OnExecution ==
    ASSUME AutomationsTypeOK, NEW v \in Events, InHand(v)
    PROVE  handling[v].on \in Executions
BY DEF AutomationsTypeOK, InHand, NoEvent

\* The variables keep their types.
LEMMA AutomationsTypeStep == AutomationsTypeOK /\ [AutomationsNext]_automationVars => AutomationsTypeOK'
<1> SUFFICES ASSUME AutomationsTypeOK, [AutomationsNext]_automationVars
             PROVE  AutomationsTypeOK'
    OBVIOUS
<1> DEFINE Handling == [at : {"checked"}, on : {0}]
                       \cup [at : {"starting", "acting"}, on : Executions] \cup {NoEvent}
           Status == {"NONE", "RUNNING", "WAITING", "COMPLETED", "GOAL_REACHED"}
<1>1. ASSUME NEW v \in Events, HandleEvent(v) PROVE AutomationsTypeOK'
    BY <1>1 DEF HandleEvent, AutomationsTypeOK, CancelPendingSteps, Stand
<1>2. ASSUME NEW v \in Events, StartNothing(v) \/ ActionThrows(v) PROVE AutomationsTypeOK'
    BY <1>2 DEF StartNothing, ActionThrows, AutomationsTypeOK, Leave
<1>3. ASSUME NEW v \in Events, StartExecution(v) PROVE AutomationsTypeOK'
    BY <1>3 DEF StartExecution, AutomationsTypeOK, Stand, Fresh
<1>4. ASSUME NEW v \in Events, Resume(v) PROVE AutomationsTypeOK'
  <2> DEFINE e == handling[v].on
  <2>1. e \in Executions
      BY <1>4, OnExecution DEF Resume, InHand
  <2>2. execution' \in [Executions -> Status] /\ step' \in [Executions -> {"NONE", "PENDING", "CANCELLED"}]
      BY <1>4, <2>1 DEF Resume, RunStep, AutomationsTypeOK, CancelPendingSteps
  <2>3. handling' \in [Events -> Handling]
    <3>1. handling \in [Events -> Handling]
        BY DEF AutomationsTypeOK
    <3>2. [at |-> "acting", on |-> e] \in Handling /\ NoEvent \in Handling
        BY <2>1
    <3>3. handling' = [handling EXCEPT ![v] = NoEvent] \/ handling' = [handling EXCEPT ![v] = [at |-> "acting", on |-> e]]
        BY <1>4 DEF Resume, RunStep, Leave, Stand
    <3> HIDE DEF Handling, e
    <3> QED BY <3>1, <3>2, <3>3
  <2>4. overrun' \in SUBSET Executions
      BY <1>4, <2>1 DEF Resume, RunStep, Over, AutomationsTypeOK
  <2> QED BY <2>2, <2>3, <2>4 DEF AutomationsTypeOK
<1>5. CASE UNCHANGED automationVars
    BY <1>5 DEF automationVars, AutomationsTypeOK
<1> QED BY <1>1, <1>2, <1>3, <1>4, <1>5 DEF AutomationsNext

\* An execution stays in one hand, and does not wait there.
LEMMA OwnedStep == AutomationsTypeOK /\ Owned /\ [AutomationsNext]_automationVars => Owned'
<1> SUFFICES ASSUME AutomationsTypeOK, Owned, [AutomationsNext]_automationVars
             PROVE  Owned'
    OBVIOUS
<1> USE DEF AutomationsTypeOK, Owned, InHand, NoEvent
<1>1. ASSUME NEW v \in Events, HandleEvent(v) PROVE Owned'
    BY <1>1, OnExecution DEF HandleEvent, Stand, Active
<1>2. ASSUME NEW v \in Events, StartNothing(v) \/ ActionThrows(v) PROVE Owned'
    BY <1>2 DEF StartNothing, ActionThrows, Leave
<1>3. ASSUME NEW v \in Events, StartExecution(v) PROVE Owned'
    BY <1>3, OnExecution DEF StartExecution, Stand, Fresh
<1>4. ASSUME NEW v \in Events, Resume(v) PROVE Owned'
  <2> DEFINE e == handling[v].on
  <2>1. e \in Executions
      BY <1>4, OnExecution DEF Resume
  <2>2. \/ Stand(v, "acting", e) /\ UNCHANGED execution
        \/ /\ Leave(v)
           /\ \E s \in {"WAITING", "GOAL_REACHED", "COMPLETED"} :
                 execution' = [execution EXCEPT ![e] = s]
      BY <1>4 DEF Resume, RunStep
  <2>3. \A w \in Events : InHand(w) /\ w # v => handling[w].on # e
      BY <1>4 DEF Resume
  <2> QED BY <1>4, <2>1, <2>2, <2>3 DEF Resume, Stand, Leave
<1>5. CASE UNCHANGED automationVars
    BY <1>5 DEF automationVars
<1> QED BY <1>1, <1>2, <1>3, <1>4, <1>5 DEF AutomationsNext

\* One execution stays active, and its step waits with it.
LEMMA ActiveStep ==
    AutomationsTypeOK /\ Owned /\ OneActive /\ [AutomationsNext]_automationVars => OneActive'
<1> SUFFICES ASSUME AutomationsTypeOK, Owned, OneActive, [AutomationsNext]_automationVars
             PROVE  OneActive'
    OBVIOUS
<1> USE DEF AutomationsTypeOK, OneActive, Active
<1>1. ASSUME NEW v \in Events, HandleEvent(v) PROVE OneActive'
    BY <1>1 DEF HandleEvent, CancelPendingSteps
<1>2. ASSUME NEW v \in Events, StartNothing(v) \/ ActionThrows(v) PROVE OneActive'
    BY <1>2 DEF StartNothing, ActionThrows
<1>3. ASSUME NEW v \in Events, StartExecution(v) PROVE OneActive'
    BY <1>3 DEF StartExecution, MayStart, Fresh
<1>4. ASSUME NEW v \in Events, Resume(v) PROVE OneActive'
  <2> DEFINE e == handling[v].on
  <2>1. e \in Executions /\ execution[e] # "WAITING"
      BY <1>4, OnExecution DEF Resume, InHand, Owned
  <2>2. Active' \ overrun' \subseteq Active \ overrun
      BY <1>4, <2>1 DEF Resume, RunStep, Over
  <2>3. \A f \in Executions : execution'[f] = "WAITING" <=> step'[f] = "PENDING"
      BY <1>4, <2>1 DEF Resume, RunStep, CancelPendingSteps
  <2> QED BY <2>2, <2>3
<1>5. CASE UNCHANGED automationVars
    BY <1>5 DEF automationVars
<1> QED BY <1>1, <1>2, <1>3, <1>4, <1>5 DEF AutomationsNext

\* The inductive invariant of Automations holds in every state.
THEOREM AutomationsInvHolds == AutomationsSafety => []AutomationsInv
<1>1. AutomationsInit => AutomationsInv
    BY DEF AutomationsInit, AutomationsInv, AutomationsTypeOK, Owned, OneActive, InHand, NoEvent,
           Active
<1>2. AutomationsInv /\ [AutomationsNext]_automationVars => AutomationsInv'
    BY AutomationsTypeStep, OwnedStep, ActiveStep DEF AutomationsInv
<1> QED BY <1>1, <1>2, PTL DEF AutomationsSafety

\* Every variable keeps its type.
THEOREM AutomationsTypeCorrect == AutomationsSafety => []AutomationsTypeOK
BY AutomationsInvHolds, PTL DEF AutomationsInv

\* One execution of a workflow is active for an affiliate, however many events are handled
\* at the same time (handleEvent, runStep).
THEOREM SingleExecution == AutomationsSafety => []OneActive
BY AutomationsInvHolds, PTL DEF AutomationsInv

-----------------------------------------------------------------------------
(* The store *)

Saves == {f \in flying : f.kind = "save"}
Built == {f \in Saves : f.content # Unbuilt}

\* What was confirmed, or is waited for.
Claims == confirmed \cup {waiting[h] : h \in {g \in Waiters : waiting[g] # NoWait}}

\* Only memory's last content can be under way, and what is as new as the write that
\* is pending carries it, unless it was assigned past the proxy.
UpToDate ==
    /\ \A f \in Saves : memory = assigned
    /\ ~bypassed =>
          /\ \A f \in Built : f.write >= pending => f.content = memory
          /\ memory # 0 /\ pending <= landed => row = 0 \/ row = memory

\* Once something landed a listed entity has its row.
Rows ==
    /\ listed => row # 0 \/ landed = 0
    /\ listed => memory # 0 /\ started # 0
    /\ row # 0 => landed # 0
    /\ assigned = 0 => started = 0 /\ flying = {}
    /\ memory # 0 /\ pending = 0 => landed # 0
    /\ started = 0 => landed = 0
    /\ \A f \in flying : f.kind = "remove" => ~listed

\* The last write of an entity that was removed is the removal.
Removed ==
    ~listed /\ ~revived =>
        /\ \A f \in flying : f.write = started => f.kind = "remove"
        /\ landed = started => row = 0

\* Contents are numbered by their assignments.
Bounded ==
    /\ memory <= assigned /\ row <= assigned
    /\ \A f \in flying : f.content <= assigned
    /\ \A c \in Claims : c.content <= assigned

\* What is as new as a claim carries at least what it claims.
Kept ==
    \A c \in Claims :
        ~c.behind =>
            /\ \A f \in Built : f.write >= c.for => f.content >= c.content
            /\ c.for <= landed => landed # 0 /\ (row = 0 \/ row >= c.content)

StoreInv == StoreTypeOK /\ UpToDate /\ Rows /\ Removed /\ Bounded /\ Kept

-----------------------------------------------------------------------------

\* The variables keep their types.
LEMMA StoreTypeStep == StoreTypeOK /\ [StoreNext]_storeVars => StoreTypeOK'
<1> SUFFICES ASSUME StoreTypeOK, [StoreNext]_storeVars
             PROVE  StoreTypeOK'
    OBVIOUS
<1> USE StoreAssumption DEF StoreTypeOK, Contents, Unbuilt, Change, Stash
<1> DEFINE Write(n) == [write : 1..n, kind : {"save", "remove"}, content : Contents]
           Claim(n) == [for : 0..n, content : Contents, behind : BOOLEAN]
<1>0. ASSUME NEW kind \in {"save", "remove"}, StartWrite(kind),
             confirmed' = confirmed, waiting' = waiting
      PROVE  /\ started' \in 0..MaxStarted /\ started' = started + 1
             /\ flying' \subseteq Write(started')
             /\ waiting' \in [Waiters -> Claim(started')]
             /\ confirmed' \subseteq Claim(started')
  <2>1. started' \in 0..MaxStarted /\ started' = started + 1
      BY <1>0 DEF StartWrite
  <2>2. Write(started) \subseteq Write(started') /\ Claim(started) \subseteq Claim(started')
      BY <2>1
  <2>3. [write |-> started + 1, kind |-> kind, content |-> 0] \in Write(started')
      BY <2>1
  <2>4. flying' = flying \cup {[write |-> started + 1, kind |-> kind, content |-> 0]}
      BY <1>0 DEF StartWrite
  <2>5. flying' \subseteq Write(started')
      BY <2>2, <2>3, <2>4
  <2>6. waiting' \in [Waiters -> Claim(started')] /\ confirmed' \subseteq Claim(started')
    <3>1. waiting \in [Waiters -> Claim(started)] /\ confirmed \subseteq Claim(started)
        OBVIOUS
    <3> HIDE DEF Claim
    <3> QED BY <1>0, <2>2, <3>1
  <2> QED BY <2>1, <2>5, <2>6
<1> DEFINE Changed == /\ memory' \in Contents /\ row' \in Contents /\ assigned' \in Contents
                      /\ listed' \in BOOLEAN /\ bypassed' \in BOOLEAN /\ revived' \in BOOLEAN
                      /\ pending' \in 0..started' /\ landed' \in 0..started'
<1>01. ASSUME NEW kind \in {"save", "remove"}, StartWrite(kind),
              confirmed' = confirmed, waiting' = waiting, Changed
       PROVE  StoreTypeOK'
  <2>1. started' \in 0..MaxStarted /\ flying' \subseteq Write(started')
        /\ waiting' \in [Waiters -> Claim(started')] /\ confirmed' \subseteq Claim(started')
      BY <1>0, <1>01
  <2> QED BY ONLY <2>1, <1>01 DEF StoreTypeOK
<1>1. CASE Push
  <2>1. started' = started + 1
      BY <1>0, <1>1 DEF Push
  <2>2. memory' \in Contents /\ row' \in Contents /\ assigned' \in Contents
      BY <1>1 DEF Push
  <2>3. listed' \in BOOLEAN /\ bypassed' \in BOOLEAN /\ revived' \in BOOLEAN
      BY <1>1 DEF Push
  <2>4. pending' \in 0..started' /\ landed' \in 0..started'
      BY <1>1, <2>1 DEF Push
  <2> QED BY <1>1, <1>01, <2>2, <2>3, <2>4 DEF Push
<1>2. CASE Assign
  <2>1. started' = started + 1
      BY <1>0, <1>2 DEF Assign
  <2>2. memory' \in Contents /\ row' \in Contents /\ assigned' \in Contents
      BY <1>2 DEF Assign
  <2>3. listed' \in BOOLEAN /\ bypassed' \in BOOLEAN /\ revived' \in BOOLEAN
      BY <1>2 DEF Assign
  <2>4. pending' \in 0..started' /\ landed' \in 0..started'
      BY <1>2, <2>1 DEF Assign
  <2> QED BY <1>2, <1>01, <2>2, <2>3, <2>4 DEF Assign
<1>3. CASE AssignBehind
    BY <1>3 DEF AssignBehind
<1>4. CASE Remove
  <2>1. started' = started + 1
      BY <1>0, <1>4 DEF Remove
  <2>2. memory' \in Contents /\ row' \in Contents /\ assigned' \in Contents
      BY <1>4 DEF Remove
  <2>3. listed' \in BOOLEAN /\ bypassed' \in BOOLEAN /\ revived' \in BOOLEAN
      BY <1>4 DEF Remove
  <2>4. pending' \in 0..started' /\ landed' \in 0..started'
      BY <1>4, <2>1 DEF Remove
  <2> QED BY <1>4, <1>01, <2>2, <2>3, <2>4 DEF Remove
<1>5. CASE Reload
  <2>1. NoWait \in Claim(started)
      BY DEF NoWait
  <2>2. waiting' \in [Waiters -> Claim(started)]
    <3> HIDE DEF Claim
    <3> QED BY <1>5, <2>1 DEF Reload
  <2>3. /\ memory' = row /\ row' = row /\ listed' = (row # 0) /\ flying' = {} /\ pending' = 0
        /\ bypassed' = FALSE /\ revived' = FALSE
        /\ UNCHANGED <<assigned, started, confirmed, landed>>
      BY <1>5 DEF Reload
  <2>4. listed' \in BOOLEAN /\ bypassed' \in BOOLEAN /\ revived' \in BOOLEAN
      BY <2>3
  <2>5. memory' \in Contents /\ pending' \in 0..started'
      BY <2>3
  <2> QED BY <2>2, <2>3, <2>4, <2>5
<1>6. ASSUME NEW h \in Waiters, AwaitPersist(h) PROVE StoreTypeOK'
    BY <1>6 DEF AwaitPersist
<1>7. ASSUME NEW h \in Waiters, Confirm(h) PROVE StoreTypeOK'
    BY <1>7 DEF Confirm, NoWait
<1>8. ASSUME NEW f \in flying, Build(f) PROVE StoreTypeOK'
    BY <1>8 DEF Build
<1>9. ASSUME NEW f \in flying, Land(f) PROVE StoreTypeOK'
    BY <1>9 DEF Land
<1>10. ASSUME NEW f \in flying, FailWrite(f) PROVE StoreTypeOK'
    BY <1>10 DEF FailWrite
<1>11. CASE UNCHANGED storeVars
    BY <1>11 DEF storeVars
<1> QED
    BY <1>1, <1>2, <1>3, <1>4, <1>5, <1>6, <1>7, <1>8, <1>9, <1>10, <1>11 DEF StoreNext

\* What is as new as the pending write carries what memory holds.
LEMMA UpToDateStep == StoreTypeOK /\ UpToDate /\ [StoreNext]_storeVars => UpToDate'
<1> SUFFICES ASSUME StoreTypeOK, UpToDate, [StoreNext]_storeVars
             PROVE  UpToDate'
    OBVIOUS
<1> USE StoreAssumption
    DEF StoreTypeOK, Contents, Unbuilt, Change, StartWrite, Stash, UpToDate, Saves, Built
<1>1. CASE Push
    BY <1>1 DEF Push
<1>2. CASE Assign
    BY <1>2 DEF Assign
<1>3. CASE AssignBehind
    BY <1>3 DEF AssignBehind
<1>4. CASE Remove
    BY <1>4 DEF Remove
<1>5. CASE Reload
    BY <1>5 DEF Reload
<1>6. ASSUME NEW h \in Waiters, AwaitPersist(h) \/ Confirm(h) PROVE UpToDate'
    BY <1>6 DEF AwaitPersist, Confirm
<1>7. ASSUME NEW f \in flying, Build(f) PROVE UpToDate'
    BY <1>7 DEF Build
<1>8. ASSUME NEW f \in flying, Land(f) PROVE UpToDate'
    BY <1>8 DEF Land
<1>9. ASSUME NEW f \in flying, FailWrite(f) PROVE UpToDate'
    BY <1>9 DEF FailWrite
<1>10. CASE UNCHANGED storeVars
    BY <1>10 DEF storeVars
<1> QED
    BY <1>1, <1>2, <1>3, <1>4, <1>5, <1>6, <1>7, <1>8, <1>9, <1>10 DEF StoreNext

\* A listed entity has its row once something landed.
LEMMA RowsStep == StoreTypeOK /\ Rows /\ [StoreNext]_storeVars => Rows'
<1> SUFFICES ASSUME StoreTypeOK, Rows, [StoreNext]_storeVars
             PROVE  Rows'
    OBVIOUS
<1> USE StoreAssumption DEF StoreTypeOK, Contents, Unbuilt, Change, StartWrite, Stash, Rows
<1>1. CASE Push
    BY <1>1 DEF Push
<1>2. CASE Assign
    BY <1>2 DEF Assign
<1>3. CASE AssignBehind
    BY <1>3 DEF AssignBehind
<1>4. CASE Remove
    BY <1>4 DEF Remove
<1>5. CASE Reload
    BY <1>5 DEF Reload
<1>6. ASSUME NEW h \in Waiters, AwaitPersist(h) \/ Confirm(h) PROVE Rows'
    BY <1>6 DEF AwaitPersist, Confirm
<1>7. ASSUME NEW f \in flying, Build(f) PROVE Rows'
    BY <1>7 DEF Build
<1>8. ASSUME NEW f \in flying, Land(f) PROVE Rows'
    BY <1>8 DEF Land
<1>9. ASSUME NEW f \in flying, FailWrite(f) PROVE Rows'
    BY <1>9 DEF FailWrite
<1>10. CASE UNCHANGED storeVars
    BY <1>10 DEF storeVars
<1> QED
    BY <1>1, <1>2, <1>3, <1>4, <1>5, <1>6, <1>7, <1>8, <1>9, <1>10 DEF StoreNext

\* The last write of a removed entity is its removal.
LEMMA RemovedStep == StoreTypeOK /\ Removed /\ [StoreNext]_storeVars => Removed'
<1> SUFFICES ASSUME StoreTypeOK, Removed, [StoreNext]_storeVars
             PROVE  Removed'
    OBVIOUS
<1> USE StoreAssumption DEF StoreTypeOK, Contents, Unbuilt, Change, StartWrite, Stash, Removed
<1>1. CASE Push
    BY <1>1 DEF Push
<1>2. CASE Assign
    BY <1>2 DEF Assign
<1>3. CASE AssignBehind
    BY <1>3 DEF AssignBehind
<1>4. CASE Remove
    BY <1>4 DEF Remove
<1>5. CASE Reload
    BY <1>5 DEF Reload
<1>6. ASSUME NEW h \in Waiters, AwaitPersist(h) \/ Confirm(h) PROVE Removed'
    BY <1>6 DEF AwaitPersist, Confirm
<1>7. ASSUME NEW f \in flying, Build(f) PROVE Removed'
    BY <1>7 DEF Build
<1>8. ASSUME NEW f \in flying, Land(f) PROVE Removed'
    BY <1>8 DEF Land
<1>9. ASSUME NEW f \in flying, FailWrite(f) PROVE Removed'
    BY <1>9 DEF FailWrite
<1>10. CASE UNCHANGED storeVars
    BY <1>10 DEF storeVars
<1> QED
    BY <1>1, <1>2, <1>3, <1>4, <1>5, <1>6, <1>7, <1>8, <1>9, <1>10 DEF StoreNext

\* A step adds no claim but that of who starts to wait.
LEMMA ClaimsStep ==
    StoreTypeOK /\ [StoreNext]_storeVars =>
        \A c \in Claims' :
            \/ c \in Claims
            \/ /\ \E h \in Waiters : AwaitPersist(h)
               /\ c = [for |-> pending, content |-> memory, behind |-> bypassed]
<1> SUFFICES ASSUME StoreTypeOK, [StoreNext]_storeVars, NEW c \in Claims'
             PROVE  \/ c \in Claims
                    \/ /\ \E h \in Waiters : AwaitPersist(h)
                       /\ c = [for |-> pending, content |-> memory, behind |-> bypassed]
    OBVIOUS
<1> USE DEF StoreTypeOK, Claims
<1>1. CASE Reload
    BY <1>1 DEF Reload
<1>2. ASSUME NEW h \in Waiters, AwaitPersist(h)
      PROVE  c \in Claims \/ c = [for |-> pending, content |-> memory, behind |-> bypassed]
    BY <1>2 DEF AwaitPersist
<1>3. ASSUME NEW h \in Waiters, Confirm(h) PROVE c \in Claims
    BY <1>3 DEF Confirm
<1>4. CASE UNCHANGED <<waiting, confirmed>>
    BY <1>4
<1>5. \/ Reload
      \/ \E h \in Waiters : AwaitPersist(h) \/ Confirm(h)
      \/ UNCHANGED <<waiting, confirmed>>
    BY DEF StoreNext, Push, Assign, AssignBehind, Remove, Build, Land, FailWrite, storeVars
<1> QED BY <1>1, <1>2, <1>3, <1>4, <1>5

\* Claims are records of a write and a content.
LEMMA ClaimsType ==
    StoreTypeOK => \A c \in Claims : c.for \in Nat /\ c.content \in Nat /\ c.behind \in BOOLEAN
BY StoreAssumption DEF StoreTypeOK, Claims, Contents

\* Nothing carries a content that was not assigned yet.
LEMMA BoundedStep == StoreTypeOK /\ Bounded /\ [StoreNext]_storeVars => Bounded'
<1> SUFFICES ASSUME StoreTypeOK, Bounded, [StoreNext]_storeVars
             PROVE  Bounded'
    OBVIOUS
<1> DEFINE Rest == /\ memory' <= assigned' /\ row' <= assigned' /\ assigned <= assigned'
                   /\ \A f \in flying' : f.content <= assigned'
<1> USE StoreAssumption DEF StoreTypeOK, Contents, Unbuilt, Change, StartWrite, Bounded
<1>1. ASSUME Push PROVE Rest
    BY <1>1 DEF Push
<1>2. ASSUME Assign PROVE Rest
    BY <1>2 DEF Assign
<1>3. ASSUME AssignBehind PROVE Rest
    BY <1>3 DEF AssignBehind
<1>4. ASSUME Remove PROVE Rest
    BY <1>4 DEF Remove
<1>5. ASSUME Reload PROVE Rest
    BY <1>5 DEF Reload
<1>6. ASSUME NEW h \in Waiters, AwaitPersist(h) \/ Confirm(h) PROVE Rest
    BY <1>6 DEF AwaitPersist, Confirm
<1>7. ASSUME NEW f \in flying, Build(f) \/ Land(f) \/ FailWrite(f) PROVE Rest
    BY <1>7 DEF Build, Land, FailWrite
<1>8. ASSUME UNCHANGED storeVars PROVE Rest
    BY <1>8 DEF storeVars
<1>9. Rest
    BY <1>1, <1>2, <1>3, <1>4, <1>5, <1>6, <1>7, <1>8 DEF StoreNext
<1>10. ASSUME NEW c \in Claims' PROVE c.content <= assigned'
  <2>1. memory \in Nat /\ assigned \in Nat /\ assigned' \in Nat
      BY <1>9, StoreTypeStep
  <2>2. CASE c \in Claims
      BY <1>9, <2>1, <2>2, ClaimsType
  <2>3. CASE /\ \E h \in Waiters : AwaitPersist(h)
             /\ c = [for |-> pending, content |-> memory, behind |-> bypassed]
    <3>1. c.content = memory
        BY <2>3
    <3> QED BY <1>9, <2>1, <3>1
  <2> QED BY <2>2, <2>3, ClaimsStep
<1> QED BY <1>9, <1>10

\* The claims keep being covered by what is as new.
LEMMA KeptStep ==
    StoreTypeOK /\ UpToDate /\ Rows /\ Bounded /\ Kept /\ [StoreNext]_storeVars => Kept'
<1> SUFFICES ASSUME StoreTypeOK, UpToDate, Rows, Bounded, Kept, [StoreNext]_storeVars,
                    NEW c \in Claims', ~c.behind
             PROVE  /\ \A f \in Built' : f.write >= c.for => f.content >= c.content
                    /\ c.for <= landed' => landed' # 0 /\ (row' = 0 \/ row' >= c.content)
    BY DEF Kept
<1> DEFINE Covered == /\ \A f \in Built : f.write >= c.for => f.content >= c.content
                      /\ c.for <= landed => landed # 0 /\ (row = 0 \/ row >= c.content)
<1> USE StoreAssumption
<1>1. CASE c \notin Claims
  <2>1. PICK h \in Waiters : AwaitPersist(h)
      BY <1>1, ClaimsStep
  <2>2. c = [for |-> pending, content |-> memory, behind |-> bypassed]
      BY <1>1, ClaimsStep
  <2>3. c.for = pending /\ c.content = memory /\ ~bypassed /\ memory # 0
      BY <2>1, <2>2 DEF AwaitPersist
  <2>4. UNCHANGED <<flying, landed, row>>
      BY <2>1 DEF AwaitPersist
  <2>5. \A f \in Built : f.write >= pending => f.content = memory
      BY <2>3 DEF UpToDate
  <2>6. pending <= landed => landed # 0 /\ (row = 0 \/ row = memory)
      BY <2>3 DEF UpToDate, Rows, StoreTypeOK
  <2> QED BY <2>3, <2>4, <2>5, <2>6 DEF StoreTypeOK, Contents, Built, Saves
<1>2. CASE c \in Claims
  <2>1. Covered /\ c.content <= assigned /\ c.for \in Nat /\ c.content \in Nat
      BY <1>2, ClaimsType DEF Kept, Bounded
  <2> USE <2>1 DEF StoreTypeOK, Contents, Unbuilt, StartWrite, Built, Saves
  <2>2. CASE Push \/ Assign \/ Remove
      BY <2>2 DEF Push, Assign, Remove
  <2>3. CASE Reload
      BY <2>3 DEF Reload
  <2>4. ASSUME NEW f \in flying, Build(f)
        PROVE  Covered'
    <3>1. memory = assigned
        BY <2>4 DEF Build, UpToDate
    <3> QED BY <2>4, <3>1 DEF Build
  <2>5. ASSUME NEW f \in flying, Land(f)
        PROVE  Covered'
      BY <2>5 DEF Land
  <2>6. ASSUME NEW f \in flying, FailWrite(f)
        PROVE  Covered'
      BY <2>6 DEF FailWrite
  <2>7. CASE UNCHANGED <<flying, landed, row>>
      BY <2>7
  <2>8. \/ Push \/ Assign \/ Remove \/ Reload
        \/ \E f \in flying : Build(f) \/ Land(f) \/ FailWrite(f)
        \/ UNCHANGED <<flying, landed, row>>
      BY DEF StoreNext, AssignBehind, AwaitPersist, Confirm, storeVars
  <2> QED BY <2>2, <2>3, <2>4, <2>5, <2>6, <2>7, <2>8
<1> QED BY <1>1, <1>2

-----------------------------------------------------------------------------

\* The inductive invariant of Store holds in every state.
THEOREM StoreInvHolds == StoreSafety => []StoreInv
<1>1. StoreInit => StoreInv
  <2> SUFFICES ASSUME StoreInit PROVE StoreInv
      OBVIOUS
  <2>1. waiting \in [Waiters -> [for : 0..started, content : Contents, behind : BOOLEAN]]
      BY StoreAssumption DEF StoreInit, NoWait, Contents
  <2>2. StoreTypeOK
    <3>1. memory \in Contents /\ row \in Contents /\ assigned \in Contents
        BY StoreAssumption DEF StoreInit, Contents
    <3>2. listed \in BOOLEAN /\ bypassed \in BOOLEAN /\ revived \in BOOLEAN
        BY Zenon DEF StoreInit
    <3>3. started \in 0..MaxStarted /\ pending \in 0..started /\ landed \in 0..started
        BY StoreAssumption DEF StoreInit
    <3>4. flying = {} /\ confirmed = {}
        BY DEF StoreInit
    <3> QED BY <2>1, <3>1, <3>2, <3>3, <3>4 DEF StoreTypeOK
  <2>3. Claims = {}
      BY DEF StoreInit, Claims
  <2>4. UpToDate /\ Rows /\ Removed
      BY DEF StoreInit, UpToDate, Rows, Removed, Built, Saves
  <2>5. Bounded /\ Kept
      BY <2>3 DEF StoreInit, Bounded, Kept
  <2> QED BY <2>2, <2>4, <2>5 DEF StoreInv
<1>2. StoreInv /\ [StoreNext]_storeVars => StoreInv'
    BY StoreTypeStep, UpToDateStep, RowsStep, RemovedStep, BoundedStep, KeptStep DEF StoreInv
<1> QED BY <1>1, <1>2, PTL DEF StoreSafety

\* Every variable keeps its type.
THEOREM StoreTypeCorrect == StoreSafety => []StoreTypeOK
BY StoreInvHolds, PTL DEF StoreInv

\* What awaitPersist confirmed is in the database, whatever order writes land in and
\* however often the process restarts (awaitPersist).
THEOREM Confirmation == StoreSafety => []ConfirmedIsSaved
<1>1. StoreInv => ConfirmedIsSaved
    BY DEF StoreInv, Rows, Kept, Claims, ConfirmedIsSaved
<1> QED BY <1>1, StoreInvHolds, PTL

\* When all is written, and in order, memory and the database agree (persist, splice).
THEOREM Agreement == StoreSafety => []AgreesAtRest
<1>1. StoreInv => AgreesAtRest
    BY DEF StoreInv, StoreTypeOK, Contents, UpToDate, Rows, Removed, AgreesAtRest
<1> QED BY <1>1, StoreInvHolds, PTL
=============================================================================

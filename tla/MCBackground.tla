---------------------------- MODULE MCBackground ----------------------------
(* Instances for TLC of the modules of which others make use: the lock of a   *)
(* limit, the store, the automations behind an event, and the subscriptions   *)
(* of a customer.                                                             *)
EXTENDS LimitLock, Store, Automations, Subscriptions, TLC

\* What a behaviour is about; the modules do not meet.  Subscriptions come in two kinds
\* of behaviour: "trials" with the job and an extension, and "sales" with neither and one
\* subscription more, in which trials end when somebody reads them.
VARIABLE part

backgroundVars == <<lockVars, storeVars, automationVars, subscriptionVars, part>>

BackgroundInit ==
    /\ LockInit /\ StoreInit /\ AutomationsInit /\ SubscriptionsInit
    /\ part \in {"lock", "store", "automation", "trials", "sales"}
    /\ part # "lock" => \A r \in Requests : home[r] = CHOOSE n \in Nodes : TRUE

Locking ==
    part = "lock" /\ LockNext
        /\ UNCHANGED <<storeVars, automationVars, subscriptionVars, part>>
Storing ==
    part = "store" /\ StoreNext
        /\ UNCHANGED <<lockVars, automationVars, subscriptionVars, part>>
Automating ==
    part = "automation" /\ AutomationsNext
        /\ UNCHANGED <<lockVars, storeVars, subscriptionVars, part>>
Subscribing ==
    /\ part \in {"trials", "sales"} /\ SubscriptionsNext
    /\ part = "trials" => pushed' < MaxRows
    /\ part = "sales" => ~isProcessing' /\ extensions' = 0
    /\ UNCHANGED <<lockVars, storeVars, automationVars, part>>

BackgroundNext == Locking \/ Storing \/ Automating \/ Subscribing
BackgroundSafety == BackgroundInit /\ [][BackgroundNext]_backgroundVars

\* The fairness of LockSpec and of SubscriptionsSpec.
BackgroundSpec ==
    /\ BackgroundSafety
    /\ \A r \in Requests :
          WF_backgroundVars(part = "lock" /\ Step(r)
              /\ UNCHANGED <<storeVars, automationVars, subscriptionVars, part>>)
    /\ WF_backgroundVars(part \in {"trials", "sales"} /\ Job
              /\ UNCHANGED <<lockVars, storeVars, automationVars, part>>)
=============================================================================

---------------------------- MODULE PartnerDeals ----------------------------
(***************************************************************************)
(* One deal that a partner registered: its status, its copy in the CRM and *)
(* the conversion that pays the partner when it is won                     *)
(* (PartnerDealsService).  Members approve, export and move it, the CRM    *)
(* reports its stage, several of these at a time.  An export waits for the *)
(* contact and the company, and then for the CRM deal; winning waits for   *)
(* createConversion, moving for the update of the CRM's stage.             *)
(*                                                                         *)
(* The deal has a partner; createConversion is the module Intake, of which *)
(* this one keeps the external ids and the idempotency keys.               *)
(***************************************************************************)
EXTENDS Naturals, FiniteSets

CONSTANTS
    Workers,        \* handlers that may run at the same time
    MaxCrmDeals,    \* bound: CRM deals created
    MaxConversions  \* bound: conversions made

ASSUME DealsAssumption == MaxCrmDeals \in Nat /\ MaxConversions \in Nat

VARIABLES
    dealStatus,     \* deal.status
    commissionStatus, \* deal.commissionStatus
    crmDealId,      \* deal.crmDealId; 0 when there is none
    crmDeals,       \* number of deals created in the CRM
    wonAs,          \* crmDealIds the external ids of its conversions are made of
    keyedAs,        \* those of its idempotency records
    conversions,    \* number of conversions made for the deal
    work,           \* where a handler stands, and the crmDealId it keyed its conversion by
    twinned,        \* history: an export while another was under way, or one whose answer was lost
    renamed,        \* history: the deal got its crmDealId after a conversion was made
    unpaid          \* history: it was won with automatic conversion off, or createConversion refused

wonVars   == <<wonAs, keyedAs, conversions>>
dealVars  == <<dealStatus, commissionStatus, crmDealId, crmDeals, wonVars, work,
               twinned, renamed, unpaid>>

Rest == [at |-> "idle", id |-> 0]
Ids == 0..MaxCrmDeals

\* SUBMITTED stands for UNDER_REVIEW and the open columns of the board, CLOSED_LOST for
\* REJECTED and CANCELLED.
DealStatus == {"SUBMITTED", "SYNC_PENDING", "SYNCED", "SYNC_ERROR", "CLOSED_WON", "CLOSED_LOST"}

DealsInit ==
    /\ dealStatus = "SUBMITTED"
    /\ commissionStatus = "NOT_ELIGIBLE"
    /\ crmDealId = 0
    /\ crmDeals = 0
    /\ wonAs = {}
    /\ keyedAs = {}
    /\ conversions = 0
    /\ work = [w \in Workers |-> Rest]
    /\ twinned = FALSE
    /\ renamed = FALSE
    /\ unpaid = FALSE

At(w, stage) == work[w].at = stage
GoTo(w, stage) == work' = [work EXCEPT ![w] = [at |-> stage, id |-> @.id]]
Stop(w) == work' = [work EXCEPT ![w] = Rest]

-----------------------------------------------------------------------------
(* Export to the CRM.  An operator whose name has an underscore is the operator *)
(* before the underscore with a slip in it.                                     *)

Exporting == \E w \in Workers : work[w].at \in {"resolving", "creating"}

\* syncToHubSpot up to the answers about contact and company.
Export(w) ==
    /\ At(w, "idle")
    /\ GoTo(w, "resolving")
    /\ twinned' = (twinned \/ Exporting)
    /\ UNCHANGED <<commissionStatus, crmDealId, crmDeals, wonVars, renamed, unpaid>>

\* approve; it need not export.
Approve(w) ==
    /\ dealStatus \notin {"SYNCED", "CLOSED_WON"}
    /\ dealStatus' = "SYNC_PENDING"
    /\ \/ Export(w)
       \/ UNCHANGED <<commissionStatus, crmDealId, crmDeals, wonVars, work, twinned, renamed, unpaid>>

\* sync asks for no status.
Sync(w) == Export(w) /\ UNCHANGED dealStatus

Synced(w, id) ==
    /\ Stop(w)
    /\ crmDealId' = id
    /\ dealStatus' = "SYNCED"
    /\ renamed' = (renamed \/ (wonAs # {} /\ id # crmDealId))
    /\ UNCHANGED <<commissionStatus, wonVars, unpaid>>

HasCrmDeal_Never == FALSE
HasCrmDeal == crmDealId # 0

Resolved(w) ==
    /\ At(w, "resolving")
    /\ IF HasCrmDeal
       THEN Synced(w, crmDealId) /\ UNCHANGED <<crmDeals, twinned>>
       ELSE /\ GoTo(w, "creating")
            /\ UNCHANGED <<dealStatus, commissionStatus, crmDealId, crmDeals, wonVars,
                           twinned, renamed, unpaid>>

CrmDealCreated(w) ==
    /\ At(w, "creating")
    /\ crmDeals < MaxCrmDeals
    /\ crmDeals' = crmDeals + 1
    /\ Synced(w, crmDeals + 1)
    /\ UNCHANGED twinned

\* The CRM refuses, or its answer is lost when the deal is there already.
ExportFails(w) ==
    /\ work[w].at \in {"resolving", "creating"}
    /\ Stop(w)
    /\ dealStatus' = "SYNC_ERROR"
    /\ \/ UNCHANGED <<crmDeals, twinned>>
       \/ /\ At(w, "creating") /\ crmDeals < MaxCrmDeals
          /\ crmDeals' = crmDeals + 1
          /\ twinned' = TRUE
    /\ UNCHANGED <<commissionStatus, crmDealId, wonVars, renamed, unpaid>>

-----------------------------------------------------------------------------
(* Winning the deal *)

AlreadyPaid_ByStatus(s) == s = "CLOSED_WON"
AlreadyPaid(s) == s = "CLOSED_WON" /\ commissionStatus = "TRIGGERED"

Keyed(id) == id \in keyedAs
Won_Unknown(id) == FALSE
Won(id) == id \in wonAs

\* Behind a change of the stage on the board the CRM is told, if the deal is there and
\* the settings say so.
Onward(w, from) ==
    \/ Stop(w)
    \/ from = "board" /\ crmDealId # 0 /\ GoTo(w, "pushing")

\* closeWon up to the fraud check of createConversion; s is the deal's status when it is called.
CloseWon(w, s, from) ==
    IF AlreadyPaid(s)
    THEN /\ dealStatus' = s
         /\ Onward(w, from)
         /\ UNCHANGED <<commissionStatus, wonVars, unpaid>>
    ELSE /\ dealStatus' = "CLOSED_WON"
         /\ \/ \* the stored answer
               /\ Keyed(crmDealId)
               /\ commissionStatus' \in {"TRIGGERED", "PENDING"}
               /\ Onward(w, from)
               /\ UNCHANGED <<wonVars, unpaid>>
            \/ \* "already exists", or the key was used with another amount
               /\ Keyed(crmDealId) \/ Won(crmDealId)
               /\ Stop(w)
               /\ UNCHANGED <<commissionStatus, wonVars, unpaid>>
            \/ \* another refusal: the deal's currency is not the program's
               /\ ~Keyed(crmDealId) /\ ~Won(crmDealId)
               /\ Stop(w)
               /\ unpaid' = TRUE
               /\ UNCHANGED <<commissionStatus, wonVars>>
            \/ /\ ~Keyed(crmDealId) /\ ~Won(crmDealId)
               /\ conversions < MaxConversions
               /\ conversions' = conversions + 1
               /\ wonAs' = wonAs \cup {crmDealId}
               /\ work' = [work EXCEPT ![w] = [at |-> from, id |-> crmDealId]]
               /\ UNCHANGED <<commissionStatus, keyedAs, unpaid>>

Converting(w) == work[w].at \in {"board", "crm"}

\* createConversion answers, with a commission or without.
ConversionMade(w) ==
    /\ Converting(w)
    /\ keyedAs' = keyedAs \cup {work[w].id}
    /\ commissionStatus' \in {"TRIGGERED", "PENDING"}
    /\ Onward(w, work[w].at)
    /\ UNCHANGED <<dealStatus, crmDealId, crmDeals, wonAs, conversions, twinned, renamed, unpaid>>

\* It throws behind its fraud check: the conversion stays.
ConversionFails(w) ==
    /\ Converting(w)
    /\ Stop(w)
    /\ UNCHANGED <<dealStatus, commissionStatus, crmDealId, crmDeals, wonVars,
                   twinned, renamed, unpaid>>

\* The idempotency record of the conversion expires.
DealKeyExpires(id) ==
    /\ id \in keyedAs
    /\ keyedAs' = keyedAs \ {id}
    /\ UNCHANGED <<dealStatus, commissionStatus, crmDealId, crmDeals, wonAs, conversions, work,
                   twinned, renamed, unpaid>>

-----------------------------------------------------------------------------
(* Moving the deal *)

\* updateStage to WON, and to any other column.
MoveToWon(w) ==
    /\ At(w, "idle")
    /\ CloseWon(w, dealStatus, "board")
    /\ UNCHANGED <<crmDealId, crmDeals, twinned, renamed>>

MoveTo(w, s) ==
    /\ At(w, "idle")
    /\ dealStatus' = s
    /\ Onward(w, "board")
    /\ UNCHANGED <<commissionStatus, crmDealId, crmDeals, wonVars, twinned, renamed, unpaid>>

\* reject and the archiving of bulkAction.
Close ==
    /\ dealStatus' = "CLOSED_LOST"
    /\ UNCHANGED <<commissionStatus, crmDealId, crmDeals, wonVars, work, twinned, renamed, unpaid>>

\* pushStageToHubSpot: its failure is the deal's.
StagePushed(w, s) ==
    /\ At(w, "pushing")
    /\ Stop(w)
    /\ dealStatus' = s
    /\ UNCHANGED <<commissionStatus, crmDealId, crmDeals, wonVars, twinned, renamed, unpaid>>

\* handleHubSpotDealStage: the mapped status is assigned before closeWon is called.
CrmReportsWon(w) ==
    /\ At(w, "idle")
    /\ crmDealId # 0
    /\ \/ CloseWon(w, "CLOSED_WON", "crm")
       \/ \* automatic conversion is off
          /\ dealStatus' = "CLOSED_WON"
          /\ unpaid' = TRUE
          /\ UNCHANGED <<commissionStatus, wonVars, work>>
    /\ UNCHANGED <<crmDealId, crmDeals, twinned, renamed>>

CrmReports(s) ==
    /\ crmDealId # 0
    /\ dealStatus' = s
    /\ UNCHANGED <<commissionStatus, crmDealId, crmDeals, wonVars, work, twinned, renamed, unpaid>>

DealsNext ==
    \/ \E w \in Workers :
          \/ Approve(w) \/ Sync(w) \/ Resolved(w) \/ CrmDealCreated(w) \/ ExportFails(w)
          \/ MoveToWon(w) \/ CrmReportsWon(w) \/ ConversionMade(w) \/ ConversionFails(w)
          \/ \E s \in {"SUBMITTED", "SYNC_PENDING", "CLOSED_LOST"} : MoveTo(w, s)
          \/ \E s \in {dealStatus, "SYNC_ERROR"} : StagePushed(w, s)
    \/ \E s \in {"SUBMITTED", "CLOSED_LOST"} : CrmReports(s)
    \/ \E id \in Ids : DealKeyExpires(id)
    \/ Close

DealsSafety == DealsInit /\ [][DealsNext]_dealVars
-----------------------------------------------------------------------------
(* Properties *)

\* What the variables hold.
DealsTypeOK ==
    /\ dealStatus \in DealStatus
    /\ commissionStatus \in {"NOT_ELIGIBLE", "PENDING", "TRIGGERED"}
    /\ crmDealId \in 0..crmDeals
    /\ crmDeals \in 0..MaxCrmDeals
    /\ wonAs \subseteq 0..crmDeals
    /\ keyedAs \subseteq wonAs
    /\ conversions \in 0..MaxConversions
    /\ work \in [Workers -> [at : {"idle", "resolving", "creating", "board", "crm", "pushing"},
                            id : Ids]]
    /\ twinned \in BOOLEAN /\ renamed \in BOOLEAN /\ unpaid \in BOOLEAN

\* A deal pays its partner once, however often it is won, by whom, and whatever fails in
\* between, unless it got its crmDealId after it had been won; and a deal that was won has
\* been paid for, unless automatic conversion was off or createConversion refused
\* (closeWon, handleHubSpotDealStage).
WonIsPaidOnce ==
    /\ conversions <= 1 \/ renamed
    /\ dealStatus = "CLOSED_WON" => conversions > 0 \/ unpaid

\* A deal has one copy in the CRM unless two exports overlapped or an answer of the CRM
\* was lost (syncToHubSpot).
OneCrmDeal == crmDeals <= 1 \/ twinned
=============================================================================

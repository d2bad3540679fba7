------------------------- MODULE MCConversionParts -------------------------
(* An instance of Conversions for TLC that runs it in two parts.            *)
EXTENDS Conversions, TLC

\* Who acts in a behaviour beside the API and the handlers: merchants and analysts, or
\* the commission desk and admins.  The second kind, in which amounts and statuses are
\* written at will, is cut shorter.
VARIABLE part

partVars == <<vars, part>>

Handlers == (\E c \in Conversions : Continue(c)) \/ (\E k \in Commissions : PostEarned(k))

Market ==
    /\ part = "market"
    /\ Api \/ Merchant \/ Analyst \/ Handlers

Short ==
    /\ \A c \in Conversions :
          /\ made'[c] <= 2 /\ refunds'[c] <= 2 /\ rejections'[c] <= 2
          /\ refunded'[c] % 2 = 0
    /\ \A k \in Commissions :
          amount'[k] <= 2 /\ credited'[k] <= 2 /\ debited'[k] \in -2..2

Office ==
    /\ part = "office"
    /\ Api \/ CommissionDesk \/ Admin \/ Handlers
    /\ Short

PartsInit == Init /\ part \in {"market", "office"}
PartsNext == (Market \/ Office) /\ UNCHANGED part

\* The fairness of Spec.
PartsSpec ==
    /\ PartsInit /\ [][PartsNext]_partVars
    /\ \A c \in Conversions : WF_partVars(Continue(c) /\ UNCHANGED part)
    /\ \A k \in Commissions : WF_partVars(PostEarned(k) /\ UNCHANGED part)
=============================================================================

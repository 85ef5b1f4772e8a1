----------------------------- MODULE MCDelivery -----------------------------
(***************************************************************************)
(* Small instances of the two delivery components.  They meet only in      *)
(* DeliveryContract, so each behaviour exercises one of them, and the      *)
(* other one rests.                                                        *)
(***************************************************************************)
EXTENDS WebhookDispatcher, ExportTrigger

VARIABLE part

DeliveryVars == <<part, dispatcherVars, triggerVars>>

DeliveryInit ==
  /\ part \in {"dispatcher", "trigger"}
  /\ DispatcherInit /\ TriggerInit

DeliveryNext ==
  /\ UNCHANGED part
  /\ \/ part = "dispatcher" /\ DispatcherNext /\ UNCHANGED triggerVars
     \/ part = "trigger" /\ TriggerNext /\ UNCHANGED dispatcherVars

\* Parts that rest have no step that fairness could ask for: no caller has
\* called and no event was published.
DeliverySpec ==
  /\ DeliveryInit /\ [][DeliveryNext]_DeliveryVars
  /\ DispatcherFairness /\ TriggerFairness

DeliveryTypeOK == DispatcherTypeOK /\ TriggerTypeOK

\* What was begun comes to its end: calls of the dispatcher and Close return, and
\* events, exports and Stop of the trigger are done with.
DeliverySettles == AllReturn /\ TriggerSettles
=============================================================================

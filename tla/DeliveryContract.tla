-------------------------- MODULE DeliveryContract --------------------------
(***************************************************************************)
(* What the webhook dispatcher promises to a caller that waits for the     *)
(* answer (Dispatcher.Deliver, DeliverExport): it is answered once, and    *)
(* "ok" only if the receiver accepted the event.  An error promises        *)
(* nothing: the receiver may have the event, or get it later.              *)
(*                                                                         *)
(* WebhookDispatcher implements this contract; ExportTrigger relies on it. *)
(***************************************************************************)
CONSTANT Calls

VARIABLES
  answer,    \* what each call returned
  received   \* the calls whose event the receiver is known to have accepted

contract == <<answer, received>>

ContractInit ==
  /\ answer = [d \in Calls |-> "none"]
  /\ received = {}

\* The receiver accepts an event, or accepts it again.
Receive(d) == received' = received \cup {d} /\ UNCHANGED answer

Answered(d, verdict) ==
  /\ answer[d] = "none"
  /\ answer' = [answer EXCEPT ![d] = verdict]
  /\ UNCHANGED received

AnswerOK(d) == d \in received /\ Answered(d, "ok")
AnswerError(d) == Answered(d, "error")

ContractNext ==
  \E d \in Calls : Receive(d) \/ AnswerOK(d) \/ AnswerError(d)

ContractSpec == ContractInit /\ [][ContractNext]_contract
=============================================================================

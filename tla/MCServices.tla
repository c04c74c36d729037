------------------------------ MODULE MCServices ------------------------------
(***************************************************************************)
(* Model-checking instances of the services that run beside the jobs: one   *)
(* provider's circuit breaker, the gossip about it, and the delivery of      *)
(* events.  They share no state, so a behaviour is one service's: which one  *)
(* is chosen at the start, and the others stay as they start.              *)
(***************************************************************************)
EXTENDS ProviderBreaker, ProviderGossip, WebhookDelivery, TLC

CONSTANTS r1, r2, n1, n2, e1, e2, e3, s1, s2

VARIABLE service

TwoRequests == {r1, r2}
TwoNodes == {n1, n2}
ThreeEvents == {e1, e2, e3}
TwoSubscribers == {s1, s2}

ServicesInit ==
  /\ service \in {"breaker", "gossip", "webhooks"}
  /\ Init /\ GossipInit /\ WebhookInit
  /\ service # "gossip" => known = {}
  /\ service # "webhooks" => registry = {}

Of(name, v) == IF service = name THEN TRUE ELSE UNCHANGED v

ServicesNext ==
  /\ UNCHANGED service
  /\ \/ service = "breaker" /\ Next
     \/ service = "gossip" /\ GossipNext
     \/ service = "webhooks" /\ WebhookNext
  /\ Of("breaker", vars) /\ Of("gossip", gossipVars) /\ Of("webhooks", webhookVars)

\* The fairness each of the modules assumes of its service.
ServicesFairness ==
  /\ WF_vars(service = "breaker" /\ Tick)
  /\ \A t \in Task : WF_vars(service = "breaker" /\ Goes(t))
  /\ WF_gossipVars(service = "gossip" /\ GossipTick)
  /\ \A n \in Nodes : WF_gossipVars(service = "gossip" /\ ProbeProvider(n))
  /\ WF_webhookVars(service = "webhooks" /\ Worker)
  /\ \A e \in Events : WF_webhookVars(service = "webhooks" /\ Enqueue(e))

ServicesSpec ==
  /\ ServicesInit
  /\ [][ServicesNext]_<<service, vars, gossipVars, webhookVars>>
  /\ ServicesFairness

\* Every variable of the three has its type; the channel holds no more than it
\* may, a worker without an event has nobody to serve; and each endpoint gets its
\* events in their order, none more often than there are attempts.
ServicesSound == TypeOK /\ GossipTypeOK /\ WebhookTypeOK /\ DeliveredInOrder
===============================================================================

---------------------------- MODULE DeliveryOutbox ----------------------------
(***************************************************************************)
(* Module Delivery implements module Outbox: the lease and the delivery    *)
(* log make the workers of a pair one sender.                              *)
(***************************************************************************)
EXTENDS Delivery

\* The state of a pair: what its row says, else what the worker that holds it does.
PairState(p) ==
  IF log[p].succeeded THEN "delivered"
  ELSE IF \E t \in Tasks : PairOf[t] = p /\ pc[t] = "sending" THEN "sending"
  ELSE IF \E t \in Tasks : PairOf[t] = p /\ pc[t] = "recording" /\ result[t] = "ok" THEN "arrived"
  ELSE "open"

Out == INSTANCE Outbox WITH
         state <- [p \in Pairs |-> PairState(p)],
         gone <- {s \in Subs : sub[s] = "deleted"},
         taken <- accepted,
         unsure <- losses

\* Whatever messages are queued for a pair, retried, redelivered or killed, its
\* receiver sees one sender: no copy leaves while another is on its way, after a
\* success was logged, or for a deleted subscription, and a success is forgotten
\* only with its worker or its subscription.
ImplementsOutbox == Out!Spec
=============================================================================

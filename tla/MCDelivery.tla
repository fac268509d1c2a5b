----------------------------- MODULE MCDelivery -----------------------------
(* Module Delivery for TLC.  One unit of time is 30 seconds. *)
EXTENDS DeliveryOutbox, TLC

CONSTANTS s1, a1, t1, t2

\* All messages are for one pair; pairs only share the subscription.
OnePair == [t \in Tasks |-> <<s1, a1>>]

\* Messages are interchangeable.
MessageSymmetry == Permutations(Tasks)
=============================================================================

-------------------------- MODULE MCSubscriptions ---------------------------
(* Instances of Subscriptions for TLC: a webhook URL in two spellings and an *)
(* email address.                                                            *)
EXTENDS Subscriptions, TLC

CONSTANTS s1, s2, s3, o1, o2, hook, hookVariant, email

OwnOne == [s \in Subs |-> IF s \in {s1, s2} THEN o1 ELSE o2]

OneKey == [t \in Targets |-> IF t = email THEN "mailto" ELSE "https"]

RequestSymmetry == Permutations(Requests)
====

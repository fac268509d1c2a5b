-------------------------------- MODULE Outbox --------------------------------
(***************************************************************************)
(* What delivery promises a receiver, without tasks, leases, retries or    *)
(* clocks: the copies of one article for one subscription leave one after  *)
(* the other, none leaves once one is known to have arrived, and none      *)
(* starts for a subscription that is gone.                                 *)
(***************************************************************************)
EXTENDS Integers

CONSTANTS Subs, Arts

VARIABLES
  state,    \* of each pair: "open", "sending", "arrived" or "delivered"
  gone,     \* deleted subscriptions
  taken,    \* how many copies the receiver took
  unsure    \* of how many the sender never knew, or forgot

vars == <<state, gone, taken, unsure>>

Pairs == Subs \X Arts

Init ==
  /\ state = [p \in Pairs |-> "open"]
  /\ gone = {}
  /\ taken = [p \in Pairs |-> 0]
  /\ unsure = [p \in Pairs |-> 0]

Move(p, from, to) == state[p] = from /\ state' = [state EXCEPT ![p] = to]
Count(counter, p) == [counter EXCEPT ![p] = @ + 1]

Begin(p) == Move(p, "open", "sending") /\ p[1] \notin gone /\ UNCHANGED <<gone, taken, unsure>>

\* The copy arrives and its sender knows, or it arrives unnoticed, or it does not.
Arrive(p) == Move(p, "sending", "arrived") /\ taken' = Count(taken, p) /\ UNCHANGED <<gone, unsure>>

ArriveUnnoticed(p) ==
  /\ Move(p, "sending", "open")
  /\ taken' = Count(taken, p) /\ unsure' = Count(unsure, p)
  /\ UNCHANGED gone

GiveUp(p) == Move(p, "sending", "open") /\ UNCHANGED <<gone, taken, unsure>>

\* The sender notes the arrival, or forgets it: it stopped, or the subscription is gone.
Confirm(p) == Move(p, "arrived", "delivered") /\ UNCHANGED <<gone, taken, unsure>>

Forget(p) ==
  /\ Move(p, "arrived", "open")
  /\ \/ p[1] \in gone /\ UNCHANGED unsure
     \/ unsure' = Count(unsure, p)
  /\ UNCHANGED <<gone, taken>>

\* Deleting a subscription deletes what is known of its deliveries.
Cancel(s) ==
  /\ gone' = gone \union {s}
  /\ state' = [p \in Pairs |-> IF p[1] = s /\ state[p] = "delivered" THEN "open" ELSE state[p]]
  /\ UNCHANGED <<taken, unsure>>

Next ==
  \/ \E p \in Pairs : Begin(p) \/ Arrive(p) \/ ArriveUnnoticed(p) \/ GiveUp(p)
                      \/ Confirm(p) \/ Forget(p)
  \/ \E s \in Subs : Cancel(s)

Spec == Init /\ [][Next]_vars
=============================================================================

------------------------------ MODULE Delivery ------------------------------
(***************************************************************************)
(* What an actor promises to those who send to it, without its queue, its  *)
(* event loop, its handles and its clients.  Payloads are accepted one     *)
(* after the other; each is served at most once, in that order and one at  *)
(* a time; service may be cut short, and an accepted payload may be lost.  *)
(* Nothing is served after the end, and the end is announced after it.     *)
(***************************************************************************)
EXTENDS Naturals

CONSTANTS
  MaxMsgs,   \* BOUND: payloads accepted in a behaviour
  Lossy      \* accepting a payload may push the oldest waiting one out

VARIABLES accepted, outcome, serving, ended, announced

deliveryVars == <<accepted, outcome, serving, ended, announced>>

Msgs == 1 .. MaxMsgs

DeliveryInit ==
  /\ accepted = 0
  /\ outcome = [i \in Msgs |-> "none"]
  /\ serving = 0
  /\ ended = FALSE /\ announced = FALSE

Oldest(i) == outcome[i] = "waiting" /\ \A j \in Msgs : outcome[j] = "waiting" => i <= j

\* A payload is accepted; a lossy mailbox may drop the oldest one for it.
Take ==
  /\ accepted < MaxMsgs
  /\ accepted' = accepted + 1
  /\ \/ outcome' = [outcome EXCEPT ![accepted + 1] = "waiting"]
     \/ /\ Lossy
        /\ \E i \in Msgs : Oldest(i)
             /\ outcome' = [outcome EXCEPT ![accepted + 1] = "waiting", ![i] = "lost"]
  /\ UNCHANGED <<serving, ended, announced>>

Serve(i) ==
  /\ ~ended /\ serving = 0 /\ Oldest(i)
  /\ \/ serving' = i /\ outcome' = [outcome EXCEPT ![i] = "served"]
     \/ serving' = 0 /\ outcome' = [outcome EXCEPT ![i] = "done"]
  /\ UNCHANGED <<accepted, ended, announced>>

Finish ==
  /\ serving # 0 /\ ~ended
  /\ \E o \in {"done", "lost"} : outcome' = [outcome EXCEPT ![serving] = o]
  /\ serving' = 0
  /\ UNCHANGED <<accepted, ended, announced>>

End ==
  /\ ~ended /\ serving = 0
  /\ ended' = TRUE
  /\ UNCHANGED <<accepted, outcome, serving, announced>>

Announce ==
  /\ ended /\ ~announced
  /\ announced' = TRUE
  /\ UNCHANGED <<accepted, outcome, serving, ended>>

DeliveryNext == Take \/ (\E i \in Msgs : Serve(i)) \/ Finish \/ End \/ Announce

DeliverySafe == DeliveryInit /\ [][DeliveryNext]_deliveryVars

\* Service that has begun is finished or cut short, and an end is announced.
DeliverySpec == DeliverySafe /\ WF_deliveryVars(Finish) /\ WF_deliveryVars(Announce)
=============================================================================

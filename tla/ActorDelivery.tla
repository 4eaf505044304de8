---------------------------- MODULE ActorDelivery ----------------------------
(***************************************************************************)
(* Actor implements Delivery and Lifecycle.                                *)
(***************************************************************************)
EXTENDS Actor

\* What an outside observer can tell about a payload.
OutcomeOf(f) == CASE f = "unsent"  -> "none"
                  [] f = "queued"  -> "waiting"
                  [] f = "running" -> "served"
                  [] f = "done"    -> "done"
                  [] OTHER         -> "lost"

D == INSTANCE Delivery WITH
       Lossy     <- Capacity # 0,
       accepted  <- sent,
       outcome   <- [i \in Ids |-> OutcomeOf(fate[i])],
       serving   <- cur,
       ended     <- ~flag,
       announced <- notified

\* The steps of the actor are steps Delivery allows: accepted payloads are served
\* at most once, in order, one at a time; a payload is only lost from a bounded
\* mailbox or by a loop that cuts its service short; nothing is served once the
\* running flag is down, and the stop notification follows the flag.
DeliversSafely == D!DeliverySafe

\* And service that began comes to an end, as does a stop that has begun.
ImplementsDelivery == D!DeliverySpec

\* How far the actor is when its loop is at p and left is what remains of it.
Stage(p, left) ==
  CASE p = "starting" -> "starting"
    [] p \in {"waiting", "handling", "resetting", "restarting", "cancelling"} -> "up"
    [] p = "stopping" \/ (p = "teardown" /\ left \in {FinishOrder, UnwindOrder}) -> "stopping"
    [] p = "teardown" /\ left \in {<<"notify", "close">>, <<"close">>} -> "flagdown"
    [] p = "teardown" /\ left = <<"flag", "notify">> -> "unwound"
    [] OTHER -> "over"

\* A stop was accepted, or the loop ended out of order.
Told == (\E i \in Ids : load[i] = "stop") \/ (Over /\ ~Orderly)

L == INSTANCE Lifecycle WITH life <- Stage(phase, todo), told <- Told, held <- HeldBy(handle)

\* An actor only ends for a reason, its flag and its receiver go in one of two
\* orders, and once nobody holds it strongly nobody ever does again.
ImplementsLifecycle == L!LifecycleSpec
=============================================================================

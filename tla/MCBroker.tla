------------------------------ MODULE MCBroker ------------------------------
(* Instances of Broker for TLC.                                            *)
EXTENDS Broker, TLC

CONSTANTS s1, s2, x1

Forced_relay == (s1 :> {}) @@ (s2 :> {Stop, Restart})

Cap_tight == (s1 :> 1) @@ (s2 :> 1) @@ (x1 :> 0)

Reqs == {Publish, Req("subscribe", s1), Req("subscribe", s2), Req("unsubscribe", s1), Req("external", x1)}
=============================================================================

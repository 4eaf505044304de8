---------------------------- MODULE MCStreamActor ----------------------------
(* Instances of StreamActor for TLC.                                       *)
EXTENDS StreamActor, TLC

CONSTANTS a, b

Handles == (a :> "strong") @@ (b :> "weak")

\* A caller that may restart the actor, and a weak sender.
Ops_stream == (a :> {Addr_call, Addr_restart}) @@ (b :> {Sender_send})
=============================================================================

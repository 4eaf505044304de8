------------------------------ MODULE MCActor ------------------------------
(* Instances of Actor for TLC: who holds which handle and calls what.      *)
EXTENDS ActorDelivery, TLC

CONSTANTS a, b, w

Handles_aw  == (a :> "strong") @@ (w :> "weak")
Handles_ab  == (a :> "strong") @@ (b :> "strong")

\* Life cycle: calls against stop, halt and restart.
Ops_life == (a :> {Addr_call, Addr_halt, Addr_restart}) @@ (w :> {Addr_stop, Caller_call})

\* A full mailbox: waiting senders, forced pushes and restarts, pings refused, of
\* an actor that exits when a handler times out.
Ops_full == (a :> {Addr_send, Sender_force_send, Addr_restart, Addr_await})
            @@ (b :> {Caller_call, Addr_ping})

\* Calls and pings of such an actor.
Ops_late == (a :> {Addr_call, Addr_await}) @@ (b :> {Addr_ping})

\* An accepted stop that a later forced push may evict: a restart, or a message of
\* send_to_children.
Ops_evict == (a :> {Addr_halt}) @@ (b :> {Addr_restart, Sender_force_send})

\* A call that another client's stop overtakes.
Ops_strand == (a :> {Addr_stop}) @@ (w :> {Caller_call})
=============================================================================

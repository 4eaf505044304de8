------------------------------ MODULE Mailbox ------------------------------
(***************************************************************************)
(* The channel between the addresses of an actor and its event loop, as    *)
(* src/channel.rs takes it from the async_channel crate: a FIFO queue that *)
(* is bounded or not.  Capacity = 0 stands for Channel::unbounded(): the   *)
(* crate refuses a bounded channel of capacity 0, so the value is free.    *)
(***************************************************************************)
EXTENDS Naturals, Sequences

CONSTANT Capacity

ASSUME CapacityAssumption == Capacity \in Nat

\* A bounded queue that has no room left: try_send reports it, send waits.
Full(q) == Capacity # 0 /\ Len(q) >= Capacity

\* Mutant: the caller of the evicted payload is never told.
Mut_Evicted(q) == {}

\* force_send on a full queue pushes the OLDEST entry out and hands it back
\* to its caller; every caller in this repository drops what it is handed.
Evicted(q) == IF Full(q) THEN {Head(q)} ELSE {}

\* Mutant: a forced payload overtakes what is queued.
Mut_ForcePushed(q, m) == <<m>> \o (IF Full(q) THEN Tail(q) ELSE q)

\* The queue after force_send, which never waits for room.
ForcePushed(q, m) == IF Full(q) THEN Append(Tail(q), m) ELSE Append(q, m)
=============================================================================

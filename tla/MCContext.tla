----------------------------- MODULE MCContext -----------------------------
(* Instances of Context for TLC: message types and children.               *)
EXTENDS Context

CONSTANTS hello, kid

\* An interval beside a delayed message or a user future; two intervals.
Kinds_background == << {"interval"}, {"delayed", "future"} >>
Kinds_overlap    == << {"interval"}, {"interval"} >>
=============================================================================

------------------------------ MODULE Builder ------------------------------
(***************************************************************************)
(* How the configuration of an event loop comes about: ActorBuilder and    *)
(* StreamActorBuilder (src/actor/builder.rs), the constructors of          *)
(* EventLoop (src/event_loop.rs), and the Spawnable traits, which are      *)
(* builders on which nothing is called.                                    *)
(*                                                                         *)
(* Durations are left out: a timeout is there or not.                      *)
(***************************************************************************)
EXTENDS Naturals, Sequences

CONSTANTS
  None,         \* Option::None
  Capacities,   \* capacities asked of a bounded channel
  MaxCalls      \* BOUND: configuring calls on one builder

ASSUME BuilderAssumption == Capacities \subseteq Nat \ {0} /\ MaxCalls \in Nat /\ None \notin Nat

VARIABLES
  route,   \* which builder the program holds, or "none"
  calls,   \* the calls made on it so far
  conf     \* its fields

builderVars == <<route, calls, conf>>

\* ActorBuilder::new: EventLoopConfig::default(), no channel, RestartOnly.  A
\* channel of 0 stands for an unbounded one.
Fresh == [channel |-> None, timeout |-> FALSE, fail |-> FALSE,
          strategy |-> "RestartOnly", stream |-> FALSE]

BuilderInit == route = "none" /\ calls = <<>> /\ conf = Fresh

Configs == [channel: Nat, timeout: BOOLEAN, fail: BOOLEAN,
            strategy: {"RestartOnly", "RecreateFromDefault", "NonRestartable"}, stream: BOOLEAN]

\* resolve_channel: unbounded unless asked otherwise.
Resolved(c) == [c EXCEPT !.channel = IF @ = None THEN 0 ELSE @]

-----------------------------------------------------------------------------
(* Calls                                                                   *)

Call(what, arg) == [what |-> what, arg |-> arg]

\* The builder r takes a call and goes on with configuration c.
Takes(r, call, c) ==
  /\ Len(calls) < MaxCalls
  /\ calls' = Append(calls, call)
  /\ route' = r /\ conf' = c

\* setup_actor, and the Spawnable traits.
SetupActor ==
  /\ route = "none"
  /\ route' = "actor" /\ conf' = Fresh /\ calls' = <<>>

OnBuilder == route \in {"actor", "stream"}

Bounded(n) == OnBuilder /\ Takes(route, Call("channel", n), [conf EXCEPT !.channel = n])

Unbounded == OnBuilder /\ Takes(route, Call("channel", 0), [conf EXCEPT !.channel = 0])

Timeout == OnBuilder /\ Takes(route, Call("timeout", TRUE), [conf EXCEPT !.timeout = TRUE])

FailOnTimeout(b) == OnBuilder /\ Takes(route, Call("fail", b), [conf EXCEPT !.fail = b])

\* Mutant: what was configured before the stream was attached is forgotten.
Mut_OnStream ==
  /\ route = "actor" /\ conf.strategy = "RestartOnly"
  /\ Takes("stream", Call("stream", TRUE), [Fresh EXCEPT !.stream = TRUE, !.strategy = "NonRestartable"])

\* Only a builder whose strategy is RestartOnly has this method.  StreamSpawnable
\* leaves R at RestartOnly, but a loop on a stream never refreshes whatever its R.
OnStream ==
  /\ route = "actor" /\ conf.strategy = "RestartOnly"
  /\ Takes("stream", Call("stream", TRUE), [conf EXCEPT !.stream = TRUE, !.strategy = "NonRestartable"])

RecreateFromDefault ==
  /\ route = "actor"
  /\ Takes(route, Call("recreate", TRUE), [conf EXCEPT !.strategy = "RecreateFromDefault"])

\* EventLoop::bounded and EventLoop::unbounded.
NewLoop(n) ==
  /\ route = "none"
  /\ Takes("loop", Call("channel", n), [Fresh EXCEPT !.channel = n])

OnLoop == route = "loop" /\ conf.strategy = "RestartOnly"

AbortAfter ==
  /\ OnLoop
  /\ Takes(route, Call("abort_after", FALSE), [conf EXCEPT !.timeout = TRUE, !.fail = FALSE])

FailAfter ==
  /\ OnLoop
  /\ Takes(route, Call("fail_after", TRUE), [conf EXCEPT !.timeout = TRUE, !.fail = TRUE])

Recreating ==
  /\ OnLoop
  /\ Takes(route, Call("recreate", TRUE), [conf EXCEPT !.strategy = "RecreateFromDefault"])

BuilderStep ==
  \/ SetupActor
  \/ (\E n \in Capacities : Bounded(n)) \/ Unbounded
  \/ Timeout \/ (\E b \in BOOLEAN : FailOnTimeout(b))
  \/ OnStream \/ RecreateFromDefault
  \/ (\E n \in Capacities \cup {0} : NewLoop(n))
  \/ AbortAfter \/ FailAfter \/ Recreating

-----------------------------------------------------------------------------
(* What the program asked for, by its calls alone                          *)

Made(kinds) == \E i \in DOMAIN calls : calls[i].what \in kinds

\* v is the argument of the last call of one of these kinds, or the default.
Asks(kinds, default, v) ==
  /\ \A i \in DOMAIN calls :
       /\ calls[i].what \in kinds
       /\ \A j \in DOMAIN calls : j > i => calls[j].what \notin kinds
       => v = calls[i].arg
  /\ ~Made(kinds) => v = default

AsAsked(c) ==
  /\ Asks({"channel"}, 0, c.channel)
  /\ Asks({"fail", "abort_after", "fail_after"}, FALSE, c.fail)
  /\ c.timeout <=> Made({"timeout", "abort_after", "fail_after"})
  /\ c.stream <=> Made({"stream"})
  /\ c.strategy = CASE Made({"stream"})   -> "NonRestartable"
                    [] Made({"recreate"}) -> "RecreateFromDefault"
                    [] OTHER              -> "RestartOnly"
=============================================================================

---------------------------- MODULE OwningProofs ----------------------------
(***************************************************************************)
(* Theorems about Builder and Owning, for any capacities and any number of *)
(* calls and payloads.                                                     *)
(***************************************************************************)
EXTENDS Owning, TLAPS

-----------------------------------------------------------------------------
(* The builder                                                             *)

Kinds == {"channel", "timeout", "fail", "stream", "recreate", "abort_after", "fail_after"}
Calls == [what: Kinds, arg: Nat \cup BOOLEAN]

\* A call that was made last decides every kind it belongs to and leaves the
\* other kinds as they were.
LEMMA AfterCall ==
  ASSUME NEW kinds, NEW what \in Kinds, NEW arg \in Nat \cup BOOLEAN,
         calls \in Seq(Calls), calls' = Append(calls, Call(what, arg))
  PROVE  /\ calls' \in Seq(Calls)
         /\ Made(kinds)' <=> Made(kinds) \/ what \in kinds
         /\ \A default : what \in kinds => Asks(kinds, default, arg)'
         /\ \A default, v : what \notin kinds /\ Asks(kinds, default, v) => Asks(kinds, default, v)'
<1> DEFINE n == Len(calls) + 1
<1>1. Call(what, arg) \in Calls /\ Call(what, arg).what = what /\ Call(what, arg).arg = arg
  BY DEF Call, Calls
<1>2. /\ calls' \in Seq(Calls)
      /\ n \in Nat /\ DOMAIN calls' = 1 .. n /\ DOMAIN calls \subseteq 1 .. n
      /\ calls'[n].what = what /\ calls'[n].arg = arg /\ n \in DOMAIN calls'
      /\ \A i \in DOMAIN calls : i \in DOMAIN calls' /\ calls'[i] = calls[i] /\ i < n
      /\ \A i \in DOMAIN calls' : i \in DOMAIN calls \/ i = n
      /\ \A i \in DOMAIN calls' : i > n => FALSE
  BY <1>1
<1> HIDE DEF n
<1>3. Made(kinds)' <=> Made(kinds) \/ what \in kinds
  <2>1. Made(kinds)' <=> \E i \in DOMAIN calls' : calls'[i].what \in kinds
    BY DEF Made
  <2> QED BY <2>1, <1>2 DEF Made
<1>4. ASSUME NEW default, NEW v, v = arg \/ what \notin kinds, Asks(kinds, default, v) \/ what \in kinds
      PROVE  Asks(kinds, default, v)'
  <2>1. ASSUME NEW i \in DOMAIN calls', calls'[i].what \in kinds,
               \A j \in DOMAIN calls' : j > i => calls'[j].what \notin kinds
        PROVE  v = calls'[i].arg
    <3>1. CASE i = n
      BY <3>1, <2>1, <1>2, <1>4
    <3>2. CASE i # n
      <4>1. i \in DOMAIN calls /\ what \notin kinds /\ calls[i].what \in kinds
        BY <3>2, <2>1, <1>2
      <4>2. \A j \in DOMAIN calls : j > i => calls[j].what \notin kinds
        BY <2>1, <1>2
      <4> QED BY <4>1, <4>2, <1>2, <1>4 DEF Asks
    <3> QED BY <3>1, <3>2
  <2>2. ~Made(kinds)' => v = default
    BY <1>3, <1>4 DEF Asks
  <2>3. (~Made(kinds))' => v = default
    BY <2>2
  <2> QED BY <2>1, <2>3 DEF Asks
<1> QED BY <1>2, <1>3, <1>4

Channels == {"channel"}
Fails    == {"fail", "abort_after", "fail_after"}
Timeouts == {"timeout", "abort_after", "fail_after"}

\* What one call does to each part of AsAsked.
LEMMA CallEffects ==
  ASSUME NEW what \in Kinds, NEW arg \in Nat \cup BOOLEAN,
         calls \in Seq(Calls), calls' = Append(calls, Call(what, arg))
  PROVE  /\ calls' \in Seq(Calls)
         /\ what \in Channels => Asks(Channels, 0, arg)'
         /\ what \notin Channels => \A v : Asks(Channels, 0, v) => Asks(Channels, 0, v)'
         /\ what \in Fails => Asks(Fails, FALSE, arg)'
         /\ what \notin Fails => \A v : Asks(Fails, FALSE, v) => Asks(Fails, FALSE, v)'
         /\ Made(Timeouts)' <=> Made(Timeouts) \/ what \in Timeouts
         /\ Made({"stream"})' <=> Made({"stream"}) \/ what = "stream"
         /\ Made({"recreate"})' <=> Made({"recreate"}) \/ what = "recreate"
<1>1. calls' \in Seq(Calls)
  BY AfterCall
<1>2. what \in Channels => Asks(Channels, 0, arg)'
  BY AfterCall
<1>3. what \notin Channels => \A v : Asks(Channels, 0, v) => Asks(Channels, 0, v)'
  BY AfterCall
<1>4. what \in Fails => Asks(Fails, FALSE, arg)'
  BY AfterCall
<1>5. what \notin Fails => \A v : Asks(Fails, FALSE, v) => Asks(Fails, FALSE, v)'
  BY AfterCall
<1>6. Made(Timeouts)' <=> Made(Timeouts) \/ what \in Timeouts
  BY AfterCall
<1>7. Made({"stream"})' <=> Made({"stream"}) \/ what = "stream"
  BY AfterCall
<1>8. Made({"recreate"})' <=> Made({"recreate"}) \/ what = "recreate"
  BY AfterCall
<1> QED BY <1>1, <1>2, <1>3, <1>4, <1>5, <1>6, <1>7, <1>8

Strategies == {"RestartOnly", "RecreateFromDefault", "NonRestartable"}
Builders   == [channel: Nat \cup {None}, timeout: BOOLEAN, fail: BOOLEAN,
               strategy: Strategies, stream: BOOLEAN]

\* While a builder is being configured, its fields are what was asked of it.
BuilderInv ==
  /\ calls \in Seq(Calls) /\ conf \in Builders
  /\ route = "none" => conf = Fresh
  /\ Asks(Channels, 0, IF conf.channel = None THEN 0 ELSE conf.channel)
  /\ Asks(Fails, FALSE, conf.fail)
  /\ conf.timeout <=> Made(Timeouts)
  /\ conf.stream <=> Made({"stream"})
  /\ conf.stream <=> route = "stream"
  /\ conf.strategy = "NonRestartable" <=> Made({"stream"})
  /\ conf.strategy = "RecreateFromDefault" <=> Made({"recreate"})

LEMMA ResolvedAsAsked == BuilderInv => AsAsked(Resolved(conf))
<1> SUFFICES ASSUME BuilderInv PROVE AsAsked(Resolved(conf))
  OBVIOUS
<1> DEFINE r == Resolved(conf)
<1>1. /\ r.channel = IF conf.channel = None THEN 0 ELSE conf.channel
      /\ r.timeout = conf.timeout /\ r.fail = conf.fail
      /\ r.strategy = conf.strategy /\ r.stream = conf.stream
  BY DEF Resolved, BuilderInv, Builders
<1> HIDE DEF r
<1>2. /\ Asks(Channels, 0, r.channel) /\ Asks(Fails, FALSE, r.fail)
      /\ r.timeout <=> Made(Timeouts)
      /\ r.stream <=> Made({"stream"})
  BY <1>1 DEF BuilderInv
<1>3. r.strategy = CASE Made({"stream"})   -> "NonRestartable"
                     [] Made({"recreate"}) -> "RecreateFromDefault"
                     [] OTHER              -> "RestartOnly"
  BY <1>1 DEF BuilderInv, Builders, Strategies
<1>4. AsAsked(r)
  BY <1>2, <1>3 DEF AsAsked, Channels, Fails, Timeouts
<1> QED BY <1>4 DEF r

\* Nothing has been asked of a new builder.
LEMMA FreshInv ==
  ASSUME calls' = <<>>, conf' = Fresh, route' \in {"none", "actor"} PROVE BuilderInv'
<1>0. None \notin Nat
  BY BuilderAssumption
<1>1. DOMAIN calls' = {} /\ \A kinds : ~(Made(kinds)')
  BY DEF Made
<1>2. Asks(Channels, 0, 0)' /\ Asks(Fails, FALSE, FALSE)'
  BY <1>1 DEF Asks
<1>3. conf' \in Builders /\ conf'.channel = None /\ conf'.fail = FALSE /\ conf'.timeout = FALSE
      /\ conf'.stream = FALSE /\ conf'.strategy = "RestartOnly"
  BY DEF Fresh, Builders, Strategies
<1>4. (Asks(Channels, 0, IF conf.channel = None THEN 0 ELSE conf.channel))'
  <2> DEFINE ch == IF conf.channel = None THEN 0 ELSE conf.channel
  <2>1. \A v : v = ch' => Asks(Channels, 0, v)'
    BY <1>2, <1>3
  <2> QED BY <2>1 DEF Asks
<1>5. (Asks(Fails, FALSE, conf.fail))'
  <2>1. \A v : v = conf'.fail => Asks(Fails, FALSE, v)'
    BY <1>2, <1>3
  <2> QED BY <2>1 DEF Asks
<1>6. calls' \in Seq(Calls)
  OBVIOUS
<1> QED BY <1>1, <1>3, <1>4, <1>5, <1>6 DEF BuilderInv

\* A call that changes of the configuration what its kind stands for.
Effect(what, arg) ==
  /\ calls' = Append(calls, Call(what, arg)) /\ conf' \in Builders /\ route' # "none"
  /\ what \in Channels => conf'.channel = arg /\ arg # None
  /\ what \notin Channels => conf'.channel = conf.channel
  /\ what \in Fails => conf'.fail = arg
  /\ what \notin Fails => conf'.fail = conf.fail
  /\ conf'.timeout <=> conf.timeout \/ what \in Timeouts
  /\ conf'.stream <=> conf.stream \/ what = "stream"
  /\ conf'.stream <=> route' = "stream"
  /\ conf'.strategy = CASE what = "stream"   -> "NonRestartable"
                        [] what = "recreate" -> "RecreateFromDefault"
                        [] OTHER             -> conf.strategy
  /\ what = "stream" => conf.strategy = "RestartOnly"
  /\ what = "recreate" => conf.strategy # "NonRestartable"

LEMMA EffectInv ==
  ASSUME BuilderInv, NEW what \in Kinds, NEW arg \in Nat \cup BOOLEAN, Effect(what, arg)
  PROVE  BuilderInv'
<1>1. /\ calls' = Append(calls, Call(what, arg)) /\ conf' \in Builders /\ route' # "none"
  BY DEF Effect
<1>2. /\ calls' \in Seq(Calls)
      /\ Made(Timeouts)' <=> Made(Timeouts) \/ what \in Timeouts
      /\ Made({"stream"})' <=> Made({"stream"}) \/ what = "stream"
      /\ Made({"recreate"})' <=> Made({"recreate"}) \/ what = "recreate"
  BY <1>1, CallEffects DEF BuilderInv
<1>3. (Asks(Channels, 0, IF conf.channel = None THEN 0 ELSE conf.channel))'
  <2> DEFINE ch == IF conf.channel = None THEN 0 ELSE conf.channel
  <2>1. \A v : v = ch' => Asks(Channels, 0, v)'
    <3>1. CASE what \in Channels
      <4>1. Asks(Channels, 0, arg)' /\ ch' = arg
        BY <1>1, <3>1, CallEffects DEF BuilderInv, Effect
      <4> QED BY <4>1
    <3>2. CASE what \notin Channels
      <4>1. Asks(Channels, 0, ch) /\ ch' = ch
        BY <3>2 DEF BuilderInv, Effect
      <4>2. \A v : Asks(Channels, 0, v) => Asks(Channels, 0, v)'
        BY <1>1, <3>2, CallEffects DEF BuilderInv
      <4> QED BY <4>1, <4>2
    <3> QED BY <3>1, <3>2
  <2> QED BY <2>1 DEF Asks
<1>4. (Asks(Fails, FALSE, conf.fail))'
  <2>1. \A v : v = conf'.fail => Asks(Fails, FALSE, v)'
    <3>1. CASE what \in Fails
      BY <1>1, <3>1, CallEffects DEF BuilderInv, Effect
    <3>2. CASE what \notin Fails
      <4>1. Asks(Fails, FALSE, conf.fail) /\ conf'.fail = conf.fail
        BY <3>2 DEF BuilderInv, Effect
      <4>2. \A v : Asks(Fails, FALSE, v) => Asks(Fails, FALSE, v)'
        BY <1>1, <3>2, CallEffects DEF BuilderInv
      <4> QED BY <4>1, <4>2
    <3> QED BY <3>1, <3>2
  <2> QED BY <2>1 DEF Asks
<1>5. /\ (conf.timeout <=> Made(Timeouts))'
      /\ (conf.stream <=> Made({"stream"}))'
      /\ (conf.stream <=> route = "stream")'
  BY <1>2 DEF BuilderInv, Effect
<1>6. /\ (conf.strategy = "NonRestartable" <=> Made({"stream"}))'
      /\ (conf.strategy = "RecreateFromDefault" <=> Made({"recreate"}))'
  BY <1>2 DEF BuilderInv, Effect
<1> QED BY <1>1, <1>2, <1>3, <1>4, <1>5, <1>6 DEF BuilderInv

LEMMA BuilderStepInv == BuilderInv /\ BuilderStep => BuilderInv'
<1> SUFFICES ASSUME BuilderInv, BuilderStep PROVE BuilderInv'
  OBVIOUS
<1> USE DEF Builders, Strategies, Channels, Fails, Timeouts, Takes
<1>0. /\ None \notin Nat /\ Capacities \subseteq Nat \ {0} /\ 0 \in Nat
      /\ \A b \in BOOLEAN : b \in Nat \cup BOOLEAN
      /\ TRUE \in Nat \cup BOOLEAN /\ FALSE \in Nat \cup BOOLEAN
  <2>1. None \notin Nat /\ Capacities \subseteq Nat \ {0} /\ 0 \in Nat
    BY BuilderAssumption
  <2>2. /\ \A b \in BOOLEAN : b \in Nat \cup BOOLEAN
        /\ TRUE \in Nat \cup BOOLEAN /\ FALSE \in Nat \cup BOOLEAN
    BY Zenon
  <2> QED BY <2>1, <2>2
<1>1. CASE SetupActor
  BY <1>1, FreshInv DEF SetupActor
<1>2. ASSUME NEW n \in Nat, OnBuilder,
             Takes(route, Call("channel", n), [conf EXCEPT !.channel = n])
      PROVE  BuilderInv'
  <2>1. Effect("channel", n)
    BY <1>0, <1>2 DEF BuilderInv, OnBuilder, Effect
  <2> QED BY <1>0, <2>1, EffectInv DEF Kinds
<1>3. CASE Timeout
  <2>1. Effect("timeout", TRUE)
    BY <1>3 DEF BuilderInv, Timeout, OnBuilder, Effect
  <2> QED BY <1>0, <2>1, EffectInv DEF Kinds
<1>4. ASSUME NEW b \in BOOLEAN, FailOnTimeout(b) PROVE BuilderInv'
  <2>1. Effect("fail", b)
    BY <1>4 DEF BuilderInv, FailOnTimeout, OnBuilder, Effect
  <2> QED BY <1>0, <2>1, EffectInv DEF Kinds
<1>5. CASE OnStream
  <2>1. Effect("stream", TRUE)
    BY <1>5 DEF BuilderInv, OnStream, Effect
  <2> QED BY <1>0, <2>1, EffectInv DEF Kinds
<1>6. CASE RecreateFromDefault
  <2>1. Effect("recreate", TRUE)
    BY <1>6 DEF BuilderInv, RecreateFromDefault, Effect
  <2> QED BY <1>0, <2>1, EffectInv DEF Kinds
<1>7. ASSUME NEW n \in Nat, NewLoop(n) PROVE BuilderInv'
  <2>1. Effect("channel", n)
    BY <1>0, <1>7 DEF BuilderInv, NewLoop, Effect
  <2> QED BY <1>0, <2>1, EffectInv DEF Kinds
<1>8. CASE AbortAfter
  <2>1. Effect("abort_after", FALSE)
    BY <1>8 DEF BuilderInv, AbortAfter, OnLoop, Effect
  <2> QED BY <1>0, <2>1, EffectInv DEF Kinds
<1>9. CASE FailAfter
  <2>1. Effect("fail_after", TRUE)
    BY <1>9 DEF BuilderInv, FailAfter, OnLoop, Effect
  <2> QED BY <1>0, <2>1, EffectInv DEF Kinds
<1>10. CASE Recreating
  <2>1. Effect("recreate", TRUE)
    BY <1>10 DEF BuilderInv, Recreating, OnLoop, Effect
  <2> QED BY <1>0, <2>1, EffectInv DEF Kinds
<1> QED
  BY <1>0, <1>1, <1>2, <1>3, <1>4, <1>5, <1>6, <1>7, <1>8, <1>9, <1>10
     DEF BuilderStep, Bounded, Unbounded

-----------------------------------------------------------------------------
(* The owner                                                               *)

\* Where the loop, its join handle and its owner stand towards each other.
OwnerShape ==
  /\ task \in {"none", "waiting"} \cup User \cup Over
  /\ dropped \in BOOLEAN /\ doomed \in BOOLEAN /\ cell \in {"handle", "taken", "empty"}
  /\ task = "none" => loop = None /\ inst = "given" /\ owner = "none" /\ cell = "handle" /\ ~doomed /\ ~clones
  /\ task # "none" => loop # None /\ owner # "none"
  /\ task = "ok" => hooks = "down"
  /\ task = "cancelled" => doomed
  /\ inst = "given" \/ (inst = "default" /\ loop.strategy = "RecreateFromDefault")
  /\ cell = "empty" /\ owner \in {"owner", "joining", "consuming", "future"} => task \in Over \/ dropped
  /\ doomed => runtime = "async" /\ (owner # "gone" => dropped)

OwningInv == BuilderInv /\ OwnerShape /\ JoinTells /\ DetachedLives

\* What the steps of the loop's future leave alone.
LEMMA TaskSteps ==
  ASSUME TaskStep, OwningInv
  PROVE  /\ UNCHANGED <<builderVars, runtime, loop, clones, owner, cell, doomed, dropped, got>>
         /\ task \notin Over /\ task # "none"
         /\ task' \in {"waiting"} \cup User \cup Over
         /\ task' = "ok" => hooks' = "down"
         /\ task' = "cancelled" => doomed
         /\ inst' = inst \/ (inst' = "default" /\ loop.strategy = "RecreateFromDefault")
<1> USE DEF Goes, User, Over, Pops
<1>1. CASE StartedOk \/ StartedFails \/ TaskPanics
  BY <1>1 DEF StartedOk, StartedFails, TaskPanics
<1>2. CASE TakeTask \/ TakeStop \/ TakeRestart \/ MailboxCloses
  BY <1>2 DEF TakeTask, TakeStop, TakeRestart, MailboxCloses
<1>3. CASE HandlerDone \/ HandlerTimesOut \/ CancelledReturns
  BY <1>3 DEF HandlerDone, HandlerTimesOut, CancelledReturns
<1>4. CASE RefreshStopped \/ StoppedReturns \/ Cancelled
  BY <1>4 DEF RefreshStopped, StoppedReturns, Cancelled
<1> QED BY <1>1, <1>2, <1>3, <1>4 DEF TaskStep

LEMMA SameBuilder == BuilderInv /\ UNCHANGED builderVars => BuilderInv'
  BY DEF BuilderInv, builderVars, Asks, Made

\* What the builder resolves is a configuration of EventLoop.
LEMMA ResolvedConfig == BuilderInv => Resolved(conf) \in Configs
  BY BuilderAssumption DEF BuilderInv, Builders, Strategies, Resolved, Configs

LEMMA OwningStepInv == OwningInv /\ [Next]_vars => OwningInv'
<1> SUFFICES ASSUME OwningInv, [Next]_vars PROVE OwningInv'
  OBVIOUS
<1> USE DEF OwningInv, OwnerShape, JoinTells, DetachedLives
<1>1. CASE Configure
  <2>1. BuilderInv'
    BY <1>1, BuilderStepInv DEF Configure
  <2> QED BY <1>1, <2>1 DEF Configure, taskVars, boxVars
<1>2. CASE SpawnOwning
  <2>1. BuilderInv'
    BY <1>2, FreshInv DEF SpawnOwning
  <2>2. loop' # None
    <3>1. Resolved(conf) \in Configs
      BY ResolvedConfig
    <3> QED BY <1>2, <3>1, OwningAssumption DEF SpawnOwning
  <2>3. OwnerShape'
    BY <1>2, <2>2 DEF SpawnOwning, User
  <2>4. JoinTells'
    BY <1>2 DEF SpawnOwning, Over
  <2>5. DetachedLives'
    BY <1>2, <2>3 DEF SpawnOwning
  <2> QED BY <2>1, <2>3, <2>4, <2>5
<1>3. CASE TaskStep
  <2>1. BuilderInv'
    BY <1>3, TaskSteps, SameBuilder
  <2>2. /\ UNCHANGED <<runtime, loop, clones, owner, cell, doomed, dropped, got>>
        /\ task \notin Over /\ task # "none" /\ task' # "none"
        /\ task' \in {"waiting"} \cup User \cup Over
        /\ task' = "ok" => hooks' = "down"
        /\ task' = "cancelled" => doomed
        /\ inst' = inst \/ (inst' = "default" /\ loop.strategy = "RecreateFromDefault")
    BY <1>3, TaskSteps DEF User, Over
  <2>3. got \notin {"given", "default"}
    BY <2>2 DEF Over
  <2> HIDE DEF Over, User
  <2>4. OwnerShape'
    BY <2>2
  <2>5. JoinTells'
    BY <2>2, <2>3
  <2>6. DetachedLives'
    BY <2>2
  <2> QED BY <2>1, <2>4, <2>5, <2>6
<1>4. CASE UNCHANGED vars
  <2>1. BuilderInv'
    BY <1>4, SameBuilder DEF vars
  <2> QED BY <1>4, <2>1 DEF vars, taskVars
<1>5. CASE Clone \/ DropClones \/ \E l \in {"task", "stop", "restart"} : ClonePushes(l)
  <2>1. BuilderInv'
    BY <1>5, SameBuilder DEF Clone, DropClones, ClonePushes
  <2> QED BY <1>5, <2>1 DEF Clone, DropClones, ClonePushes, taskVars
<1>6. ASSUME OwnerKeeps,
             Join \/ Consume \/ ConsumeSync \/ ConsumeRefused \/ JoinDropped \/ TakeHandle
               \/ NoHandle \/ JoinReturns \/ Detach \/ DropOwner \/ DropAddr
      PROVE  OwningInv'
  <2>1. BuilderInv'
    BY <1>6, SameBuilder DEF OwnerKeeps
  <2> USE <2>1 DEF OwnerKeeps, taskVars
  <2>2. CASE Join \/ Consume \/ ConsumeSync
    <3>1. /\ owner = "owner" /\ owner' \in {"joining", "consuming", "future"}
          /\ UNCHANGED <<cell, doomed, dropped, got>>
      BY <2>2 DEF Join, Consume, ConsumeSync
    <3> QED BY <1>6, <3>1
  <2>3. CASE ConsumeRefused
    BY <1>6, <2>3 DEF ConsumeRefused, LetGo, Dooms, Running
  <2>4. CASE TakeHandle
    BY <1>6, <2>4 DEF TakeHandle, Waits
  <2>5. CASE NoHandle
    BY <1>6, <2>5 DEF NoHandle, Returns, Waits
  <2>6. CASE JoinReturns
    BY <1>6, <2>6 DEF JoinReturns, Returns, Waits
  <2>7. CASE JoinDropped
    <3>1. /\ Waits /\ task # "none" /\ UNCHANGED <<runtime, loop, task, inst, hooks, got>>
          /\ dropped' \in BOOLEAN /\ doomed' \in BOOLEAN
          /\ doomed => doomed'
          /\ doomed' => runtime = "async"
          /\ dropped => dropped'
          /\ owner' \in {"owner", "gone"} /\ cell' \in {"handle", "taken", "empty"}
      BY <1>6, <2>7 DEF JoinDropped, LetGo, Dooms, Waits
    <3>2. cell' = "empty" /\ owner' = "owner" => task \in Over \/ dropped'
      BY <1>6, <2>7 DEF JoinDropped, LetGo, Waits
    <3>3. doomed' /\ owner' # "gone" => dropped'
      BY <1>6, <2>7 DEF JoinDropped, LetGo, Dooms, Waits
    <3> HIDE DEF Over, User
    <3> QED BY <3>1, <3>2, <3>3
  <2>8. CASE Detach \/ DropAddr
    BY <1>6, <2>8 DEF Detach, DropAddr
  <2>9. CASE DropOwner
    BY <1>6, <2>9 DEF DropOwner, LetGo, Dooms
  <2> QED BY <1>6, <2>2, <2>3, <2>4, <2>5, <2>6, <2>7, <2>8, <2>9
<1>7. Join \/ Consume \/ ConsumeSync \/ ConsumeRefused \/ JoinDropped \/ TakeHandle
        \/ NoHandle \/ JoinReturns \/ Detach \/ DropOwner \/ DropAddr => OwnerKeeps
  BY DEF TakeHandle, NoHandle, JoinReturns, Returns, Join, Consume, ConsumeSync,
         ConsumeRefused, JoinDropped, Detach, DropOwner, DropAddr
<1> QED
  BY <1>1, <1>2, <1>3, <1>4, <1>5, <1>6, <1>7 DEF Next, OwnerStep

THEOREM OwningInvariance == Spec => []OwningInv
<1>1. Init => OwningInv
  <2> SUFFICES ASSUME Init PROVE OwningInv
    OBVIOUS
  <2>1. BuilderInv
    <3>1. None \notin Nat /\ DOMAIN calls = {} /\ \A kinds : ~Made(kinds)
      BY BuilderAssumption DEF Init, BuilderInit, Made
    <3>2. \A kinds, v : Asks(kinds, v, v)
      BY <3>1 DEF Asks
    <3>3. /\ conf \in Builders /\ conf.channel = None /\ ~conf.fail /\ ~conf.timeout /\ ~conf.stream
          /\ conf.strategy = "RestartOnly" /\ route = "none" /\ conf = Fresh /\ calls \in Seq(Calls)
          /\ conf.fail = FALSE
      BY DEF Init, BuilderInit, Fresh, Builders, Strategies
    <3> QED BY <3>1, <3>2, <3>3 DEF BuilderInv
  <2> QED BY <2>1 DEF Init, OwningInv, OwnerShape, JoinTells, DetachedLives, Over
<1> QED BY <1>1, OwningStepInv, PTL DEF Spec

Ls == {"task", "stop", "restart"}

\* A payload that is accepted keeps the mailbox well typed.
LEMMA AcceptType ==
  ASSUME OwningTypeOK, loop # None, NEW l \in Ls, Accept(l)
  PROVE  box' \in Seq(Ls) /\ pushes' \in 0 .. MaxLoads /\ lostStop' \in BOOLEAN
<1>1. /\ box \in Seq(Ls) /\ pushes \in 0 .. MaxLoads /\ lostStop \in BOOLEAN
      /\ MaxLoads \in Nat /\ loop.channel \in Nat
  BY OwningAssumption DEF OwningTypeOK, Ls, Configs
<1>2. pushes' \in 0 .. MaxLoads /\ lostStop' \in BOOLEAN
  <2>1. pushes' \in 0 .. MaxLoads
    BY <1>1 DEF Accept
  <2>2. lostStop' = lostStop \/ lostStop' = (lostStop \/ Head(box) = "stop")
    BY DEF Accept
  <2>3. lostStop' \in BOOLEAN
    BY <1>1, <2>2, Zenon
  <2> QED BY <2>1, <2>3
<1>3. CASE Fits
  BY <1>1, <1>2, <1>3 DEF Accept
<1>4. CASE ~Fits
  <2>1. box # <<>>
    BY <1>1, <1>4 DEF Fits
  <2>2. Tail(box) \in Seq(Ls) /\ box' = Append(Tail(box), l)
    BY <1>1, <1>4, <2>1 DEF Accept
  <2> QED BY <1>2, <2>2
<1> QED BY <1>3, <1>4

LEMMA OwningTypeStep == OwningInv /\ OwningTypeOK /\ [Next]_vars => OwningTypeOK'
<1> SUFFICES ASSUME OwningInv, OwningTypeOK, [Next]_vars PROVE OwningTypeOK'
  OBVIOUS
<1> USE DEF OwningTypeOK
<1>1. CASE Configure
  BY <1>1 DEF Configure, taskVars, boxVars
<1>2. CASE SpawnOwning
  BY <1>2, ResolvedConfig DEF SpawnOwning, OwningInv, User, boxVars
<1>3. CASE TaskStep
  <2>1. box' \in Seq(Ls) /\ inst' \in {"given", "default"} /\ hooks' \in {"new", "up", "down"}
        /\ UNCHANGED <<pushes, lostStop>>
    <3>1. box \in Seq(Ls)
      BY DEF Ls
    <3>2. box # <<>> => Tail(box) \in Seq(Ls)
      BY <3>1
    <3>3. CASE TakeTask \/ TakeStop \/ TakeRestart
      BY <3>2, <3>3 DEF TakeTask, TakeStop, TakeRestart, Goes, Pops
    <3>4. CASE StartedOk \/ StartedFails \/ TaskPanics \/ MailboxCloses \/ HandlerDone \/ HandlerTimesOut
      BY <3>1, <3>4 DEF StartedOk, StartedFails, TaskPanics, MailboxCloses, HandlerDone, HandlerTimesOut, Goes
    <3>5. CASE CancelledReturns \/ RefreshStopped \/ StoppedReturns \/ Cancelled
      BY <3>1, <3>5 DEF CancelledReturns, RefreshStopped, StoppedReturns, Cancelled, Goes
    <3> QED BY <1>3, <3>3, <3>4, <3>5 DEF TaskStep
  <2> QED BY <1>3, <2>1, TaskSteps DEF Ls
<1>4. CASE UNCHANGED vars
  BY <1>4 DEF vars, taskVars, boxVars
<1>5. CASE Clone \/ DropClones
  <2>1. clones' \in BOOLEAN
    BY <1>5, Zenon DEF Clone, DropClones
  <2> QED BY <1>5, <2>1 DEF Clone, DropClones, taskVars, boxVars
<1>6. ASSUME NEW l \in Ls, ClonePushes(l) PROVE OwningTypeOK'
  <2>1. loop # None
    BY <1>6 DEF ClonePushes, OwningInv, OwnerShape
  <2> QED BY <1>6, <2>1, AcceptType DEF ClonePushes, taskVars, Ls
<1>7. CASE Consume \/ ConsumeSync
  <2>1. loop # None /\ Accept("stop") /\ "stop" \in Ls
    BY <1>7 DEF Consume, ConsumeSync, OwningInv, OwnerShape, Ls
  <2>2. box' \in Seq(Ls) /\ pushes' \in 0 .. MaxLoads /\ lostStop' \in BOOLEAN
    BY <2>1, AcceptType
  <2> QED BY <1>7, <2>2 DEF Consume, ConsumeSync, OwnerKeeps, taskVars, Ls
<1>8. CASE Join \/ TakeHandle
  BY <1>8 DEF Join, TakeHandle, OwnerKeeps, taskVars, boxVars
<1>9. CASE NoHandle \/ JoinReturns
  BY <1>9 DEF NoHandle, JoinReturns, Returns, OwnerKeeps, taskVars, boxVars
<1>10. CASE JoinDropped
  <2>1. dropped' \in BOOLEAN
    BY <1>10, Zenon DEF JoinDropped
  <2>2. doomed' = doomed \/ doomed' = (doomed \/ runtime = "async")
    BY <1>10 DEF JoinDropped, LetGo, Dooms
  <2>3. doomed' \in BOOLEAN
    BY <2>2, Zenon
  <2> QED BY <1>10, <2>1, <2>3 DEF JoinDropped, LetGo, OwnerKeeps, taskVars, boxVars
<1>11. CASE ConsumeRefused \/ Detach \/ DropOwner \/ DropAddr
  BY <1>11 DEF ConsumeRefused, Detach, DropOwner, DropAddr, LetGo, Dooms, OwnerKeeps, taskVars, boxVars
<1> QED
  BY <1>1, <1>2, <1>3, <1>4, <1>5, <1>6, <1>7, <1>8, <1>9, <1>10, <1>11 DEF Next, OwnerStep, Ls

\* Types of the owner's module, for any number of payloads.
THEOREM OwningTypeCorrect == Spec => []OwningTypeOK
<1>1. Init => OwningTypeOK
  <2> SUFFICES ASSUME Init PROVE OwningTypeOK
    OBVIOUS
  <2>1. lostStop \in BOOLEAN /\ clones \in BOOLEAN /\ doomed \in BOOLEAN /\ dropped \in BOOLEAN
    BY Zenon DEF Init
  <2>2. box \in Seq(Ls) /\ pushes \in 0 .. MaxLoads
    BY OwningAssumption DEF Init
  <2> QED BY <2>1, <2>2 DEF Init, OwningTypeOK, Ls
<1> QED BY <1>1, OwningTypeStep, OwningInvariance, PTL DEF Spec

\* The loop that is spawned is configured as asked (ActorBuilder::spawn_owning and
\* StreamActorBuilder::spawn_owning), for any capacities and any number of calls.
THEOREM BuiltAsAskedCorrect == Spec => BuiltAsAsked
<1>1. OwningInv /\ [Next]_vars => [loop' # loop => AsAsked(loop')]_vars
  <2> SUFFICES ASSUME OwningInv, Next, loop' # loop PROVE AsAsked(loop')
    OBVIOUS
  <2>1. SpawnOwning
    BY TaskSteps
    DEF Next, Configure, OwnerStep, TakeHandle, NoHandle, JoinReturns, Returns, Join,
        Consume, ConsumeSync, ConsumeRefused, JoinDropped, Detach, DropOwner, DropAddr,
        OwnerKeeps, Clone, DropClones, ClonePushes
  <2>2. AsAsked(Resolved(conf))
    BY ResolvedAsAsked DEF OwningInv
  <2> QED BY <2>1, <2>2 DEF SpawnOwning
<1> QED BY <1>1, OwningInvariance, PTL DEF Spec, BuiltAsAsked

\* What join and consume return (ActorHandle::join, OwningAddr::consume) is true of
\* the loop, for any number of payloads and any interleaving with the task.
THEOREM JoinTellsCorrect == Spec => []JoinTells
<1>1. OwningInv => JoinTells
  BY DEF OwningInv
<1> QED BY <1>1, OwningInvariance, PTL

\* A detached actor is not cancelled (ActorHandle::detach), unless a join that had
\* taken the handle was dropped before.
THEOREM DetachedLivesCorrect == Spec => []DetachedLives
<1>1. OwningInv => DetachedLives
  BY DEF OwningInv
<1> QED BY <1>1, OwningInvariance, PTL
=============================================================================

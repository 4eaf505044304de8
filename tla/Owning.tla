------------------------------- MODULE Owning -------------------------------
(***************************************************************************)
(* The owner of an actor: a builder spawns the loop as a task and hands    *)
(* out an OwningAddr (src/addr.rs) whose ActorHandle                       *)
(* (src/actor/handle.rs) can be joined, detached or dropped.  What happens *)
(* to the task then is up to the runtime hannibal was built for: tokio     *)
(* lets it go on, async-global-executor cancels it.                        *)
(*                                                                         *)
(* The loop is that of Actor without its clients: `task` says where it is, *)
(* including how its future ended.                                         *)
(***************************************************************************)
EXTENDS Builder

CONSTANT MaxLoads   \* BOUND: payloads accepted in a behaviour

ASSUME OwningAssumption == MaxLoads \in Nat /\ None \notin Configs

VARIABLES
  runtime,    \* the feature the crate was built with
  loop,       \* the configuration of the spawned loop, None before
  task,       \* where the loop's future is
  inst,       \* the instance it holds: the one it was given or a default one
  hooks,      \* "new", "up" after started(), "down" after stopped()
  box,        \* the mailbox
  pushes,     \* number of payloads accepted
  lostStop,   \* a stop was pushed out of a full mailbox
  clones,     \* an Addr exists besides the owner's
  owner,      \* what the owner holds and waits for
  cell,       \* the mutex with the runtime's join handle
  doomed,     \* the runtime was told to cancel the task
  dropped,    \* a join that had taken the handle was dropped
  got         \* what the last join or consume returned

taskVars == <<task, inst, hooks>>
boxVars  == <<box, pushes, lostStop>>
vars     == <<builderVars, runtime, loop, taskVars, boxVars, clones, owner, cell, doomed, dropped, got>>

Over == {"ok", "failed", "panicked", "cancelled"}
User == {"starting", "handling", "cancelling", "resetting", "restarting", "stopping"}

OwningTypeOK ==
  /\ runtime \in {"tokio", "async"}
  /\ loop \in Configs \cup {None}
  /\ task \in {"none", "waiting"} \cup User \cup Over
  /\ inst \in {"given", "default"} /\ hooks \in {"new", "up", "down"}
  /\ box \in Seq({"task", "stop", "restart"}) /\ pushes \in 0 .. MaxLoads
  /\ lostStop \in BOOLEAN /\ clones \in BOOLEAN
  /\ owner \in {"none", "owner", "joining", "consuming", "future", "addr", "freed", "gone"}
  /\ cell \in {"handle", "taken", "empty"}
  /\ doomed \in BOOLEAN /\ dropped \in BOOLEAN
  /\ got \in {"nothing", "given", "default", "None", "AlreadyStopped", "panic"}

Init ==
  /\ BuilderInit
  /\ runtime \in {"tokio", "async"}
  /\ loop = None /\ task = "none" /\ inst = "given" /\ hooks = "new"
  /\ box = <<>> /\ pushes = 0 /\ lostStop = FALSE
  /\ clones = FALSE /\ owner = "none"
  /\ cell = "handle" /\ doomed = FALSE /\ dropped = FALSE
  /\ got = "nothing"

Configure ==
  /\ loop = None /\ BuilderStep
  /\ UNCHANGED <<runtime, loop, taskVars, boxVars, clones, owner, cell, doomed, dropped, got>>

\* spawn_owning: the loop is created from the channel, configured and spawned.
SpawnOwning ==
  /\ loop = None /\ route # "none"
  /\ loop' = Resolved(conf)
  /\ route' = "none" /\ calls' = <<>> /\ conf' = Fresh
  /\ task' = "starting" /\ owner' = "owner"
  /\ UNCHANGED <<runtime, inst, hooks, boxVars, clones, cell, doomed, dropped, got>>

-----------------------------------------------------------------------------
(* The mailbox                                                             *)

\* Handles that keep the channel open.
OwnerHolds == owner \in {"owner", "joining", "consuming", "addr"}
Running    == task \notin Over

Fits == loop.channel = 0 \/ Len(box) < loop.channel

\* A payload is accepted; a forced one pushes the oldest out of a full mailbox.
Accept(l) ==
  /\ pushes < MaxLoads /\ pushes' = pushes + 1
  /\ IF Fits THEN box' = Append(box, l) /\ UNCHANGED lostStop
     ELSE box' = Append(Tail(box), l) /\ lostStop' = (lostStop \/ Head(box) = "stop")

\* try_send of a message, Addr::stop and Addr::restart, by a holder of a clone.
ClonePushes(l) ==
  /\ clones /\ Running /\ (l = "task" => Fits)
  /\ Accept(l)
  /\ UNCHANGED <<builderVars, runtime, loop, taskVars, clones, owner, cell, doomed, dropped, got>>

Clone ==
  /\ owner \in {"owner", "addr"} /\ ~clones
  /\ clones' = TRUE
  /\ UNCHANGED <<builderVars, runtime, loop, taskVars, boxVars, owner, cell, doomed, dropped, got>>

DropClones ==
  /\ clones
  /\ clones' = FALSE
  /\ UNCHANGED <<builderVars, runtime, loop, taskVars, boxVars, owner, cell, doomed, dropped, got>>

-----------------------------------------------------------------------------
(* The task                                                                *)

\* The loop's future goes from one state to another.
Goes(from, to) ==
  /\ task \in from /\ task' = to
  /\ UNCHANGED <<builderVars, runtime, loop, lostStop, pushes, clones, owner, cell, doomed, dropped, got>>

StartedOk == Goes({"starting", "restarting"}, "waiting") /\ hooks' = "up" /\ UNCHANGED <<inst, box>>

\* started() returned Err.
StartedFails == Goes({"starting", "restarting"}, "failed") /\ UNCHANGED <<inst, hooks, box>>

TaskPanics == Goes(User, "panicked") /\ UNCHANGED <<inst, hooks, box>>

Pops(l) == box # <<>> /\ Head(box) = l /\ box' = Tail(box) /\ UNCHANGED <<inst, hooks>>

TakeTask    == Goes({"waiting"}, "handling") /\ Pops("task")
TakeStop    == Goes({"waiting"}, "stopping") /\ Pops("stop")
TakeRestart ==
  /\ task = "waiting"
  /\ Goes({"waiting"}, IF loop.strategy = "NonRestartable" THEN "panicked" ELSE "resetting")
  /\ Pops("restart")

MailboxCloses ==
  /\ Goes({"waiting"}, "stopping") /\ box = <<>> /\ ~OwnerHolds /\ ~clones
  /\ UNCHANGED <<inst, hooks, box>>

HandlerDone == Goes({"handling"}, "waiting") /\ UNCHANGED <<inst, hooks, box>>

HandlerTimesOut ==
  /\ task = "handling" /\ loop.timeout
  /\ Goes({"handling"}, IF loop.fail THEN "cancelling" ELSE "waiting")
  /\ UNCHANGED <<inst, hooks, box>>

CancelledReturns == Goes({"cancelling"}, "failed") /\ UNCHANGED <<inst, hooks, box>>

\* RestartStrategy::refresh: stopped(), then perhaps a new instance, then started().
RefreshStopped ==
  /\ Goes({"resetting"}, "restarting") /\ hooks' = "down"
  /\ inst' = IF loop.strategy = "RecreateFromDefault" THEN "default" ELSE inst
  /\ UNCHANGED box

StoppedReturns == Goes({"stopping"}, "ok") /\ hooks' = "down" /\ UNCHANGED <<inst, box>>

\* The runtime drops a cancelled future where it is suspended.
Cancelled ==
  /\ doomed
  /\ Goes({"waiting"} \cup User, "cancelled")
  /\ UNCHANGED <<inst, hooks, box>>

TaskStep ==
  \/ StartedOk \/ StartedFails \/ TaskPanics
  \/ TakeTask \/ TakeStop \/ TakeRestart \/ MailboxCloses
  \/ HandlerDone \/ HandlerTimesOut \/ CancelledReturns
  \/ RefreshStopped \/ StoppedReturns \/ Cancelled

-----------------------------------------------------------------------------
(* The owner                                                               *)

\* What dropping the runtime's join handle does to the task.
Dooms == doomed' = (doomed \/ runtime = "async")

\* The join handle is dropped with the last thing that refers to its cell.
LetGo ==
  /\ IF cell = "empty" THEN UNCHANGED doomed ELSE Dooms
  /\ cell' = "empty"

OwnerKeeps == UNCHANGED <<builderVars, runtime, loop, taskVars, clones>>

\* OwningAddr::join: the future is made, nothing has been polled yet.
Join ==
  /\ owner = "owner" /\ owner' = "joining"
  /\ OwnerKeeps /\ UNCHANGED <<boxVars, cell, doomed, dropped, got>>

\* Mutant: the stop is not sent when there is no handle left to join.
Mut_Consume ==
  /\ owner = "owner" /\ Running
  /\ IF cell = "handle" THEN Accept("stop") ELSE UNCHANGED boxVars
  /\ owner' = "consuming"
  /\ OwnerKeeps /\ UNCHANGED <<cell, doomed, dropped, got>>

\* OwningAddr::consume: the stop is pushed first, then the loop is joined.
Consume ==
  /\ owner = "owner" /\ Running
  /\ Accept("stop") /\ owner' = "consuming"
  /\ OwnerKeeps /\ UNCHANGED <<cell, doomed, dropped, got>>

\* OwningAddr::consume_sync: the address is dropped, a future comes back.
ConsumeSync ==
  /\ owner = "owner" /\ Running
  /\ Accept("stop") /\ owner' = "future"
  /\ OwnerKeeps /\ UNCHANGED <<cell, doomed, dropped, got>>

\* Either of them on an actor that has stopped: stop() fails and all is dropped.
ConsumeRefused ==
  /\ owner = "owner" /\ ~Running
  /\ owner' = "gone" /\ got' = "AlreadyStopped" /\ LetGo
  /\ OwnerKeeps /\ UNCHANGED <<boxVars, dropped>>

Waits == owner \in {"joining", "consuming", "future"}

\* A join that is over: back to the owner, or the owner is used up.
Returns(what) ==
  /\ got' = IF what = "None" /\ owner = "consuming" THEN "AlreadyStopped" ELSE what
  /\ owner' = IF owner = "joining" /\ what # "panic" THEN "owner" ELSE "gone"
  /\ cell' = "empty"
  /\ OwnerKeeps /\ UNCHANGED <<boxVars, doomed, dropped>>

\* The first poll of the join: the handle is taken out of its cell, or it is gone.
TakeHandle ==
  /\ Waits /\ cell = "handle" /\ cell' = "taken"
  /\ OwnerKeeps /\ UNCHANGED <<boxVars, owner, doomed, dropped, got>>

NoHandle == Waits /\ cell = "empty" /\ Returns("None")

\* Mutant: the handle is polled once instead of awaited.
Mut_JoinReturns ==
  /\ Waits /\ cell = "taken"
  /\ Returns(IF task = "ok" THEN inst ELSE "None")

\* The task is over.  tokio reports a panic as an error, async-task passes it on.
JoinReturns ==
  /\ Waits /\ cell = "taken" /\ task \in Over
  /\ Returns(CASE task = "ok" -> inst
               [] task = "panicked" /\ runtime = "async" -> "panic"
               [] OTHER -> "None")

\* A join in progress is dropped, by a timeout around it or a select!, and with it
\* the handle it has taken.  consume and consume_sync take the owner along.
JoinDropped ==
  /\ Waits
  /\ IF owner = "joining" /\ cell = "handle" THEN UNCHANGED <<cell, doomed>> ELSE LetGo
  /\ dropped' = (dropped \/ cell = "taken")
  /\ owner' = IF owner = "joining" THEN "owner" ELSE "gone"
  /\ OwnerKeeps /\ UNCHANGED <<boxVars, got>>

\* Mutant: detaching drops the handle.
Mut_Detach ==
  /\ owner = "owner" /\ owner' = "addr" /\ LetGo
  /\ OwnerKeeps /\ UNCHANGED <<boxVars, dropped, got>>

\* OwningAddr::detach, and spawn() of every builder and trait.  Both runtimes let
\* the task go on.
Detach ==
  /\ owner = "owner" /\ owner' = "addr" /\ cell' = "empty"
  /\ OwnerKeeps /\ UNCHANGED <<boxVars, doomed, dropped, got>>

DropOwner ==
  /\ owner = "owner" /\ owner' = "gone" /\ LetGo
  /\ OwnerKeeps /\ UNCHANGED <<boxVars, dropped, got>>

DropAddr ==
  /\ owner = "addr" /\ owner' = "freed"
  /\ OwnerKeeps /\ UNCHANGED <<boxVars, cell, doomed, dropped, got>>

OwnerStep == TakeHandle \/ NoHandle \/ JoinReturns

Next ==
  \/ Configure \/ SpawnOwning
  \/ TaskStep \/ OwnerStep
  \/ Join \/ Consume \/ ConsumeSync \/ ConsumeRefused \/ JoinDropped
  \/ Detach \/ DropOwner \/ DropAddr
  \/ Clone \/ DropClones
  \/ \E l \in {"task", "stop", "restart"} : ClonePushes(l)

\* The runtime polls the task and whoever waits for it; hooks and handlers end.
Fairness == WF_vars(TaskStep) /\ WF_vars(OwnerStep)

Spec == Init /\ [][Next]_vars /\ Fairness

-----------------------------------------------------------------------------
(* What the builder and the owner are promised                             *)

\* The spawned loop is configured as the program asked, by whichever route and in
\* whatever order it made its calls: of calls of one kind the last one counts,
\* attaching a stream or choosing a restart strategy forgets nothing.
BuiltAsAsked == [][loop' # loop => AsAsked(loop')]_vars

\* A join or consume that returns an actor returns the instance that was running
\* last, after its stopped(); one that returns none, or an error, does so when the
\* loop is over, or after an earlier join took the handle and was dropped.
JoinTells ==
  /\ got \in {"given", "default"} =>
       task = "ok" /\ hooks = "down" /\ inst = got
  /\ got = "default" => loop.strategy = "RecreateFromDefault"
  /\ got \in {"None", "AlreadyStopped", "panic"} => task \in Over \/ dropped

\* Only the async runtime cancels an actor, and a detached actor, which spawn()
\* returns, is not cancelled even there, unless a join had been dropped before.
DetachedLives ==
  task = "cancelled" \/ doomed =>
    runtime = "async" /\ (owner \in {"addr", "freed"} => dropped)

\* consume returns, and the actor it or consume_sync told to stop ends: also where
\* an earlier join has taken the handle, so that the actor cannot be returned and
\* consume reports AlreadyStopped before the loop is over.  Neither holds when the
\* stop was pushed out of a full mailbox.
ConsumeReturns ==
  /\ (owner = "consuming") ~> (owner # "consuming" \/ lostStop)
  /\ (owner \in {"consuming", "future"}) ~> (task \in Over \/ lostStop)
=============================================================================

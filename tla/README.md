# TLA+ verification of hannibal

hannibal is a small actor framework for Rust: an actor is a value with
handlers, run by an event loop in a task of its own; everybody else reaches it
through addresses, senders and callers that put payloads into its mailbox. This
directory holds TLA+ models of that machinery, TLC configurations that check
them on small instances, and TLAPS proofs of the theorems that matter most.

All paths below are relative to the repository, whose crate is in `src/`.

## The system

| Component | State | Operations | What is hard |
|---|---|---|---|
| Event loop (`event_loop.rs`, `actor/restart_strategy.rs`) | where the loop is, whether the instance is started, the timeout policy | started, receive, task, restart, stop, timeout, cancelled, stopped, panics | hooks and handlers are suspended while clients go on; four ways to end, each dropping the loop's parts in its own order |
| Mailbox (`channel.rs`, async_channel) | a FIFO queue, bounded or not, open or closed | send (waits for room), try_send, force_send (pushes the oldest out), close | eviction; payloads that outlive the receiver; closing with the last sender |
| Flag and notification (`context/core.rs`) | an atomic flag, a oneshot shared by all addresses | running, stopped, await, notify, drop | read long before the push it guards; order of flag, notification and receiver |
| Addresses (`addr.rs`, `addr/*.rs`) | a strong or weak sender and the core | stop, halt, restart, call, ping, send, try_send, force_send, await, upgrade, drop | interleaving of check and push with everything else; callers that wait for ever; upgrade against the last drop |
| Owning address (`addr.rs`, `actor/handle.rs`) | a mutex with the runtime's join handle, taken by the first join | join, consume, consume_sync, detach, drop | a join dropped half way takes the handle along; what dropping it does to the task depends on the runtime |
| Context (`context.rs`) | tasks, children, a weak sender to oneself | stop, restart, spawn_task, interval, delayed_send, stop_task, gc, add_child, send_to_children | tasks that outlive the stop notification, ticks that wait for room, state kept across a restart, forced pushes into children |
| Stream actors (`event_loop.rs`) | the loop's state and the stream | the loop's, with the stream's elements and `finished()` | random choice between mailbox and stream, the losing future dropped on every turn, end of the stream, restart panics |
| Registry (`actor/service.rs`) | one address per service type behind a read-write lock | from_registry, try_from_registry, register, replace, unregister, already_running | decide and insert under one lock, ping outside it, services that start while they are looked up |
| Broker (`broker.rs`) | weak subscribers, external senders | publish, subscribe, unsubscribe, subscribe_to | one slow subscriber holds up all others; upgraded senders keep subscribers open during a round; a subscriber that publishes from its handler |
| Builder and spawning (`actor/builder.rs`, `actor/spawnable.rs`, `event_loop.rs`) | the configuration of a loop to come | bounded, unbounded, timeout, fail_on_timeout, on_stream, recreate_from_default, spawn, spawn_owning | fields are moved from one builder type to another |
| Messages and errors | none | conversion of refusals into errors | one error for a full and for a closed mailbox |
| Signals (`signals.rs`) | none of its own | a stream actor that publishes what it receives | glue of components above |
| Derive macros | none | code generation | nothing at run time |

The parts interact through few things. Every handle shares the flag and the
stop notification with the loop and owns a sender of the mailbox; the number of
senders decides when the mailbox closes and so when the loop ends by itself. A
call puts a oneshot inside its payload and waits on the other end: what becomes
of the payload decides what the caller gets. The registry owns an address, and
so keeps its service alive; the broker is a service, and owns weak senders.

## Modules

| Module | Models |
|---|---|
| `Mailbox` | the queue of async_channel as the crate uses it: when it is full, what a forced push leaves and what it pushes out |
| `Actor` | one actor: `EventLoop::create` and its teardown, flag and notification, `Context::stop` and `Context::restart`, and clients with strong or weak handles |
| `Delivery` | the abstract promise to senders: payloads are accepted, served at most once, in order and one at a time, perhaps lost; nothing is served after the end, which is announced |
| `Lifecycle` | the abstract life of one actor as its handles see it: it ends for a reason, flag and receiver go in one of two orders, and whoever let go of it last has let go for good |
| `ActorDelivery` | `Actor` implements `Delivery` and `Lifecycle`, with the refinement mappings |
| `StreamActor` | the same actor on a stream: `EventLoop::create_on_stream` in the place of `create`; it implements `Delivery` as well |
| `Context` | what a Context keeps: background tasks (intervals, delayed messages, futures) and children, against the end of the loop |
| `Registry` | the registry's entry and lock for one type of service, the tasks that use it, and the life of its instances |
| `Slot` | the abstract service: a slot that lists one instance, whose operations are atomic; `Registry` implements it |
| `Broker` | the broker of one topic: its handlers, the upgrades and sends of a publication, its subscribers and external channels |
| `PubSub` | the abstract multicast: a publication is due to whoever is subscribed when it is accepted, and is handed out in order; `Broker` implements it |
| `Builder` | every configuring call of the builders and of `EventLoop`, and what it leaves in their fields |
| `Owning` | composes `Builder` with the life of the spawned loop, its join handle and its owner, on both runtimes |
| `MCActor`, `MCStreamActor`, `MCContext`, `MCRegistry`, `MCBroker`, `MCOwning` | instances for TLC: who holds what and may call what |
| `ActorProofs`, `AnswerProofs`, `ActorDeliveryProofs`, `StreamProofs`, `ContextProofs`, `RegistryProofs`, `BrokerProofs`, `OwningProofs` | theorems |

### Actor

A payload is named by the order in which the mailbox accepted it, so `queue` is
a sequence of numbers; what a message contains and what a handler computes is
left out. `fate` says what became of each payload: queued, running, done,
evicted, or aborted (cut off by a timeout, a panic or a failed refresh). It is
at the same time the state of the oneshot its caller waits on.

The loop's position is `phase`. Every `.await` of `EventLoop::create` that runs
user code is a phase of its own (`starting`, `handling`, `resetting`,
`restarting`, `cancelling`, `stopping`), so that clients interleave with it.
When the loop ends, `todo` lists what is still to happen: the flag falls, the
oneshot fires, the receiver is dropped and closes the channel. The order depends
on how it ended. On a normal end `StopNotifier::notify` comes first and the
receiver, a pinned local, goes last; on a panic or an error return the local is
dropped before the loop's own fields; when `started()` fails the receiver is
still one of these fields, declared after the notifier.

An operation of an address is a record: how it pushes (`try`, `wait`, `force`
or not at all), which payload, which error a refusal becomes, and what it then
waits for. The operations of the API are the named records `Addr_stop` to
`Caller_call`. Each runs in steps: check the flag, push, wait for an answer or
for the notification. Weak handles first upgrade, which makes them strong for
the length of the operation. A client is at one step of one operation at a time;
several operations of one address in parallel are several clients. A panic in a
task that holds an address, and the cancellation of a waiting call, are left out.
A client may clone its handle for another client (`Share`: clone, sender, caller)
or turn it into a weak one (`Downgrade`) between two operations.

Pings run no user code: they do not fail and cannot time out.

### StreamActor

EXTENDS `ActorDelivery`, so mailbox, clients, hooks and teardown are those of
`Actor`, action for action. What differs is the middle of the loop: `select!`
takes a payload, or an element, or finds the stream at its end. While the loop is
with its stream, `phase` remains `waiting` and `side` tells what runs; `elem` says
what became of each element, as `fate` does of each payload. The source yields
and ends when it likes, or never: a stream may be silent for ever. Once it has
ended the fused stream is skipped and only the mailbox is served. A restart is
taken from the mailbox and panics the loop, which is `RestartPanics` in the place
of `Actor`'s refresh.

`StreamActorBuilder` says that it will "tie the lifetime of the actor to the
stream" (`src/src/actor/builder.rs:57`). The loop does so in one direction only:
the stream is dropped with the actor, the actor outlives its stream
(`OutlivesStream`), unless `finished()` stops it, as `signals.rs` does.

### Registry

One service type, since types share only the lock. A service's instance is an
actor on an unbounded mailbox of which just the part the registry can meet is
kept: flag, receiver, and the stops and pings in its mailbox; `life` walks
through the same teardown as `Actor`. That this is how an actor behaves is not
left to the eye: `Actor` implements `Lifecycle`, and `InstancesLive` says that every
instance of `Registry` takes steps of `Lifecycle` only, so that the registry
is checked against actors that do no less and no more than the actor can. The lock is not a variable: a task holds it while
its `pc` is `body` or `insert`, the two stretches between `write().await` and
the return or `drop(registry)`. `StartedLooksUp` makes `started()` of an
instance take the lock as well, as a service that subscribes to a broker does.
A debug build's ping of the new instance is modelled with `DebugAssertions`,
and a failing assertion ends the task. `already_running` only reads and is not
an action; it returns the address's `stopped()`, so `Some(true)` means that the
service has stopped, which its own test in `service.rs` expects and its doc
comment ("Check if the service is already running.") does not say.

### Context

The module looks at the same actor from its Context. The event loop is reduced
to what the Context can tell: whether user code runs with a `&mut Context`
(`starting`, `handling`, `stopping`), and the order in which notification,
receiver and Context go down; flag and notification are one variable here, for
nothing in between concerns the Context. That order matters: after a normal end
the Context is dropped behind the notification, on a panic or an error before it.
Ticks, messages and restarts are one kind of payload, since each of them only
runs user code with the same Context; a restart keeps tasks and children.

A task is `asleep` (its timer runs), `checking` and `pushing` (one poll of
`Sender::send`), `waiting` for room, or `working` (inside a user future). It
holds an upgraded sender from the upgrade to the end of the send. `abort` takes
effect where a task is suspended: one that is in the middle of a poll finishes
it, and may still push. `tasks` is the map of join handles; a finished task stays
in it until `gc` or `stop_task`. Durations are left out: a timer may fire at any
time, and a tick that waits is skipped while the mailbox is still full. The clamp of the
expiry to 100 ms and 5 s is therefore not modelled.

A child is its flag, the length of its mailbox and who holds it: `entries`
counts the senders the Context holds by message type. A child is `orphaned` when
it stopped because the last sender was gone, `stopped` when it ended otherwise.
That user code restarts its own actor from every handler, which keeps it alive
by itself, is left out here, as is user code that holds a sender to itself.

About children the repository contradicts itself. `add_child` says "This child
actor is held until this context is stopped." (`src/src/context.rs:79`), and the
code does that: it stores a strong `Sender`. Comments in `src/tests/task_gc.rs` take
it that dropping the address the caller still has stops the child at once:
"drop(child_addr); // Stop child immediately" (line 469, likewise 449 and 533), and
"BUG: [...] still has 100 entries / These are all stopped senders" (lines 541-542).
They are not stopped. `ChildHeld` states what the code does and passes on that very
case (`DropChild` while the parent's Context lives); `gc` keeps such children because
they run. The tests pass since they assert nothing about a child whose address they
have dropped. The contradiction is recorded as a finding.

### Broker

`log` holds every request the broker's mailbox accepted, in order; a publication
is named by its place in it. The handler of a publication is taken apart at
everything others can see: forgetting the subscribers that cannot be upgraded,
upgrading the others, and one send after another, each of which checks the
subscriber's flag, may wait for room and fails when the receiver goes. The order
in which the HashMap yields subscribers is any order; external senders are a set
served in the order in which the log shows their subscriptions, which is the order
of the Vec, for every external channel subscribes once. The upgraded senders are held until the handler
returns, which keeps a subscriber's channel open that nobody else holds.

A subscriber's actor is its mailbox (`box`, with the operators of `Mailbox`), its
handler and its end; `Actor` has the details. `Relays` are subscribers whose handler
publishes once itself; `Mortal` ones may lose their last address. Others may force
into a subscriber's mailbox what `ForcedInto` allows: a stop, a restart, or a message
of another type by `Sender::force_send` (`ForcePush`). A mailbox that is full then
loses its oldest entry, which may be a publication it had accepted (`lost`), and
after a restart or a message the subscriber goes on without it. `ReachesAll`
therefore promises that a publication is taken out unless it was pushed out, and
`NothingVanishes` (proved) that nothing else takes one away: a subscriber with an
unbounded mailbox, or one nobody forces anything into, gets all it is owed.
A subscriber ends by a stop or with its last sender; that a hook or handler of it
fails is left out, and ends it as far as the broker can tell. The broker itself runs
throughout: that it is started once and found again is `Registry`'s part.

### Builder and Owning

`Builder` keeps the list of configuring calls made so far beside the fields they
set (`conf`), so that what was asked can be compared with what results. A
timeout's duration is left out. `SpawnOwning` hands the configuration to the loop.

`Owning` keeps the loop of `Actor` without its clients: `task` is where the
spawned future is, including how it ended (`ok`, `failed`, `panicked`,
`cancelled`), `inst` which instance it holds. `cell` is the mutex around the
runtime's handle: a join takes the handle out of it at its first poll. A join may
be dropped at any time, by a timeout or a `select!` around it. What dropping the
handle means is the runtime's: tokio lets the task go on, async-global-executor
cancels it where it is suspended. `runtime` is chosen in `Init`, so that one run
covers both.

## Runs

Bounds are small on purpose and named in the modules: `MaxMsgs` payloads are
accepted in a behaviour, `MaxElems` elements yielded, `MaxInst` instances and
`MaxTasks` background tasks spawned (`KindsOf` says what the n-th may be),
`MaxEntries` senders held for a child and message type, `MaxReqs` requests
accepted by the broker, `MaxForced` forced pushes into one subscriber's mailbox,
`MaxCalls` configuring calls on a builder, `MaxLoads`
payloads accepted by an owned actor. `Room` keeps a client from
starting an operation that could not finish within the bound, so that the bound
never looks like a deadlock. Why they are enough:

- three payloads are a payload before, at and behind a stop or a restart, and an
  eviction behind an eviction;
- two elements show one that is skipped or handled twice while the mailbox wins
  the select; the second can come while the first is in its handler;
- two background tasks are enough for what they do to each other through the
  mailbox; more of a kind add nothing a property tells apart;
- four requests are two subscribers and two publications, or subscribe, publish,
  unsubscribe, publish; a mailbox of capacity 1 makes the second one wait, and one
  forced push finds it full of a publication and evicts it. In the run only the
  relay meets forced pushes, a stop or a restart; a forced message (`Other`) does no
  more to a mailbox than a restart, and `NothingVanishesCorrect` covers all of them;
- four calls reach every pair of settings on every route, a setting made twice,
  and each transition between builder types with settings before and behind it;
  one capacity suffices, for the fields are copied and never compared.

No run repeats a type invariant: the types are proved for every module with
proofs (`TypeCorrect`, `StreamTypeCorrect`, `ContextTypeCorrect`,
`BrokerTypeCorrect`, `OwningTypeCorrect`, and in the invariant of `Registry`), for
every value of the constants.

Every configuration sets `CHECK_DEADLOCK FALSE` since an actor whose clients are
done or wait for what never comes has no further step.

| Run | Instance | Shows |
|---|---|---|
| `life` | unbounded mailbox, a strong client (call, halt, restart) and a weak one (stop, call), shared and downgraded handles, handlers that stop the actor, timeouts, failures | order of service, a stop is a barrier, the mailbox is open while a strong handle exists, a refused operation met a stopping actor, dropping the last address loses nothing; halt returns, stops are honoured; `Actor` implements `Delivery` with its liveness, and `Lifecycle` |
| `full` | capacity 1, two strong clients that send, force, restart, await, call and ping; timeouts that end the actor, every hook may fail | eviction keeps the books, flag before notification, hooks only on a started instance, callers are answered or the actor stops |
| `stream` | capacity 1, a stream of two elements, a strong client that calls and restarts, a weak sender; timeouts, panics | the select loses no element and no payload, order on both sides, `finished()` once and last, the actor outlives its stream, elements are served, senders that wait for room are released even by a restart's panic; safety of `Delivery` |
| `services` | two tasks, two instances, all operations, failures, `started()` that uses the registry | one running service, the registered one lives, nobody hangs in the registry; `Registry` implements `Slot`, and its instances live as `Lifecycle` says |
| `background` | an interval beside a delayed message or a future, one child, capacity 1 | no task and no child escapes the Context, ticks are skipped but the interval survives, tasks and children end after their actor, a lone interval does not keep its actor alive |
| `broker` | two subscribers of capacity 1, one of them a mortal relay that is stopped or restarted by a forced push, and an unbounded external channel; four requests | everyone gets what was published between subscription and unsubscription, once and in order; every publication is taken out, unless a forced push evicts it, although subscribers are slow or publish themselves; the broker keeps nobody alive; `Broker` implements `PubSub` |
| `owning` | both runtimes, both builders and `EventLoop`, four calls, then an owner and its clones against a loop that ends in any way | the loop is configured as asked; what join and consume return is true; a detached actor is not cancelled; consume returns, and the actor it stops ends even if it cannot be returned any more |
| `overlap` | two intervals, capacity 1 | **violated**: intervals that take turns upgrading keep their actor alive after the last address is gone |
| `evict` | capacity 1, halt against restart and forced messages | **violated**: an accepted stop is pushed out by a later forced push and halt never returns |
| `strand` | unbounded, stop against a weak call | **violated**: a call that lands behind a stop waits for ever |
| `unannounced` | timeouts that end the actor | **violated**: addresses are notified although `stopped()` never ran |
| `assertion` | two tasks look a service up, one stops it | **violated**: the debug assertion on the ping of `from_registry` fails |

The violated properties say what a comment or an assertion of the code says; the
passing runs check the weaker statements that do hold. `CallAnsweredOrStopped`
is what is left of `CallResolves`: a caller is answered, or told, or the actor
has stopped (and a caller stranded behind a stop stays where it is as long as
any sender of the mailbox, its own included, is alive). `StopHonoured` and
`HaltReturns` hold on unbounded mailboxes only, and so does `RefusalIsTrue`:
`try_send` fails for a full mailbox as well as for a closed one, and both become `AlreadyStopped`
(`src/src/addr.rs:131`). On a bounded mailbox that error does not mean that the
actor has stopped.

Two properties of passing runs are findings as well. `ChildHeld` contradicts
comments of the tests (see Context). `JoinTells` excuses a join that came after one
that was dropped half way: the first poll takes the runtime's handle
(`src/src/actor/handle.rs:55`), so a second `join` returns `None` and `consume`
`AlreadyStopped` while the actor runs, against "Waits for the actor to finish and
returns it." (`src/src/addr.rs:278`). Without its disjunct `dropped` TLC violates
the property with that trace. What a stop promises still holds there: the second half
of `ConsumeReturns` says that the actor ends.

Each property of a passing run has a mutant of the code that breaks it; they are
the `Mut_` definitions beside the definitions they replace.

### Fairness

`WF(LoopStep)`: the runtime polls the loop when it is ready, and hooks and
handlers end. A handler that never ends is not excluded by the code; no
liveness holds with one, unless a timeout is configured. `WF(ClientStep(c))`:
a client that has begun an operation is polled. For a sender that waits for room this
is enough in the instances checked, since a bounded number of payloads cannot
overtake it for ever. Nobody has to begin an operation or to drop a handle.
In `Context`, timers fire, tasks are polled and children run; a user future need
not end, it is the abort that must end it. `LoneTimerStops` is stated for at most
one timer: a delayed message that waits for room can lose it to an interval again
and again, so that with two the statement fails under weak fairness (`overlap`).
In `StreamActor` the loop as a whole is weakly fair: `select!` may prefer one side,
but a behaviour accepts a bounded number of payloads, after which only the stream
is ready; nothing stronger is claimed of an endless flood of payloads. The source
need not yield anything and need not end.
In `Broker` the broker and the subscribers' loops are polled and handlers return;
an external receiver need not be read, which is why the external channel of the
`broker` run is unbounded: an unread bounded one blocks the broker for good, and
with it every other subscriber.
In `Owning` the task is polled, and so is whoever awaits it.
In `Registry` the lock is taken under strong fairness, for async_lock's
read-write lock prefers writers and starves none of them; `started()` of an
instance that uses the registry is such a writer.

### Hazards that no property covers

`PROJECT.json` lists them with the others; three deserve a word.

- A restart keeps the Context, and `started()` runs once more
  (`src/src/context.rs:521`): an interval or a child it adds then stands next to the one it
  added before. No doc promises otherwise, so there is nothing to check against.
  The run `background` lets a restarted actor spawn and add again, and `NoTaskEscapes`,
  `TasksEnd` and `ChildHeld` hold of the doubled set, but none would notice the doubling.
- `send_to_children` uses `force_send`, of which its own comment says that it "is not
  correct here" (`src/src/context.rs:230`). `Context` keeps only the length of a child's
  mailbox. What the push does to the child and its callers is checked where the
  child is the actor: `Sender_force_send` is an operation of `full` (the books and the
  answers of callers survive an eviction) and of `evict` (an accepted stop does not).
- A handler that calls, halts or awaits its own actor waits for itself; see below.

## Proofs

All theorems hold for every value of the constants that satisfies the modules'
assumptions (`CapacityAssumption`, `ActorAssumption`, `RegistryAssumption`,
`ContextAssumption`, `StreamAssumption`, `BrokerAssumption`, `BuilderAssumption`, `OwningAssumption`): any
finite set of clients, any handles, any operations allowed to each, any capacity,
any bound on payloads, elements, requests, calls or instances.

`ActorProofs` proves `TypeOK`, `Accounted`, `OldestFirst`, `StopIsBarrier`,
`StopVisible`, `OpenWhileHeld`, `HooksBracket` and `DrainedBeforeStop` as
invariants of `Spec`, `RefusalIsTrue` for an unbounded mailbox (`Capacity = 0`), and
the action property `FateIsFinal` (a settled payload stays settled), which is in no
run because `Accounted` and the refinement cover it there. None of them is inductive alone. The
inductive invariant `Inv` joins

- the types, with the fact that teardown has something left to do,
- the books: `Accounted` and `OldestFirst` together with the queue being sorted.
  Payloads are numbered by acceptance, so the head of a sorted queue is the
  oldest payload, and order of service follows from the order of the queue,
- what has been done: only the loop settles a payload as done, which makes a
  stop that is done one that was taken and ended the loop,
- the shape of the life cycle: which phases go with which hooks, with a running
  payload, with the flag and the notification, and which of the two teardown
  orders is still to be walked,
- who keeps the channel open: while the loop lives the channel is closed exactly
  when nobody holds a strong handle; weak clients are idle or upgraded.

`ActorDeliveryProofs` shows the safety of the refinement: `Init` maps to
`DeliveryInit`, and a step of `Next` is a step of `Delivery` or a stutter
(`DeliversSafely`). Accepting maps to `Take`, receiving to `Serve` of the oldest
waiting payload, the end of a handler to `Finish`, the fall of the flag to `End`
and the notification to `Announce`.

`AnswerProofs` proves what callers, and those who stop an actor, may rely on. Its
theorems say how far the statements reach that the violated runs refute:

- an accepted stop stays in the mailbox, is heeded, or is pushed out of a bounded
  mailbox; nothing else undoes it (`StopStandsCorrect`, the safety of `StopHonoured`,
  which `evict` refutes). It follows from `LoadShape`: only tasks and restarts are
  ever cut short;
- a caller waits for a payload of its own and shares it with nobody
  (`AnswerIsOwnCorrect`), and after an end in order it is left without an answer
  only if its call was accepted behind the stop that ended the actor
  (`StrandedBehindStopCorrect`, the state `strand` shows);
- unless user code fails or a timeout ends the loop, addresses are notified after
  `stopped()` (`NotifiedAfterStoppedUnlessFailed`, the promise `unannounced` refutes);
- once nobody holds an actor strongly nobody ever does again (`LastDropIsFinal`). The
  invariant behind it, `ClosedUnlessHeld`, goes on where `OpenWhileHeld` ends, when
  the loop is gone: a channel nobody holds is closed, and a closed one lets no weak
  handle be upgraded;
- the actor implements `Lifecycle` (`ImplementsLifecycleCorrect`). `Stage` maps the
  loop's phase and what is left of its teardown to the abstract stages; `Told` is
  that a stop was accepted, or that the loop ended out of order. Clients only tell
  or let go (`OutsideLives`), the loop does the rest (`LoopLives`). The invariant
  that had to be found is `UnwindShape`: only a loop that failed is dropped innermost
  first, and without its receiver the channel is closed, so that nobody tells an actor anything
  that could not hear it.

`StreamProofs` proves `StreamTypeOK`, `ElementsInOrder`, `FinishedOnceAtEnd`,
`SelectLosesNothing` and `OutlivesStream`, and that a stream actor keeps the
promises of `Actor`, on books, order, stops, visibility, handles and hooks
(`StreamKeepsPromises`), of `Delivery` (`StreamDeliversSafely`) and
of `Lifecycle` (`StreamImplementsLifecycle`). A step of the stream's loop is either
a step of `Actor`, or changes nothing of it, or takes its loop from the stream to
the teardown or to `cancelled()`; the last case is the one `Actor`'s invariant has
to be proved for anew. The strengthening `StreamShape` says where the loop stands
between mailbox and stream. For `Lifecycle` the shapes of `AnswerProofs` are kept as
well (`LifeShape`): a panic in a handler of the stream or on a restart is a failure
of the abstract life, a stop pushed by one of its handlers tells the actor to stop,
and what else the stream does is no step of it.

`BrokerProofs` proves `BrokerTypeOK` and `DeliversWhatItOwes`. The latter compares
what a channel was given with what the log alone says it is owed, so its invariant
has to tie the broker's collections to the log: who is in `subs` or `exts` is
subscribed by the log, and who is subscribed and still open is there (`Listed`; a
channel that is closed is never opened again, which is why `retain` may forget it).
`Shape` says where the handler of a publication stands; that the senders it holds
are among `subs` makes a send one that was owed. What one request changes in the
log is proved once, as lemmas about sequences (`SubscribedNext`, `OwedNext`).

The refinement of `PubSub` (`ImplementsPubSubCorrect`) puts the effect of a request
at the moment the mailbox accepts it: who is a member, and what is due to whom, are
read off the log, not off the broker's collections. A send is then a `Give`; that
publications come in turn follows from the invariant that every channel that is still
open has got all it was owed before the publication in the handler's hands. All other
steps are hidden, or close channels.

`NothingVanishesCorrect` follows a publication from the channel that accepted it. It
rests on the mailboxes being sorted: publications enter in the order of the log,
a take or a forced push removes the head, a forced entry is no publication, and the
rest keeps its order (`EntriesTail` and the lemmas after it). It holds for any
capacities and any number of forced pushes.

`OwningProofs` proves `BuiltAsAsked`, `JoinTells` and `DetachedLives`, with the types.
Its invariant `OwningInv` joins `BuilderInv` (each field of the builder is what the
last call of its kind asked for, and which calls a route allows), and `OwnerShape`:
an empty cell in the hands of an owner means that the loop is over or that a join
was dropped, and only a dropped handle dooms a task.

`RegistryProofs` proves `OneService` and `ListedLives`. Its invariant says that
one task at a time holds the lock, that an instance about to be inserted goes
over one that has stopped (the flag never rises again, so that the decision made
under the lock is still right at the insertion), and that an instance that ends
without having been asked has no holder left, the registry included.

The refinement of `Slot` (`ImplementsSlotCorrect`) is an argument about where an
operation takes effect. An instance that waits under the lock to be inserted is
listed from the moment it was spawned (`Listed`), which makes the lookup that spawns
it one step, and its insertion none; exclusion by the lock makes that instance
unique. The other operations take effect when they read and change the entry.
`InstancesLiveCorrect` is proved step by step from the same invariant: a stop in a
mailbox was asked for, and a task only gets hold of an instance that is held already
or that it has spawned.

About the assertion of `from_registry`, which `assertion` refutes, two theorems say
when it does hold: it only ever fails over an instance that was told to stop or has
failed (`AssertionBlames`, an action property), and never if nobody stops services
and none fails (`ServiceAnswersUndisturbed`).

`ContextProofs` proves `TypeOK`, `NoTaskEscapes`, `IntervalSurvives` and
`ChildHeld` of `Context`. Its invariant adds that no field of the loop goes down
twice (so that the Context, once dropped, stays dropped), that only a future is
inside a future, and that as long as there is a Context it holds every child that
is running; the last is what `gc` could break and why `ChildHeld` is not
inductive alone. `UnheldDrains` is what stands of the promise that `overlap`
refutes: once no address is left and no task is in the middle of a send, no task
upgrades its weak sender again and the mailbox only drains. Its invariant,
`SenderShape`, says that a channel without a sender is closed, and that no task
runs before it is spawned. That such a moment comes with a single timer is a
liveness property (`LoneTimerStops`) and stays with TLC.

Only model-checked: liveness (`StopHonoured`, `LastDropStops`, `HaltReturns`,
`CallAnsweredOrStopped`, `PushResolves`, `StreamServed`, `TasksEnd`,
`ChildrenFollow`, `LoneTimerStops`, `LookupResolves`, `ReachesAll`,
`SubscriberStops`, `ConsumeReturns`, and the liveness half of
`ImplementsDelivery`), for the prover has no backend for fairness and ENABLED.
For the same reason no theorem is the whole of a property with a `~>`; where it has
a safe half, that half is proved (`StopStandsCorrect`, `StrandedBehindStopCorrect`,
`NothingVanishesCorrect`).
Every invariant, every action property and every refinement without fairness of a
passing run is proved.

## Plan

Done: `Mailbox`, `Actor`, `StreamActor`, `Context`, `Registry`, `Broker`, `Builder` and
`Owning`, the abstract specifications `Delivery`, `Lifecycle`, `Slot` and `PubSub` with
their refinements, and proofs for all of them. Left:

A parent and a child composed of two actors, with the child's mailbox in the place
of its length.

## Not modelled

The data of messages and what handlers compute; logging; every `Duration` (of a
timeout, which may strike at any suspension of a handler, of intervals, of pings);
the runtimes themselves; memory ordering weaker than sequential consistency (the
flag is stored with release and loaded with acquire ordering and guards no other
data).

`signals.rs` is a stream actor that publishes each element through the broker and
stops itself in `finished()`; its parts are modelled, what is left is the operating
system's delivery of signals. The derive macros generate code and have no state.

A handler that calls, halts or awaits its own actor waits for itself: clients in
`Actor` are other tasks, and a handler that is also a client is left out. The
broker's own start and loss, and a lookup by `try_from_registry` that misses
because the lock is held, are in `Registry` only, where such a lookup returns
nothing; `Broker` starts from a broker that runs.

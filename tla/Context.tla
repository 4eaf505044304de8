------------------------------ MODULE Context ------------------------------
(***************************************************************************)
(* What an actor keeps in its Context besides its mailbox: the background  *)
(* tasks it has spawned (intervals, delayed messages, plain futures) and   *)
(* the children it holds (src/context.rs).  The event loop is reduced to   *)
(* what the Context can tell: when user code runs with a &mut Context, and *)
(* in which order the loop's fields go down (module Actor has the rest).   *)
(*                                                                         *)
(* A task is suspended when it is asleep, waits for room or is inside a    *)
(* user future, and is being polled otherwise.  Aborting a task takes      *)
(* effect at its next suspension, not in the middle of a poll.             *)
(***************************************************************************)
EXTENDS Mailbox, FiniteSets

CONSTANTS
  KindsOf,       \* BOUND: what the n-th task spawned may be
  Topics,        \* the message types children are registered for
  Children,      \* the child actors
  ChildCapacity, \* the bound of a child's mailbox
  MaxTasks,      \* BOUND: tasks spawned in a behaviour
  MaxEntries     \* BOUND: entries of a child for one message type

ASSUME ContextAssumption ==
  /\ ChildCapacity \in Nat \ {0}
  /\ MaxTasks \in Nat /\ MaxEntries \in Nat
  /\ KindsOf \in [1 .. MaxTasks -> SUBSET {"interval", "delayed", "future"}]

VARIABLES
  phase,    \* where the event loop is
  todo,     \* what remains of finishing or dropping it
  queue,    \* the payloads in the actor's mailbox
  held,     \* somebody else holds a strong handle to the actor
  closed,   \* its channel is closed
  stopped,  \* the running flag is down and the stop notification fired
  spawned,  \* number of tasks spawned so far
  kind,     \* what each task is
  at,       \* where each task is
  aborted,  \* the tasks whose abort was requested
  tasks,    \* Context.tasks: the ids whose join handle it keeps
  entries,  \* Context.children: the senders it holds, by message type and child
  child,    \* what became of each child
  inbox,    \* number of payloads in its mailbox
  shared    \* the children somebody else holds a strong handle to

loopVars  == <<phase, todo, stopped>>
boxVars   == <<queue, held, closed>>
taskVars  == <<spawned, kind, at, aborted, tasks>>
childVars == <<entries, child, inbox, shared>>
vars      == <<loopVars, boxVars, taskVars, childVars>>

TaskIds   == 1 .. MaxTasks
Kinds     == {"interval", "delayed", "future"}
\* Ticks, messages and restarts all run user code with the same Context.
Loads     == {"work", "stop"}
UserCode  == {"starting", "handling", "stopping"}
Suspended == {"asleep", "waiting", "working"}
Holding   == {"checking", "pushing", "waiting"}

TypeOK ==
  /\ phase \in UserCode \cup {"receiving", "teardown", "done"}
  /\ todo \in Seq({"notify", "close", "context"})
  /\ queue \in Seq(Loads)
  /\ held \in BOOLEAN /\ closed \in BOOLEAN /\ stopped \in BOOLEAN
  /\ spawned \in 0 .. MaxTasks
  /\ kind \in [TaskIds -> Kinds \cup {"none"}]
  /\ at \in [TaskIds -> Suspended \cup Holding \cup {"unborn", "ended"}]
  /\ aborted \subseteq TaskIds /\ tasks \subseteq TaskIds
  /\ entries \in [Topics -> [Children -> 0 .. MaxEntries]]
  /\ child \in [Children -> {"unborn", "up", "stopped", "orphaned"}]
  /\ inbox \in [Children -> 0 .. ChildCapacity]
  /\ shared \subseteq Children

\* EventLoop::from_channel: no task, no child.
Init ==
  /\ phase = "starting" /\ todo = <<>> /\ stopped = FALSE
  /\ queue = <<>> /\ held = TRUE /\ closed = FALSE
  /\ spawned = 0
  /\ kind = [t \in TaskIds |-> "none"]
  /\ at = [t \in TaskIds |-> "unborn"]
  /\ aborted = {} /\ tasks = {}
  /\ entries = [k \in Topics |-> [c \in Children |-> 0]]
  /\ child = [c \in Children |-> "unborn"]
  /\ inbox = [c \in Children |-> 0]
  /\ shared = {}

-----------------------------------------------------------------------------
(* Background tasks, each on its own                                       *)

\* Mutant: a task that sleeps keeps the sender it upgraded.
Mut_LastSender(where, others) ==
  ~others /\ \A t \in TaskIds : where[t] \notin Holding \cup {"asleep"}

\* Nobody holds a sender: no handle outside, no task inside a send.
LastSender(where, others) == ~others /\ \A t \in TaskIds : where[t] \notin Holding

\* Task t goes on at w; a sender it held before may have been the last one.
Goes(t, w) ==
  /\ at' = [at EXCEPT ![t] = w]
  /\ closed' = (closed \/ LastSender(at', held))
  /\ UNCHANGED <<loopVars, held, spawned, kind, aborted, tasks, childVars>>

\* What a task does when its message was accepted.
AfterSend(t) == IF kind[t] = "interval" THEN "asleep" ELSE "ended"

\* The sleep is over.  A future runs; the others upgrade their weak sender and
\* end if that fails: interval, interval_with, delayed_send, delayed_exec.
Wake(t) ==
  /\ at[t] = "asleep" /\ t \notin aborted
  /\ Goes(t, CASE kind[t] = "future" -> "working"
               [] kind[t] # "future" /\ closed -> "ended"
               [] OTHER -> "checking")
  /\ UNCHANGED queue

\* Sender::send: `if core.stopped() { return Err(ChannelClosed) }`.
CheckRunning(t) ==
  /\ at[t] = "checking"
  /\ Goes(t, IF stopped THEN "ended" ELSE "pushing")
  /\ UNCHANGED queue

\* Mutant: try_send instead of send, whose error ends the interval.
Mut_PollSend(t) ==
  /\ at[t] = "pushing" \/ (at[t] = "waiting" /\ t \notin aborted)
  /\ \/ ~closed /\ ~Full(queue) /\ queue' = Append(queue, "work") /\ Goes(t, AfterSend(t))
     \/ (closed \/ Full(queue)) /\ Goes(t, "ended") /\ UNCHANGED queue

\* One poll of tx.send(..): accepted, refused by a closed channel, or the task
\* is suspended until there is room.
PollSend(t) ==
  /\ at[t] = "pushing" \/ (at[t] = "waiting" /\ t \notin aborted)
  /\ \/ ~closed /\ ~Full(queue) /\ queue' = Append(queue, "work") /\ Goes(t, AfterSend(t))
     \/ closed /\ Goes(t, "ended") /\ UNCHANGED queue
     \/ ~closed /\ Full(queue) /\ at[t] = "pushing" /\ Goes(t, "waiting") /\ UNCHANGED queue

\* interval_timeout: still no room when the expiry is over, the tick is skipped.
\* select_biased! polls the send first.
TickExpires(t) ==
  /\ at[t] = "waiting" /\ kind[t] = "interval" /\ t \notin aborted
  /\ ~closed /\ Full(queue)
  /\ Goes(t, "asleep")
  /\ UNCHANGED queue

\* The user future of spawn_task or delayed_exec returns; nothing obliges it to.
BodyReturns(t) ==
  /\ at[t] = "working" /\ t \notin aborted
  /\ Goes(t, "ended")
  /\ UNCHANGED queue

\* The runtime drops an aborted task where it is suspended.
Cancel(t) ==
  /\ t \in aborted /\ at[t] \in Suspended
  /\ Goes(t, "ended")
  /\ UNCHANGED queue

TaskStep(t) == Wake(t) \/ CheckRunning(t) \/ PollSend(t) \/ TickExpires(t) \/ Cancel(t)

-----------------------------------------------------------------------------
(* What hooks and handlers do with the Context                             *)

\* spawn_task for what interval, delayed_send, delayed_exec or the user pass it.
SpawnTask(k, asleep) ==
  /\ phase \in UserCode /\ spawned < MaxTasks /\ k \in KindsOf[spawned + 1]
  /\ asleep \/ k = "future"
  /\ spawned' = spawned + 1
  /\ kind' = [kind EXCEPT ![spawned + 1] = k]
  /\ at' = [at EXCEPT ![spawned + 1] = IF asleep THEN "asleep" ELSE "working"]
  /\ tasks' = tasks \cup {spawned + 1}
  /\ UNCHANGED <<loopVars, boxVars, aborted, childVars>>

\* Mutant: the join handle is dropped, which detaches the task.
Mut_StopTask(t) ==
  /\ phase \in UserCode /\ t \in tasks
  /\ tasks' = tasks \ {t}
  /\ UNCHANGED <<loopVars, boxVars, spawned, kind, at, aborted, childVars>>

StopTask(t) ==
  /\ phase \in UserCode /\ t \in tasks
  /\ tasks' = tasks \ {t}
  /\ aborted' = aborted \cup {t}
  /\ UNCHANGED <<loopVars, boxVars, spawned, kind, at, childVars>>

\* Mutant: the test of remove_stopped is the wrong way round.
Mut_Alive(c) == child[c] # "up"

\* IsAlive for Sender<M>: the running flag of the child.
Alive(c) == child[c] = "up"

\* The handles of finished tasks and the entries of stopped children are dropped.
Gc ==
  /\ phase \in UserCode
  /\ tasks' = {t \in tasks : at[t] # "ended"}
  /\ entries' = [k \in Topics |-> [c \in Children |-> IF Alive(c) THEN entries[k][c] ELSE 0]]
  /\ UNCHANGED <<loopVars, boxVars, spawned, kind, at, aborted, child, inbox, shared>>

\* add_child and register_child: a child just spawned, whose address the caller
\* may keep a clone of, or one somebody has a handle to.
AddChild(k, c, keep) ==
  /\ phase \in UserCode /\ entries[k][c] < MaxEntries
  /\ child[c] = "unborn" \/ (c \in shared /\ keep)
  /\ entries' = [entries EXCEPT ![k][c] = @ + 1]
  /\ child' = [child EXCEPT ![c] = IF @ = "unborn" THEN "up" ELSE @]
  /\ shared' = IF keep THEN shared \cup {c} ELSE shared
  /\ UNCHANGED <<loopVars, boxVars, taskVars, inbox>>

\* The length of a child's mailbox after n payloads would be in it: force_send
\* pushes the oldest out of a full one.
Forced(n) == IF n > ChildCapacity THEN ChildCapacity ELSE n

\* send_to_children: a force_send for every entry; a stopped child refuses it.
SendToChildren(k) ==
  /\ phase \in UserCode
  /\ inbox' = [c \in Children |-> IF Alive(c) THEN Forced(inbox[c] + entries[k][c]) ELSE inbox[c]]
  /\ UNCHANGED <<loopVars, boxVars, taskVars, entries, child, shared>>

-----------------------------------------------------------------------------
(* The children                                                            *)

Registered(c) == \E k \in Topics : entries[k][c] > 0

ChildHandles(c) ==
  /\ child[c] = "up" /\ inbox[c] > 0
  /\ inbox' = [inbox EXCEPT ![c] = @ - 1]
  /\ UNCHANGED <<loopVars, boxVars, taskVars, entries, child, shared>>

\* A child stops by itself, fails, or is stopped by a client of its own; what it
\* has not handled is never handled.
ChildStops(c) ==
  /\ child[c] = "up"
  /\ child' = [child EXCEPT ![c] = "stopped"]
  /\ inbox' = [inbox EXCEPT ![c] = 0]
  /\ UNCHANGED <<loopVars, boxVars, taskVars, entries, shared>>

\* A child whose last sender is gone drains its mailbox and stops.
ChildOrphaned(c) ==
  /\ child[c] = "up" /\ inbox[c] = 0
  /\ c \notin shared /\ ~Registered(c)
  /\ child' = [child EXCEPT ![c] = "orphaned"]
  /\ UNCHANGED <<loopVars, boxVars, taskVars, entries, inbox, shared>>

DropChild(c) ==
  /\ c \in shared
  /\ shared' = shared \ {c}
  /\ UNCHANGED <<loopVars, boxVars, taskVars, entries, child, inbox>>

ChildStep(c) == ChildHandles(c) \/ ChildOrphaned(c)

-----------------------------------------------------------------------------
(* The event loop and the actor's other clients                            *)

\* EventLoop::create past its loop: notify() first, then the receiver, a local,
\* and the captured fields of the future, the Context among them.
FinishOrder == <<"notify", "close", "context">>

\* A panic or an error: the receiver, then the fields in their order, the Context
\* before the StopNotifier, which notifies when it is dropped.
UnwindOrder == <<"close", "context", "notify">>

\* started() failed: the receiver still is a field, the last one.
StartFailedOrder == <<"context", "notify", "close">>

Leave(order) == phase' = "teardown" /\ todo' = order

\* A payload is taken; a restart runs stopped() and started() with the Context
\* the old instance used.  A closed channel yields what it still has.
Receive ==
  /\ phase = "receiving" /\ queue # <<>>
  /\ queue' = Tail(queue)
  /\ phase' = IF Head(queue) = "stop" THEN "stopping" ELSE "handling"
  /\ UNCHANGED <<todo, stopped, held, closed, taskVars, childVars>>

ReceiveClosed ==
  /\ phase = "receiving" /\ queue = <<>> /\ closed
  /\ phase' = "stopping"
  /\ UNCHANGED <<todo, stopped, boxVars, taskVars, childVars>>

\* A hook or handler returns, or a handler is dropped by its timeout.
UserCodeReturns ==
  \/ /\ phase \in {"starting", "handling"} /\ phase' = "receiving"
     /\ UNCHANGED <<todo, stopped, boxVars, taskVars, childVars>>
  \/ /\ phase = "stopping" /\ Leave(FinishOrder)
     /\ UNCHANGED <<stopped, boxVars, taskVars, childVars>>

\* It panics or returns an error, or the loop gives up after a timeout.
UserCodeFails ==
  /\ phase \in UserCode
  /\ Leave(IF phase = "starting" THEN StartFailedOrder ELSE UnwindOrder)
  /\ UNCHANGED <<stopped, boxVars, taskVars, childVars>>

\* Mutants: no Drop for Context; the children are not dropped with it.
Mut_DropContext_detach ==
  /\ tasks' = {} /\ entries' = [k \in Topics |-> [c \in Children |-> 0]]
  /\ UNCHANGED <<aborted, child, inbox, shared>>
Mut_DropContext_leak ==
  /\ aborted' = aborted \cup tasks /\ tasks' = {}
  /\ UNCHANGED <<entries, child, inbox, shared>>

\* Drop for Context aborts every task it still tracks; then its fields go.
DropContext ==
  /\ aborted' = aborted \cup tasks /\ tasks' = {}
  /\ entries' = [k \in Topics |-> [c \in Children |-> 0]]
  /\ UNCHANGED <<child, inbox, shared>>

TeardownStep ==
  /\ phase = "teardown"
  /\ todo' = Tail(todo)
  /\ phase' = IF Len(todo) = 1 THEN "done" ELSE "teardown"
  /\ stopped' = (stopped \/ Head(todo) = "notify")
  /\ closed' = (closed \/ Head(todo) = "close")
  /\ IF Head(todo) = "context" THEN DropContext
                               ELSE UNCHANGED <<aborted, tasks, childVars>>
  /\ UNCHANGED <<queue, held, spawned, kind, at>>

LoopStep == Receive \/ ReceiveClosed \/ UserCodeReturns \/ UserCodeFails \/ TeardownStep

\* Context::stop, Addr::stop, Addr::restart: force_send.  Left out is an actor
\* that restarts itself again and again, which keeps itself alive.
Signal(load) ==
  /\ held \/ (phase \in UserCode /\ load = "stop")
  /\ ~closed
  /\ queue' = ForcePushed(queue, load)
  /\ UNCHANGED <<loopVars, held, closed, taskVars, childVars>>

\* Somebody else's message.
ClientSends ==
  /\ held /\ ~closed /\ ~Full(queue)
  /\ queue' = Append(queue, "work")
  /\ UNCHANGED <<loopVars, held, closed, taskVars, childVars>>

DropLastHandle ==
  /\ held
  /\ held' = FALSE
  /\ closed' = (closed \/ LastSender(at, FALSE))
  /\ UNCHANGED <<loopVars, queue, taskVars, childVars>>

Next ==
  \/ LoopStep
  \/ \E t \in TaskIds : TaskStep(t) \/ BodyReturns(t) \/ StopTask(t)
  \/ \E k \in Kinds, asleep \in BOOLEAN : SpawnTask(k, asleep)
  \/ Gc
  \/ \E k \in Topics : \/ SendToChildren(k)
                       \/ \E c \in Children, keep \in BOOLEAN : AddChild(k, c, keep)
  \/ \E c \in Children : ChildStep(c) \/ ChildStops(c) \/ DropChild(c)
  \/ \E load \in Loads : Signal(load)
  \/ ClientSends \/ DropLastHandle

\* The runtime polls what is ready, timers fire, and hooks and handlers end.
\* Nobody has to spawn, to send, or to let go of a handle; a user future may run
\* for ever unless it is aborted.
Fairness ==
  /\ WF_vars(LoopStep)
  /\ \A t \in TaskIds : WF_vars(TaskStep(t))
  /\ \A c \in Children : WF_vars(ChildStep(c))

Spec == Init /\ [][Next]_vars /\ Fairness

-----------------------------------------------------------------------------
(* What the Context promises                                               *)

\* No task escapes: whatever gc and stop_task removed before, a task that has
\* not ended is either one the Context will abort when it is dropped, or aborted
\* already.  A join handle that is merely dropped would detach its task.
NoTaskEscapes ==
  \A t \in TaskIds : at[t] \notin {"unborn", "ended"} => t \in tasks \cup aborted

\* A slow actor costs an interval its ticks, never the interval itself: it only
\* ends by abort or with the actor.
IntervalSurvives ==
  \A t \in TaskIds :
    kind[t] = "interval" /\ at[t] = "ended" => t \in aborted \/ closed \/ stopped

ContextDropped ==
  phase \in {"teardown", "done"} /\ \A i \in DOMAIN todo : todo[i] # "context"

\* A child is held until the Context is dropped: restarts and gc never take the
\* last sender of a child that is running.
ChildHeld ==
  (\E c \in Children : child[c] = "orphaned") => ContextDropped

\* The background tasks of an actor end after it has stopped, user futures and
\* sends that wait for room included.
TasksEnd == stopped ~> \A t \in TaskIds : at[t] \in {"unborn", "ended"}

\* The children nobody else holds stop after their parent.
ChildrenFollow ==
  \A c \in Children : (stopped /\ c \notin shared) ~> (child[c] # "up" \/ c \in shared)

\* The intervals and delayed messages still to come.
Timers == {t \in TaskIds : kind[t] \in {"interval", "delayed"} /\ at[t] # "ended"}

\* An interval holds a weak sender and upgrades it for each tick: alone, it does
\* not keep its actor alive after the last handle outside is dropped, not even if
\* its ticks wait for room.
LoneTimerStops ==
  (~held /\ Cardinality(Timers) <= 1) ~> (stopped \/ Cardinality(Timers) > 1)

\* Weak senders never keep an actor alive.
WeakDoesNotHold == (~held) ~> stopped
=============================================================================

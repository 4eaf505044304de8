------------------------------- MODULE Actor -------------------------------
(***************************************************************************)
(* One actor: its event loop (src/event_loop.rs), its mailbox, the running *)
(* flag and stop notification it shares with every address                 *)
(* (src/context/core.rs), and the clients that hold strong or weak handles *)
(* to it (src/addr.rs, src/addr/*.rs).                                     *)
(*                                                                         *)
(* A payload is named by the order in which the mailbox accepted it, so    *)
(* the queue is a sequence of ids.  What a handler computes is left out;   *)
(* whether it ran, finished, was cut off or never ran is kept in `fate`,   *)
(* which is also the state of the oneshot a caller waits on.               *)
(***************************************************************************)
EXTENDS Mailbox, FiniteSets

CONSTANTS
  Clients,        \* the tasks that hold a handle
  InitHandle,     \* the handle each starts with: "strong" or "weak"
  OpsOf,          \* the operations each may invoke
  CtxLoads,       \* what hooks push through their Context: "stop", "restart"
  MaxMsgs,        \* BOUND: payloads accepted in a behaviour
  UserFails,      \* hooks and handlers may panic, started() may return Err
  HasTimeout,     \* EventLoopConfig.timeout is Some
  FailOnTimeout   \* EventLoopConfig.fail_on_timeout

Loads == {"task", "ping", "stop", "restart"}

\* An operation of the API: how it pushes which payload, the error it turns a
\* refusal into, what it then waits for, and whether it consumes the address.
Operation == [push: {"none", "try", "wait", "force"}, load: Loads,
              refused: {"AlreadyStopped", "ChannelClosed"},
              then: {"return", "reply", "stopped"}, consumes: BOOLEAN]

Op(push, load, refused, then, consumes) ==
  [push |-> push, load |-> load, refused |-> refused, then |-> then, consumes |-> consumes]

Addr_stop     == Op("force", "stop",    "AlreadyStopped", "return",  FALSE)
Addr_halt     == Op("force", "stop",    "AlreadyStopped", "stopped", TRUE)
Addr_restart  == Op("force", "restart", "AlreadyStopped", "return",  FALSE)
Addr_call     == Op("try",   "task",    "AlreadyStopped", "reply",   FALSE)
Addr_ping     == Op("try",   "ping",    "AlreadyStopped", "reply",   FALSE)
Addr_send     == Op("wait",  "task",    "AlreadyStopped", "return",  FALSE)
Addr_try_send == Op("try",   "task",    "AlreadyStopped", "return",  FALSE)
Addr_await    == Op("none",  "stop",    "AlreadyStopped", "stopped", TRUE)
Sender_send       == Op("wait",  "task", "ChannelClosed", "return", FALSE)
Sender_try_send   == Op("try",   "task", "ChannelClosed", "return", FALSE)
Sender_force_send == Op("force", "task", "ChannelClosed", "return", FALSE)
Caller_call       == Op("wait",  "task", "ChannelClosed", "reply",  FALSE)

\* Weak handles upgrade, then run the strong operation on the upgraded handle:
\* try_stop, try_halt, upgrade_and_send, upgrade_and_call.
WeakOps == {Addr_stop, Addr_halt, Sender_send, Caller_call}

ASSUME ActorAssumption ==
  /\ MaxMsgs \in Nat
  /\ IsFiniteSet(Clients)
  /\ InitHandle \in [Clients -> {"strong", "weak"}]
  /\ \E c \in Clients : InitHandle[c] = "strong"
  /\ OpsOf \in [Clients -> SUBSET Operation]
  /\ CtxLoads \subseteq {"stop", "restart"}
  /\ UserFails \in BOOLEAN
  /\ HasTimeout \in BOOLEAN
  /\ FailOnTimeout \in BOOLEAN

VARIABLES
  phase,     \* where the event loop is
  todo,      \* what remains of dropping or finishing the event loop
  hooks,     \* "new" before started() succeeded, then "up" or "down"
  queue,     \* ids of the payloads in the mailbox
  closed,    \* the channel is closed
  sent,      \* number of payloads accepted so far
  load,      \* what each accepted payload is
  fate,      \* what became of it
  cur,       \* the payload whose handler or refresh is running, 0 for none
  flag,      \* Core.running_flag
  notified,  \* the stop oneshot has fired
  handle,    \* the handle each client holds
  pc,        \* where each client is in its operation
  op,        \* the operation it is in
  mid,       \* the id its payload got
  ret        \* what its last operation returned

loopVars   == <<phase, todo, hooks, cur, flag, notified>>
boxVars    == <<queue, sent, load, fate>>
clientVars == <<handle, pc, op, mid, ret>>
vars       == <<loopVars, boxVars, closed, clientVars>>

Ids     == 1 .. MaxMsgs
\* Phases in which user code runs and may be suspended.
Hooks   == {"starting", "handling", "resetting", "restarting", "cancelling", "stopping"}
Phases  == Hooks \cup {"waiting", "teardown", "done"}
Settled == {"done", "evicted", "aborted"}
Fates   == {"unsent", "queued", "running"} \cup Settled
Results == {"none", "Ok", "AlreadyStopped", "ChannelClosed", "ActorDropped", "Canceled"}

NoOp == Addr_await

TypeOK ==
  /\ phase \in Phases
  /\ todo \in Seq({"flag", "notify", "close"})
  /\ hooks \in {"new", "up", "down"}
  /\ queue \in Seq(Ids)
  /\ closed \in BOOLEAN
  /\ sent \in 0 .. MaxMsgs
  /\ load \in [Ids -> Loads \cup {"none"}]
  /\ fate \in [Ids -> Fates]
  /\ cur \in 0 .. MaxMsgs
  /\ flag \in BOOLEAN
  /\ notified \in BOOLEAN
  /\ handle \in [Clients -> {"strong", "weak", "temp", "none"}]
  /\ pc \in [Clients -> {"idle", "check", "push", "reply", "stopped"}]
  /\ op \in [Clients -> Operation]
  /\ mid \in [Clients -> 0 .. MaxMsgs]
  /\ ret \in [Clients -> Results]

\* EventLoop::from_channel, then the loop is spawned and its address handed out.
Init ==
  /\ phase = "starting" /\ todo = <<>> /\ hooks = "new"
  /\ queue = <<>> /\ closed = FALSE
  /\ sent = 0
  /\ load = [i \in Ids |-> "none"]
  /\ fate = [i \in Ids |-> "unsent"]
  /\ cur = 0
  /\ flag = TRUE /\ notified = FALSE
  /\ handle = InitHandle
  /\ pc = [c \in Clients |-> "idle"]
  /\ op = [c \in Clients |-> NoOp]
  /\ mid = [c \in Clients |-> 0]
  /\ ret = [c \in Clients |-> "none"]

-----------------------------------------------------------------------------
(* The mailbox                                                             *)

IsStrong(h) == h \in {"strong", "temp"}

\* Mutants: upgraded handles do not count; the channel never closes.
Mut_ClosedBy_strong(handles) == closed \/ \A c \in Clients : handles[c] # "strong"
Mut_ClosedBy_never(handles) == closed

\* The channel closes with its last sender; it never reopens.
ClosedBy(handles) == closed \/ \A c \in Clients : ~IsStrong(handles[c])

\* A payload enters the mailbox; `forced` may push the oldest one out.
Accept(ld, forced) ==
  LET lost == IF forced THEN Evicted(queue) ELSE {}
  IN /\ sent < MaxMsgs
     /\ sent' = sent + 1
     /\ load' = [load EXCEPT ![sent + 1] = ld]
     /\ fate' = [i \in Ids |-> IF i = sent + 1 THEN "queued"
                               ELSE IF i \in lost THEN "evicted" ELSE fate[i]]
     /\ queue' = IF forced THEN ForcePushed(queue, sent + 1) ELSE Append(queue, sent + 1)

\* BOUND: leaves an id for every operation that may still push one.
Room == sent + Cardinality({c \in Clients : pc[c] \in {"check", "push"}}) < MaxMsgs

-----------------------------------------------------------------------------
(* The clients                                                             *)

\* An operation of c ends with r.  An upgraded handle and a consumed address
\* are dropped with it, which may close the channel.
Return(c, r) ==
  /\ pc' = [pc EXCEPT ![c] = "idle"]
  /\ ret' = [ret EXCEPT ![c] = r]
  /\ op' = [op EXCEPT ![c] = NoOp]
  /\ mid' = [mid EXCEPT ![c] = 0]
  /\ handle' = [handle EXCEPT ![c] = CASE @ = "temp" -> "weak"
                                       [] @ = "strong" /\ op[c].consumes -> "none"
                                       [] OTHER -> @]
  /\ closed' = ClosedBy(handle')

Start(c, o) ==
  /\ pc' = [pc EXCEPT ![c] = IF o.push = "none" THEN "stopped" ELSE "check"]
  /\ op' = [op EXCEPT ![c] = o]
  /\ ret' = [ret EXCEPT ![c] = "none"]
  /\ UNCHANGED <<loopVars, boxVars, closed, mid>>

\* A holder of a strong handle invokes an operation.
Begin(c, o) ==
  /\ pc[c] = "idle" /\ handle[c] = "strong" /\ Room
  /\ o \in OpsOf[c]
  /\ Start(c, o)
  /\ UNCHANGED handle

\* A holder of a weak handle invokes one: WeakTx::upgrade comes first.
Upgrade(c, o) ==
  /\ pc[c] = "idle" /\ handle[c] = "weak" /\ Room
  /\ o \in OpsOf[c] \cap WeakOps
  /\ IF closed
       THEN /\ ret' = [ret EXCEPT ![c] = "ActorDropped"]
            /\ UNCHANGED <<loopVars, boxVars, closed, handle, pc, op, mid>>
       ELSE /\ handle' = [handle EXCEPT ![c] = "temp"]
            /\ Start(c, o)

\* Mutant: the flag would only be raised when started() has returned.
Mut_Check(c) ==
  /\ pc[c] = "check"
  /\ IF flag /\ hooks # "new"
       THEN /\ pc' = [pc EXCEPT ![c] = "push"]
            /\ UNCHANGED <<loopVars, boxVars, closed, handle, op, mid, ret>>
       ELSE Return(c, op[c].refused) /\ UNCHANGED <<loopVars, boxVars>>

\* `if self.core.stopped() { return Err(..) }`: a read, long before the push.
Check(c) ==
  /\ pc[c] = "check"
  /\ IF flag
       THEN /\ pc' = [pc EXCEPT ![c] = "push"]
            /\ UNCHANGED <<loopVars, boxVars, closed, handle, op, mid, ret>>
       ELSE Return(c, op[c].refused) /\ UNCHANGED <<loopVars, boxVars>>

\* try_send, send(..).await and force_send of async_channel.
Push(c) ==
  /\ pc[c] = "push"
  /\ \/ /\ closed \/ (op[c].push = "try" /\ Full(queue))
        /\ Return(c, op[c].refused)
        /\ UNCHANGED <<loopVars, boxVars>>
     \/ /\ ~closed
        /\ op[c].push = "force" \/ ~Full(queue)
        /\ Accept(op[c].load, op[c].push = "force")
        /\ UNCHANGED loopVars
        /\ IF op[c].then = "return"
             THEN Return(c, "Ok")
             ELSE /\ pc' = [pc EXCEPT ![c] = op[c].then]
                  /\ mid' = [mid EXCEPT ![c] = sent + 1]
                  /\ UNCHANGED <<closed, handle, op, ret>>

\* `response.await?`: the handler's answer, or Canceled when its sender is gone.
GetReply(c) ==
  /\ pc[c] = "reply" /\ fate[mid[c]] \in Settled
  /\ Return(c, IF fate[mid[c]] = "done" THEN "Ok" ELSE "Canceled")
  /\ UNCHANGED <<loopVars, boxVars>>

\* `addr.await`: the stop oneshot; StopNotifier always sends before it drops.
AwaitStopped(c) ==
  /\ pc[c] = "stopped" /\ notified
  /\ Return(c, "Ok")
  /\ UNCHANGED <<loopVars, boxVars>>

DropHandle(c) ==
  /\ pc[c] = "idle" /\ handle[c] \in {"strong", "weak"}
  /\ handle' = [handle EXCEPT ![c] = "none"]
  /\ closed' = ClosedBy(handle')
  /\ UNCHANGED <<loopVars, boxVars, pc, op, mid, ret>>

\* Mutant: the weak handle keeps a sender of its own.
Mut_KeepUpgrade(c) ==
  /\ pc[c] = "idle" /\ handle[c] = "weak"
  /\ handle' = [handle EXCEPT ![c] = "strong"]
  /\ UNCHANGED <<loopVars, boxVars, closed, pc, op, mid, ret>>

\* WeakAddr::upgrade, WeakSender::upgrade, WeakCaller::upgrade by a client that
\* keeps what it gets.
KeepUpgrade(c) ==
  /\ pc[c] = "idle" /\ handle[c] = "weak" /\ ~closed
  /\ handle' = [handle EXCEPT ![c] = "strong"]
  /\ UNCHANGED <<loopVars, boxVars, closed, pc, op, mid, ret>>

\* Clone, Addr::sender, caller, downgrade, weak_sender and weak_caller: a client
\* hands a handle made from its own to one that has none.  Weak handles only
\* make weak ones.
Share(c, d, h) ==
  /\ pc[c] = "idle" /\ handle[c] \in {h, "strong"} /\ h \in {"strong", "weak"}
  /\ handle[d] = "none"
  /\ handle' = [handle EXCEPT ![d] = h]
  /\ UNCHANGED <<loopVars, boxVars, closed, pc, op, mid, ret>>

\* Addr::downgrade and Sender::downgrade by a client that keeps only the result.
Downgrade(c) ==
  /\ pc[c] = "idle" /\ handle[c] = "strong"
  /\ handle' = [handle EXCEPT ![c] = "weak"]
  /\ closed' = ClosedBy(handle')
  /\ UNCHANGED <<loopVars, boxVars, pc, op, mid, ret>>

\* What a client does with its handle outside of operations.
HandleStep(c) ==
  \/ DropHandle(c) \/ KeepUpgrade(c) \/ Downgrade(c)
  \/ \E d \in Clients, h \in {"strong", "weak"} : Share(c, d, h)

\* What a client that has begun an operation does next.
ClientStep(c) == Check(c) \/ Push(c) \/ GetReply(c) \/ AwaitStopped(c)

-----------------------------------------------------------------------------
(* The event loop                                                          *)

\* Mutants: wake before the flag is down; never wake.
Mut_FinishOrder_wakeFirst == <<"notify", "flag", "close">>
Mut_FinishOrder_silent    == <<"flag", "close">>

\* EventLoop::create past its while loop: notify() stores the flag, then fires
\* the oneshot; the receiver, a local of the future, goes last and closes the
\* channel.
FinishOrder == <<"flag", "notify", "close">>

\* Mutant: the receiver outlives the loop.
Mut_UnwindOrder == <<"flag", "notify">>

\* A panic or an error return drops the locals innermost first: the receiver,
\* then the loop's own fields, whose StopNotifier notifies when dropped.
UnwindOrder == <<"close", "flag", "notify">>

Leave(order) == phase' = "teardown" /\ todo' = order

SettleCur(f) == fate' = [fate EXCEPT ![cur] = f] /\ cur' = 0

\* started() returned Ok: the loop begins to receive.
StartedOk ==
  /\ phase = "starting"
  /\ phase' = "waiting" /\ hooks' = "up"
  /\ UNCHANGED <<todo, cur, flag, notified, boxVars, closed, clientVars>>

\* Mutant: the missing `?`.
Mut_StartedFails ==
  /\ phase = "starting" /\ UserFails
  /\ phase' = "waiting"
  /\ UNCHANGED <<todo, hooks, cur, flag, notified, boxVars, closed, clientVars>>

\* started() returned Err or panicked.  The receiver is not yet a local of the
\* loop but a captured field declared after the notifier, and is dropped last.
StartedFails ==
  /\ phase = "starting" /\ UserFails
  /\ Leave(FinishOrder)
  /\ UNCHANGED <<hooks, cur, flag, notified, boxVars, closed, clientVars>>

\* rx.next() yields the oldest payload.  After the channel is closed it still
\* yields what was accepted before.
Begun(m, where) == phase' = where /\ cur' = m /\ fate' = [fate EXCEPT ![m] = "running"]
Stopping(m, where) == phase' = where /\ cur' = 0 /\ fate' = [fate EXCEPT ![m] = "done"]

Dispatch(m, stopAt) ==
  \/ load[m] \in {"task", "ping"} /\ Begun(m, "handling")
  \/ load[m] = "restart" /\ Begun(m, "resetting")
  \/ load[m] = "stop" /\ Stopping(m, stopAt)

\* Mutants: a stop is only heeded when nothing is behind it; a stop is ignored.
Mut_Receive_drain ==
  /\ phase = "waiting" /\ queue # <<>>
  /\ queue' = Tail(queue)
  /\ Dispatch(Head(queue), IF Len(queue) = 1 THEN "stopping" ELSE "waiting")
  /\ UNCHANGED <<todo, hooks, flag, notified, sent, load, closed, clientVars>>
Mut_Receive_ignore ==
  /\ phase = "waiting" /\ queue # <<>>
  /\ queue' = Tail(queue)
  /\ Dispatch(Head(queue), "waiting")
  /\ UNCHANGED <<todo, hooks, flag, notified, sent, load, closed, clientVars>>

Receive ==
  /\ phase = "waiting" /\ queue # <<>>
  /\ queue' = Tail(queue)
  /\ Dispatch(Head(queue), "stopping")
  /\ UNCHANGED <<todo, hooks, flag, notified, sent, load, closed, clientVars>>

\* Mutant: a closed channel ends the loop at once.
Mut_ReceiveClosed_atOnce ==
  /\ phase = "waiting" /\ closed
  /\ phase' = "stopping"
  /\ UNCHANGED <<todo, hooks, cur, flag, notified, boxVars, closed, clientVars>>

\* rx.next() yields None: closed and drained.
ReceiveClosed ==
  /\ phase = "waiting" /\ queue = <<>> /\ closed
  /\ phase' = "stopping"
  /\ UNCHANGED <<todo, hooks, cur, flag, notified, boxVars, closed, clientVars>>

HandlerDone ==
  /\ phase = "handling"
  /\ SettleCur("done") /\ phase' = "waiting"
  /\ UNCHANGED <<todo, hooks, flag, notified, queue, sent, load, closed, clientVars>>

\* A panic in a handler takes the whole loop down.
HandlerPanics ==
  /\ phase = "handling" /\ UserFails /\ load[cur] = "task"
  /\ SettleCur("aborted") /\ Leave(UnwindOrder)
  /\ UNCHANGED <<hooks, flag, notified, queue, sent, load, closed, clientVars>>

\* timeout_fut returned Err: the handler is dropped where it is suspended.
HandlerTimesOut ==
  /\ phase = "handling" /\ load[cur] = "task" /\ HasTimeout
  /\ SettleCur("aborted")
  /\ phase' = IF FailOnTimeout THEN "cancelling" ELSE "waiting"
  /\ UNCHANGED <<todo, hooks, flag, notified, queue, sent, load, closed, clientVars>>

\* cancelled() returned or panicked, and the loop returns the timeout's error.
CancelledReturns ==
  /\ phase = "cancelling"
  /\ Leave(UnwindOrder)
  /\ UNCHANGED <<hooks, cur, flag, notified, boxVars, closed, clientVars>>

\* RestartStrategy::refresh of RestartOnly and RecreateFromDefault: stopped()
\* runs on the old instance, then started() on it or on a default one.
RefreshStopped ==
  /\ phase = "resetting"
  /\ phase' = "restarting" /\ hooks' = "down"
  /\ UNCHANGED <<todo, cur, flag, notified, boxVars, closed, clientVars>>

RefreshStarted ==
  /\ phase = "restarting"
  /\ phase' = "waiting" /\ hooks' = "up" /\ SettleCur("done")
  /\ UNCHANGED <<todo, flag, notified, queue, sent, load, closed, clientVars>>

\* stopped() panicked, or started() panicked or returned Err.
RefreshFails ==
  /\ phase \in {"resetting", "restarting"} /\ UserFails
  /\ SettleCur("aborted") /\ Leave(UnwindOrder)
  /\ UNCHANGED <<hooks, flag, notified, queue, sent, load, closed, clientVars>>

StoppedReturns ==
  /\ phase = "stopping"
  /\ hooks' = "down" /\ Leave(FinishOrder)
  /\ UNCHANGED <<cur, flag, notified, boxVars, closed, clientVars>>

StoppedPanics ==
  /\ phase = "stopping" /\ UserFails
  /\ Leave(UnwindOrder)
  /\ UNCHANGED <<hooks, cur, flag, notified, boxVars, closed, clientVars>>

\* One step of finishing or dropping the loop.
TeardownStep ==
  /\ phase = "teardown"
  /\ todo' = Tail(todo)
  /\ phase' = IF Len(todo) = 1 THEN "done" ELSE "teardown"
  /\ flag' = (flag /\ Head(todo) # "flag")
  /\ notified' = (notified \/ Head(todo) = "notify")
  /\ closed' = (closed \/ Head(todo) = "close")
  /\ UNCHANGED <<hooks, cur, boxVars, clientVars>>

\* Context::stop and Context::restart from a hook or handler: upgrade, force_send
\* and drop.  On a closed channel they return ActorDropped and change nothing.
CtxPush(ld) ==
  /\ phase \in Hooks /\ Room
  /\ phase = "handling" => load[cur] = "task"
  /\ ~closed
  /\ Accept(ld, TRUE)
  /\ UNCHANGED <<loopVars, closed, clientVars>>

LoopStep ==
  \/ StartedOk \/ StartedFails
  \/ Receive \/ ReceiveClosed
  \/ HandlerDone \/ HandlerPanics \/ HandlerTimesOut \/ CancelledReturns
  \/ RefreshStopped \/ RefreshStarted \/ RefreshFails
  \/ StoppedReturns \/ StoppedPanics
  \/ TeardownStep

Next ==
  \/ LoopStep
  \/ \E ld \in CtxLoads : CtxPush(ld)
  \/ \E c \in Clients :
       \/ \E o \in OpsOf[c] : Begin(c, o) \/ Upgrade(c, o)
       \/ ClientStep(c)
       \/ HandleStep(c)

\* The runtime keeps polling a task that is ready, and hooks and handlers end.
\* Nobody has to begin an operation or to drop a handle.
Fairness == WF_vars(LoopStep) /\ \A c \in Clients : WF_vars(ClientStep(c))

Spec == Init /\ [][Next]_vars /\ Fairness

-----------------------------------------------------------------------------
(* What the actor promises                                                 *)

Over  == phase \in {"teardown", "done"}
Taken == {"running", "done", "aborted"}
HeldBy(handles) == \E c \in Clients : IsStrong(handles[c])

\* Every accepted payload is in exactly one place: still in the mailbox, in the
\* hands of the loop, or settled for good.  Pushes with eviction, timeouts and
\* unwinding all move payloads between these places.
Accounted ==
  \A i \in Ids :
    /\ fate[i] = "unsent" <=> i > sent
    /\ fate[i] = "queued" <=> \E k \in DOMAIN queue : queue[k] = i
    /\ fate[i] = "running" <=> i = cur

\* Handlers run in the order the mailbox accepted their payloads, one at a time:
\* when a payload has been taken, every earlier one is settled.
OldestFirst ==
  \A i, j \in Ids : i < j /\ fate[j] \in Taken => fate[i] \in Settled

\* A stop that the loop has taken is a barrier: nothing accepted after it runs,
\* whatever is pushed while stopped() is still running.
StopIsBarrier ==
  \A s, j \in Ids : load[s] = "stop" /\ fate[s] = "done" /\ s < j => fate[j] \notin Taken

\* An address that sees the actor stopped, by the flag or by the notification,
\* never overlaps with a hook or handler, and the flag is down before anybody
\* is woken by the notification.
StopVisible ==
  /\ ~flag => Over /\ cur = 0
  /\ notified => ~flag

\* While the loop lives the mailbox is open exactly as long as somebody holds a
\* strong handle, upgraded ones included: no holder is refused for a closed
\* channel by a running actor, and weak handles do not prolong its life.
OpenWhileHeld == ~Over => (closed <=> ~HeldBy(handle))

\* Handlers, refresh and stopped() only run on an instance whose started()
\* succeeded and whose stopped() has not run since.
HooksBracket ==
  /\ phase \in {"waiting", "handling", "resetting", "stopping", "cancelling"} => hooks = "up"
  /\ phase = "restarting" => hooks = "down"

\* A settled payload stays what it became: no handler runs twice and no caller
\* sees an answer change.
FateIsFinal == [][\A i \in Ids : fate[i] \in Settled => fate'[i] = fate[i]]_vars

\* An error says what the error type documents: a refused operation met an actor
\* that is stopping or stopped, a failed upgrade a closed channel.
RefusalIsTrue ==
  \A c \in Clients :
    /\ ret[c] \in {"AlreadyStopped", "ChannelClosed"} => ~flag \/ closed
    /\ ret[c] = "ActorDropped" => closed

\* A stop that was accepted ends the actor: its notification eventually fires.
StopHonoured ==
  \A i \in Ids : (load[i] = "stop" /\ fate[i] = "queued") ~> notified

\* The actor stops after its last strong handle is gone, after draining.
LastDropStops == (~HeldBy(handle)) ~> notified

\* halt and try_halt return.
HaltReturns ==
  \A c \in Clients : (pc[c] = "stopped" /\ op[c] = Addr_halt) ~> (pc[c] = "idle")

\* A caller that waits for an answer gets one, or the actor stops.
CallAnsweredOrStopped ==
  \A c \in Clients : (pc[c] = "reply") ~> (pc[c] = "idle" \/ notified)

\* A caller that waits for an answer always gets one or an error.
CallResolves == \A c \in Clients : (pc[c] = "reply") ~> (pc[c] = "idle")

\* A sender that waits for room in the mailbox is not left waiting.
PushResolves == \A c \in Clients : (pc[c] = "push") ~> (pc[c] # "push")

\* Addresses are only notified after stopped() has completed.
NotifiedAfterStopped == notified => hooks = "down"

\* The loop ended by itself, not by a panic, an error or a timeout.
Orderly == hooks = "down" /\ \A i \in Ids : load[i] = "restart" => fate[i] # "aborted"

\* When an actor that ended in order has announced its end, every payload it left
\* in the mailbox was accepted behind the stop that ended it: dropping the last
\* address, or a stop from inside a handler, loses nothing accepted before.
DrainedBeforeStop ==
  notified /\ Orderly => \A i \in Ids : fate[i] = "queued" =>
                           \E s \in Ids : s < i /\ load[s] = "stop" /\ fate[s] = "done"
=============================================================================

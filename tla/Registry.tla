------------------------------ MODULE Registry ------------------------------
(***************************************************************************)
(* The services of one type (src/actor/service.rs): the entry the global   *)
(* registry holds for them, the lock around it, the tasks that look the    *)
(* service up, register, replace and unregister it, and the life of the    *)
(* instances they spawn.  An instance is an Actor on an unbounded mailbox, *)
(* of which only what the registry can meet is kept: the running flag, the *)
(* receiver, and the stops and pings in its mailbox.                       *)
(***************************************************************************)
EXTENDS Naturals, Sequences, FiniteSets

CONSTANTS
  Clients,         \* the tasks that use the service
  OpsOf,           \* the operations each may invoke
  MaxInst,         \* BOUND: instances spawned in a behaviour
  UserFails,       \* hooks may panic, started() may return Err
  StartedLooksUp,  \* started() looks another service up in the registry
  DebugAssertions  \* from_registry pings the instance it has spawned

Operations == {"from_registry", "try_from_registry", "spawn", "register", "replace",
               "unregister", "stop", "drop"}

ASSUME RegistryAssumption ==
  /\ MaxInst \in Nat
  /\ IsFiniteSet(Clients)
  /\ OpsOf \in [Clients -> SUBSET Operations]
  /\ UserFails \in BOOLEAN
  /\ StartedLooksUp \in BOOLEAN
  /\ DebugAssertions \in BOOLEAN

VARIABLES
  entry,     \* the instance whose address is in the registry, 0 for none
  life,      \* where each instance is
  box,       \* the pings and stops in its mailbox
  pc,        \* where each task is in its operation
  op,        \* the operation it is in
  has,       \* the instance whose address it holds, 0 for none
  asked,     \* HISTORY: instances that were told to stop or failed
  unlisted   \* HISTORY: instances spawned privately, replaced or unregistered

instVars   == <<life, box, asked>>
clientVars == <<pc, op, has>>
vars       == <<entry, instVars, clientVars, unlisted>>

Instances == 1 .. MaxInst
Lives == {"free", "starting", "up", "stopping", "flagdown", "unwound", "over"}

TypeOK ==
  /\ entry \in 0 .. MaxInst
  /\ life \in [Instances -> Lives]
  /\ box \in [Instances -> Seq({"ping", "stop"})]
  /\ pc \in [Clients -> {"idle", "lock", "body", "insert", "ping", "push", "await", "dead"}]
  /\ op \in [Clients -> Operations \cup {"none"}]
  /\ has \in [Clients -> 0 .. MaxInst]
  /\ asked \subseteq Instances
  /\ unlisted \subseteq Instances

Init ==
  /\ entry = 0
  /\ life = [i \in Instances |-> "free"]
  /\ box = [i \in Instances |-> <<>>]
  /\ pc = [c \in Clients |-> "idle"]
  /\ op = [c \in Clients |-> "none"]
  /\ has = [c \in Clients |-> 0]
  /\ asked = {} /\ unlisted = {}

-----------------------------------------------------------------------------
(* The instances                                                           *)

\* Addr::running: the flag is up from the moment the loop is created.
Running(i) == i # 0 /\ life[i] \in {"starting", "up", "stopping", "unwound"}

\* The receiver exists, so that a push succeeds, whether or not it is read again.
Receiving(i) == life[i] \in {"starting", "up", "stopping", "flagdown"}

\* Mutant: the registry holds a weak address.
Mut_Held(i) == \E c \in Clients : has[c] = i

Held(i) == entry = i \/ \E c \in Clients : has[c] = i

\* The next instance; ids are used in order.
Fresh(i) == life[i] = "free" /\ \A j \in Instances : j < i => life[j] # "free"

\* Mutants: the lock is dropped before the insertion, or kept until the ping is
\* answered.
Mut_HoldsLock_early(c) == pc[c] = "body"
Mut_HoldsLock(c) == pc[c] \in {"body", "insert", "ping", "push", "await"}

\* Who holds the registry's write lock.  No task waits for anything while it does.
HoldsLock(c) == pc[c] \in {"body", "insert"}

Locked == \E c \in Clients : HoldsLock(c)

\* started() returned Ok; what it looked up took the same lock.
Started(i) ==
  /\ life[i] = "starting"
  /\ StartedLooksUp => ~Locked
  /\ life' = [life EXCEPT ![i] = "up"]
  /\ UNCHANGED <<entry, box, asked, clientVars, unlisted>>

\* started() failed: the flag falls before the receiver is dropped.
StartFails(i) ==
  /\ life[i] = "starting" /\ UserFails
  /\ life' = [life EXCEPT ![i] = "flagdown"]
  /\ asked' = asked \cup {i}
  /\ UNCHANGED <<entry, box, clientVars, unlisted>>

\* The loop takes the next payload, or finds its channel closed and drained.
TakeStop(i) ==
  /\ life[i] = "up" /\ box[i] # <<>> /\ Head(box[i]) = "stop"
  /\ box' = [box EXCEPT ![i] = Tail(@)]
  /\ life' = [life EXCEPT ![i] = "stopping"]
  /\ UNCHANGED <<entry, asked, clientVars, unlisted>>

TakePing(i) ==
  /\ life[i] = "up" /\ box[i] # <<>> /\ Head(box[i]) = "ping"
  /\ box' = [box EXCEPT ![i] = Tail(@)]
  /\ pc' = [c \in Clients |-> IF pc[c] = "await" /\ has[c] = i THEN "idle" ELSE pc[c]]
  /\ op' = [c \in Clients |-> IF pc[c] = "await" /\ has[c] = i THEN "none" ELSE op[c]]
  /\ UNCHANGED <<entry, life, asked, has, unlisted>>

LastDropped(i) ==
  /\ life[i] = "up" /\ box[i] = <<>> /\ ~Held(i)
  /\ life' = [life EXCEPT ![i] = "stopping"]
  /\ UNCHANGED <<entry, box, asked, clientVars, unlisted>>

\* stopped() returned: the flag falls, then the receiver goes.
Stopped(i) ==
  /\ life[i] = "stopping"
  /\ life' = [life EXCEPT ![i] = "flagdown"]
  /\ UNCHANGED <<entry, box, asked, clientVars, unlisted>>

\* A handler or stopped() panicked: the receiver goes, then the flag falls.
Panics(i) ==
  /\ life[i] \in {"up", "stopping"} /\ UserFails
  /\ life' = [life EXCEPT ![i] = "unwound"]
  /\ asked' = asked \cup {i}
  /\ UNCHANGED <<entry, box, clientVars, unlisted>>

Ended(i) ==
  /\ life[i] \in {"flagdown", "unwound"}
  /\ life' = [life EXCEPT ![i] = "over"]
  /\ UNCHANGED <<entry, box, asked, clientVars, unlisted>>

InstanceStep(i) ==
  \/ Started(i) \/ StartFails(i)
  \/ TakeStop(i) \/ TakePing(i) \/ LastDropped(i)
  \/ Stopped(i) \/ Panics(i) \/ Ended(i)

-----------------------------------------------------------------------------
(* The tasks                                                               *)

\* BOUND: leaves an instance for every lookup that may still spawn one.
Room ==
  Cardinality({c \in Clients : pc[c] \in {"lock", "body"} /\ op[c] = "from_registry"})
    < Cardinality({i \in Instances : life[i] = "free"})

\* An operation that takes the write lock begins to wait for it.  The ones that
\* consume an address need one; the others are invoked by tasks that hold none.
Begin(c, o) ==
  /\ pc[c] = "idle" /\ o \in OpsOf[c]
  /\ \/ o = "from_registry" /\ has[c] = 0 /\ Room
     \/ o \in {"register", "replace"} /\ has[c] # 0
     \/ o = "unregister"
  /\ pc' = [pc EXCEPT ![c] = "lock"]
  /\ op' = [op EXCEPT ![c] = o]
  /\ UNCHANGED <<entry, instVars, has, unlisted>>

\* `REGISTRY.write().await`
Lock(c) ==
  /\ pc[c] = "lock" /\ ~Locked
  /\ pc' = [pc EXCEPT ![c] = "body"]
  /\ UNCHANGED <<entry, instVars, op, has, unlisted>>

\* The operation returns, unlocking the registry; c keeps the address of i.
ReturnWith(c, i) ==
  /\ pc' = [pc EXCEPT ![c] = "idle"]
  /\ has' = [has EXCEPT ![c] = i]
  /\ op' = [op EXCEPT ![c] = "none"]
  /\ UNCHANGED instVars

\* from_registry_and_spawn under the lock: the registered instance if its flag is
\* up, or else a new one, which runs before it is inserted.
FromRegistry(c) ==
  /\ pc[c] = "body" /\ op[c] = "from_registry"
  /\ \/ /\ Running(entry)
        /\ ReturnWith(c, entry)
        /\ UNCHANGED <<entry, unlisted>>
     \/ /\ ~Running(entry)
        /\ \E i \in Instances :
             /\ Fresh(i)
             /\ life' = [life EXCEPT ![i] = "starting"]
             /\ has' = [has EXCEPT ![c] = i]
        /\ pc' = [pc EXCEPT ![c] = "insert"]
        /\ UNCHANGED <<entry, box, asked, op, unlisted>>

\* `registry.insert(..); drop(registry)`
Insert(c) ==
  /\ pc[c] = "insert"
  /\ entry' = has[c]
  /\ pc' = [pc EXCEPT ![c] = IF DebugAssertions THEN "ping" ELSE "idle"]
  /\ op' = [op EXCEPT ![c] = IF DebugAssertions THEN @ ELSE "none"]
  /\ UNCHANGED <<instVars, has, unlisted>>

\* `debug_assert!(addr.ping().await.is_ok())`: a read of the flag, a push, and
\* an answer.  The assertion fails with the ping.
AssertFails(c) ==
  /\ pc' = [pc EXCEPT ![c] = "dead"]
  /\ op' = [op EXCEPT ![c] = "none"]
  /\ has' = [has EXCEPT ![c] = 0]
  /\ UNCHANGED <<entry, instVars, unlisted>>

PingCheck(c) ==
  /\ pc[c] = "ping"
  /\ \/ /\ Running(has[c])
        /\ pc' = [pc EXCEPT ![c] = "push"]
        /\ UNCHANGED <<entry, instVars, op, has, unlisted>>
     \/ ~Running(has[c]) /\ AssertFails(c)

PingPush(c) ==
  /\ pc[c] = "push"
  /\ \/ /\ Receiving(has[c])
        /\ box' = [box EXCEPT ![has[c]] = Append(@, "ping")]
        /\ pc' = [pc EXCEPT ![c] = "await"]
        /\ UNCHANGED <<entry, life, asked, op, has, unlisted>>
     \/ ~Receiving(has[c]) /\ AssertFails(c)

\* Mutant: a registered service is replaced whether it runs or not.
Mut_Register(c) ==
  /\ pc[c] = "body" /\ op[c] = "register"
  /\ entry' = has[c]
  /\ unlisted' = unlisted \ {has[c]}
  /\ ReturnWith(c, has[c])

\* Addr::register: refused while the registered instance runs, and then the
\* address is dropped with the error.
Register(c) ==
  /\ pc[c] = "body" /\ op[c] = "register"
  /\ \/ /\ Running(entry)
        /\ ReturnWith(c, 0)
        /\ UNCHANGED <<entry, unlisted>>
     \/ /\ ~Running(entry)
        /\ entry' = has[c]
        /\ unlisted' = unlisted \ {has[c]}
        /\ ReturnWith(c, has[c])

\* Addr::replace: the address goes into the registry, the old one is returned.
Replace(c) ==
  /\ pc[c] = "body" /\ op[c] = "replace"
  /\ entry' = has[c]
  /\ unlisted' = (unlisted \cup ({entry} \ {0})) \ {has[c]}
  /\ ReturnWith(c, entry)

\* Addr::unregister and Service::unregister: the entry, whichever instance it
\* names, is taken out and returned.
Unregister(c) ==
  /\ pc[c] = "body" /\ op[c] = "unregister"
  /\ entry' = 0
  /\ unlisted' = unlisted \cup ({entry} \ {0})
  /\ ReturnWith(c, entry)

\* try_from_registry where it finds the service; when a writer holds the lock, or
\* the service has stopped, it returns None and changes nothing.
TryFromRegistry(c) ==
  /\ pc[c] = "idle" /\ has[c] = 0 /\ "try_from_registry" \in OpsOf[c]
  /\ ~Locked /\ Running(entry)
  /\ has' = [has EXCEPT ![c] = entry]
  /\ UNCHANGED <<entry, instVars, pc, op, unlisted>>

\* Spawnable::spawn: an instance the registry does not know.
Spawn(c) ==
  /\ pc[c] = "idle" /\ has[c] = 0 /\ "spawn" \in OpsOf[c] /\ Room
  /\ \E i \in Instances :
       /\ Fresh(i)
       /\ life' = [life EXCEPT ![i] = "starting"]
       /\ has' = [has EXCEPT ![c] = i]
       /\ unlisted' = unlisted \cup {i}
  /\ UNCHANGED <<entry, box, asked, pc, op>>

\* Addr::stop by whoever holds an address.  BOUND: one stop per instance.
Stop(c) ==
  /\ pc[c] = "idle" /\ Running(has[c]) /\ "stop" \in OpsOf[c]
  /\ has[c] \notin asked
  /\ Receiving(has[c])
  /\ box' = [box EXCEPT ![has[c]] = Append(@, "stop")]
  /\ asked' = asked \cup {has[c]}
  /\ UNCHANGED <<entry, life, clientVars, unlisted>>

Drop(c) ==
  /\ pc[c] = "idle" /\ has[c] # 0 /\ "drop" \in OpsOf[c]
  /\ has' = [has EXCEPT ![c] = 0]
  /\ UNCHANGED <<entry, instVars, pc, op, unlisted>>

\* What a task in an operation does next.
Proceed(c) ==
  \/ FromRegistry(c) \/ Insert(c) \/ PingCheck(c) \/ PingPush(c)
  \/ Register(c) \/ Replace(c) \/ Unregister(c)

Next ==
  \/ \E i \in Instances : InstanceStep(i)
  \/ \E c \in Clients :
       \/ \E o \in {"from_registry", "register", "replace", "unregister"} : Begin(c, o)
       \/ Lock(c) \/ Proceed(c)
       \/ TryFromRegistry(c) \/ Spawn(c) \/ Stop(c) \/ Drop(c)

\* Ready tasks are polled, hooks return, and async_lock starves no writer.
Fairness ==
  /\ \A i \in Instances : WF_vars(InstanceStep(i)) /\ SF_vars(Started(i))
  /\ \A c \in Clients : WF_vars(Proceed(c)) /\ SF_vars(Lock(c))

Spec == Init /\ [][Next]_vars /\ Fairness

-----------------------------------------------------------------------------
(* What the registry promises                                              *)

\* The service is one: every running instance is the registered one or about to
\* be, or was spawned, replaced or unregistered on purpose.
OneService ==
  \A i \in Instances : Running(i) =>
    i = entry \/ i \in unlisted \/ \E c \in Clients : pc[c] = "insert" /\ has[c] = i

\* The registry keeps its service alive: a registered instance only ends when
\* somebody stopped it or it failed, however many addresses are dropped.
ListedLives == \A i \in Instances : i = entry /\ ~Running(i) => i \in asked

\* A task in a lookup or a registration gets out of it, or its instance ends.
LookupResolves ==
  \A c \in Clients :
    (pc[c] # "idle") ~> (pc[c] \in {"idle", "dead"} \/ (has[c] # 0 /\ ~Running(has[c])))

\* What the slot lists: an instance that waits under the lock to be inserted is
\* the service from the moment it was spawned.
Listed ==
  IF \E c \in Clients : pc[c] = "insert"
    THEN has[CHOOSE c \in Clients : pc[c] = "insert"]
    ELSE entry

Created == {i \in Instances : life[i] # "free"}
Alive   == {i \in Instances : Running(i)}

S == INSTANCE Slot WITH
       Users   <- Clients,
       listed  <- Listed,
       spawned <- Created,
       running <- Alive,
       told    <- asked,
       holds   <- has

\* Every operation on the registry takes effect at one point: what its steps do
\* between waiting for the lock and returning is one step of the slot or none.
ImplementsSlot == S!SlotSpec

L(i) == INSTANCE Lifecycle WITH life <- life[i], told <- i \in asked, held <- Held(i)

\* The instances live as every actor does (Actor implements the same life): an
\* instance that was let go of is never found again.
InstancesLive ==
  /\ \A i \in Instances : L(i)!LifeInit
  /\ [][\A i \in Instances : L(i)!LifeNext \/ UNCHANGED L(i)!lifeVars]_vars

\* The assertion of from_registry: the instance it has spawned answers its ping.
ServiceAnswersPing == \A c \in Clients : pc[c] # "dead"
=============================================================================

--------------------------- MODULE RegistryProofs ---------------------------
(***************************************************************************)
(* Theorems about Registry, for any tasks, operations and number of        *)
(* instances: there is one service, and the registry keeps it alive.       *)
(***************************************************************************)
EXTENDS Registry, SequenceTheorems, TLAPS

In(x, s) == \E k \in DOMAIN s : s[k] = x

\* What Append and Tail do to the members of a mailbox.
LEMMA BoxFacts ==
  ASSUME NEW V, NEW s \in Seq(V), NEW x \in V
  PROVE  /\ Append(s, x) \in Seq(V)
         /\ \A y : In(y, Append(s, x)) => In(y, s) \/ y = x
         /\ s # <<>> => Tail(s) \in Seq(V) /\ In(Head(s), s)
         /\ s # <<>> => \A y : In(y, Tail(s)) => In(y, s)
<1>1. /\ Append(s, x) \in Seq(V) /\ DOMAIN s = 1 .. Len(s) /\ Len(s) \in Nat
      /\ DOMAIN Append(s, x) = 1 .. Len(Append(s, x)) /\ Len(Append(s, x)) = Len(s) + 1
      /\ \A k \in 1 .. Len(s) : Append(s, x)[k] = s[k]
      /\ Append(s, x)[Len(s) + 1] = x
  BY AppendProperties, LenProperties
<1>2. \A y : In(y, Append(s, x)) => In(y, s) \/ y = x
  BY <1>1 DEF In
<1>3. ASSUME s # <<>>
      PROVE  /\ Tail(s) \in Seq(V) /\ In(Head(s), s)
             /\ \A y : In(y, Tail(s)) => In(y, s)
  <2>1. /\ Tail(s) \in Seq(V) /\ Len(Tail(s)) = Len(s) - 1 /\ Len(s) # 0
        /\ \A k \in 1 .. Len(Tail(s)) : Tail(s)[k] = s[k + 1]
    BY <1>3, HeadTailProperties, EmptySeq
  <2>2. DOMAIN Tail(s) = 1 .. Len(Tail(s)) /\ Head(s) = s[1]
    BY <2>1, LenProperties
  <2> QED BY <1>1, <2>1, <2>2 DEF In
<1> QED BY <1>1, <1>2, <1>3

-----------------------------------------------------------------------------
(* The invariant                                                           *)

\* One writer at a time, and an address always names an instance that exists.
Exclusive == \A c, d \in Clients : HoldsLock(c) /\ HoldsLock(d) => c = d

Known ==
  /\ entry # 0 => life[entry] # "free"
  /\ \A c \in Clients : has[c] # 0 => life[has[c]] # "free"

\* An instance is only inserted over one that has stopped.
Inserting ==
  \A c \in Clients : pc[c] \in {"insert", "ping", "push", "await"} =>
    /\ has[c] # 0
    /\ pc[c] = "insert" => ~Running(entry)

\* A task that looks the service up holds no address of it yet; one that offers
\* its own holds it until then.
LookingUp ==
  \A c \in Clients : pc[c] \in {"lock", "body"} =>
    /\ op[c] = "from_registry" => has[c] = 0
    /\ op[c] \in {"register", "replace"} => has[c] # 0

\* A stop in the mailbox was pushed by somebody, and an instance that ends for no
\* such reason has nobody left who holds it.
Ends ==
  \A i \in Instances :
    /\ In("stop", box[i]) => i \in asked
    /\ life[i] \in {"stopping", "flagdown", "unwound", "over"} /\ i \notin asked => ~Held(i)

Inv == TypeOK /\ Exclusive /\ Known /\ Inserting /\ LookingUp /\ Ends /\ OneService

LEMMA Bounds ==
  /\ MaxInst \in Nat /\ 0 \in 0 .. MaxInst
  /\ Instances \subseteq 0 .. MaxInst
  /\ \A i \in 0 .. MaxInst : i # 0 => i \in Instances
  /\ \A i \in Instances : i # 0
  BY RegistryAssumption DEF Instances

LEMMA InvInit == Init => Inv
<1> SUFFICES ASSUME Init PROVE Inv
  OBVIOUS
<1>1. TypeOK
  BY Bounds, EmptySeq DEF Init, TypeOK, Lives
<1>2. \A i \in Instances : box[i] = <<>> /\ life[i] = "free" /\ ~Running(i)
  BY DEF Init, Running
<1>3. \A i \in Instances : ~In("stop", box[i])
  BY <1>2, EmptySeq DEF In
<1>4. \A c \in Clients : pc[c] = "idle" /\ has[c] = 0
  BY DEF Init
<1> QED
  BY <1>1, <1>2, <1>3, <1>4 DEF Init, Inv, Exclusive, HoldsLock, Known, Inserting, LookingUp,
     Ends, OneService

-----------------------------------------------------------------------------
(* The instances                                                           *)

\* A step of an instance moves no address and no lock.
LEMMA InstanceType ==
  ASSUME Inv, NEW i \in Instances, InstanceStep(i)
  PROVE  TypeOK'
<1>1. box' \in [Instances -> Seq({"ping", "stop"})]
  <2>1. box[i] # <<>> => Tail(box[i]) \in Seq({"ping", "stop"})
    BY BoxFacts DEF Inv, TypeOK
  <2> QED BY <2>1 DEF InstanceStep, Started, StartFails, TakeStop, TakePing, LastDropped, Stopped,
               Panics, Ended, Inv, TypeOK
<1>2. /\ pc' \in [Clients -> {"idle", "lock", "body", "insert", "ping", "push", "await", "dead"}]
      /\ op' \in [Clients -> Operations \cup {"none"}]
  BY DEF InstanceStep, Started, StartFails, TakeStop, TakePing, LastDropped, Stopped,
     Panics, Ended, clientVars, Inv, TypeOK
<1>3. life' \in [Instances -> Lives] /\ asked' \subseteq Instances
  BY DEF InstanceStep, Started, StartFails, TakeStop, TakePing, LastDropped, Stopped,
     Panics, Ended, Inv, TypeOK, Lives
<1> QED
  BY <1>1, <1>2, <1>3 DEF InstanceStep, Started, StartFails, TakeStop, TakePing, LastDropped,
     Stopped, Panics, Ended, clientVars, Inv, TypeOK

\* It leaves entry, addresses and the pending operations as they are; a ping that
\* is answered ends its lookup.  Its flag never rises.
LEMMA InstanceFrame ==
  ASSUME Inv, NEW i \in Instances, InstanceStep(i)
  PROVE  /\ UNCHANGED <<entry, has, unlisted>> /\ asked \subseteq asked'
         /\ \A c \in Clients : (pc'[c] = pc[c] /\ op'[c] = op[c]) \/ pc'[c] = "idle"
         /\ \A j \in Instances : /\ life[j] = "free" <=> life'[j] = "free"
                                 /\ Running(j)' => Running(j)
<1>1. /\ UNCHANGED <<entry, has, unlisted>> /\ asked \subseteq asked'
      /\ \A c \in Clients : (pc'[c] = pc[c] /\ op'[c] = op[c]) \/ pc'[c] = "idle"
  BY DEF InstanceStep, Started, StartFails, TakeStop, TakePing, LastDropped, Stopped,
     Panics, Ended, clientVars, Inv, TypeOK
<1>2. \A j \in Instances : life'[j] = life[j] \/ j = i
  BY DEF InstanceStep, Started, StartFails, TakeStop, TakePing, LastDropped, Stopped,
     Panics, Ended, Inv, TypeOK
<1>3. /\ life[i] # "free" /\ life'[i] # "free"
      /\ life'[i] \in {"starting", "up", "stopping", "unwound"} =>
           life[i] \in {"starting", "up", "stopping", "unwound"}
  BY DEF InstanceStep, Started, StartFails, TakeStop, TakePing, LastDropped, Stopped,
     Panics, Ended, Inv, TypeOK
<1> QED
  BY <1>1, <1>2, <1>3, Bounds DEF Running

LEMMA InstanceEnds ==
  ASSUME Inv, NEW i \in Instances, InstanceStep(i)
  PROVE  Ends'
<1>1. \A j \in Instances : Held(j)' <=> Held(j)
  BY InstanceFrame DEF Held
<1>2. ASSUME NEW j \in Instances, In("stop", box'[j]) PROVE j \in asked'
  <2>1. In("stop", box[j])
    <3>1. CASE box' = box
      BY <1>2, <3>1
    <3>2. CASE box[i] # <<>> /\ box' = [box EXCEPT ![i] = Tail(@)]
      <4>1. In("stop", Tail(box[i])) => In("stop", box[i])
        BY <3>2, BoxFacts DEF Inv, TypeOK
      <4> QED BY <1>2, <3>2, <4>1 DEF Inv, TypeOK
    <3> QED BY <3>1, <3>2 DEF InstanceStep, Started, StartFails, TakeStop, TakePing, LastDropped,
                 Stopped, Panics, Ended
  <2> QED BY <2>1, InstanceFrame DEF Inv, Ends
<1>3. ASSUME NEW j \in Instances, j \notin asked',
             life'[j] \in {"stopping", "flagdown", "unwound", "over"}
      PROVE  ~Held(j)
  <2>1. j \notin asked
    BY <1>3, InstanceFrame
  <2>2. CASE life[j] \in {"stopping", "flagdown", "unwound", "over"}
    BY <2>1, <2>2 DEF Inv, Ends
  <2>3. CASE life[j] \notin {"stopping", "flagdown", "unwound", "over"}
    <3>1. j = i /\ life'[i] # life[i]
      BY <1>3, <2>3 DEF InstanceStep, Started, StartFails, TakeStop, TakePing, LastDropped, Stopped,
         Panics, Ended, Inv, TypeOK
    <3>2. CASE TakeStop(i)
      <4>1. In("stop", box[i])
        BY <3>2, BoxFacts DEF TakeStop, Inv, TypeOK
      <4> QED BY <2>1, <3>1, <4>1 DEF Inv, Ends
    <3>3. CASE LastDropped(i)
      BY <3>1, <3>3 DEF LastDropped
    <3>4. CASE Started(i) \/ StartFails(i) \/ TakePing(i) \/ Stopped(i) \/ Panics(i) \/ Ended(i)
      BY <1>3, <2>3, <3>1, <3>4 DEF Started, StartFails, TakePing, Stopped, Panics, Ended, Inv, TypeOK
    <3> QED BY <3>2, <3>3, <3>4 DEF InstanceStep
  <2> QED BY <2>2, <2>3
<1> QED BY <1>1, <1>2, <1>3 DEF Ends

LEMMA InstanceInv ==
  ASSUME Inv, NEW i \in Instances, InstanceStep(i)
  PROVE  Inv'
<1>1. TypeOK' /\ Ends'
  BY InstanceType, InstanceEnds
<1>2. Exclusive'
  BY InstanceFrame DEF Inv, Exclusive, HoldsLock
<1>3. Known'
  BY InstanceFrame, Bounds DEF Inv, TypeOK, Known
<1>4. ~Running(entry) => ~Running(entry)'
  BY InstanceFrame, Bounds DEF Inv, TypeOK, Running
<1>5. Inserting' /\ LookingUp'
  BY <1>4, InstanceFrame DEF Inv, Inserting, LookingUp
<1>6. OneService'
  <2>1. \A c \in Clients : pc[c] = "insert" => pc'[c] = "insert"
    BY DEF InstanceStep, Started, StartFails, TakeStop, TakePing, LastDropped, Stopped,
       Panics, Ended, clientVars, Inv, TypeOK
  <2> QED BY <2>1, InstanceFrame DEF Inv, OneService
<1> QED BY <1>1, <1>2, <1>3, <1>5, <1>6 DEF Inv

-----------------------------------------------------------------------------
(* The tasks                                                               *)

\* A task that waits for the lock, or takes it.
LEMMA BeginInv ==
  ASSUME Inv, NEW c \in Clients, NEW o \in Operations \ {"none"}, Begin(c, o) \/ Lock(c)
  PROVE  Inv'
<1>1. TypeOK'
  BY DEF Begin, Lock, instVars, Inv, TypeOK
<1>2. Exclusive'
  BY DEF Begin, Lock, Locked, HoldsLock, Inv, TypeOK, Exclusive
<1>3. Inserting'
  BY DEF Begin, Lock, instVars, Inv, TypeOK, Inserting, Running
<1>4. LookingUp'
  BY DEF Begin, Lock, Inv, TypeOK, LookingUp
<1>5. Known' /\ Ends'
  BY DEF Begin, Lock, instVars, Inv, TypeOK, Known, Ends, Held
<1>6. OneService'
  BY DEF Begin, Lock, instVars, Inv, TypeOK, OneService, Running
<1> QED BY <1>1, <1>2, <1>3, <1>4, <1>5, <1>6 DEF Inv

\* An instance is spawned: nobody holds it yet, and it is the only one that starts.
LEMMA SpawnFacts ==
  ASSUME Inv, NEW c \in Clients, NEW i \in Instances, Fresh(i), has[c] = 0,
         life' = [life EXCEPT ![i] = "starting"], has' = [has EXCEPT ![c] = i],
         UNCHANGED <<entry, box, asked>>
  PROVE  /\ life' \in [Instances -> Lives] /\ has' \in [Clients -> 0 .. MaxInst]
         /\ ~Held(i) /\ Known' /\ Ends'
         /\ \A j \in Instances \ {i} : Running(j)' <=> Running(j)
         /\ Running(entry)' <=> Running(entry)
<1>1. life[i] = "free" /\ i # 0 /\ i \in 0 .. MaxInst
  <2>1. life[i] = "free"
    BY DEF Fresh
  <2> QED BY <2>1, Bounds
<1>2. life' \in [Instances -> Lives] /\ has' \in [Clients -> 0 .. MaxInst]
  BY <1>1 DEF Inv, TypeOK, Lives
<1>3. ~Held(i)
  BY <1>1 DEF Held, Inv, Known
<1>4. Known'
  BY <1>1, <1>3, Bounds DEF Inv, TypeOK, Known, Held
<1>5. Ends'
  <2>1. \A j \in Instances : j # i => (Held(j)' <=> Held(j))
    BY <1>1, Bounds DEF Held, Inv, TypeOK
  <2> QED BY <1>1, <2>1 DEF Ends, Inv, TypeOK
<1>6. \A j \in Instances \ {i} : Running(j)' <=> Running(j)
  BY DEF Running, Inv, TypeOK
<1>7. Running(entry)' <=> Running(entry)
  BY <1>3, Bounds DEF Running, Held, Inv, TypeOK
<1> QED BY <1>2, <1>3, <1>4, <1>5, <1>6, <1>7

LEMMA SpawnInv ==
  ASSUME Inv, NEW c \in Clients, Spawn(c)
  PROVE  Inv'
<1> PICK i \in Instances : /\ Fresh(i)
                           /\ life' = [life EXCEPT ![i] = "starting"]
                           /\ has' = [has EXCEPT ![c] = i]
                           /\ unlisted' = unlisted \cup {i}
  BY DEF Spawn
<1>1. has[c] = 0 /\ UNCHANGED <<entry, box, asked, pc, op>> /\ pc[c] = "idle"
  BY DEF Spawn
<1>2. /\ life' \in [Instances -> Lives] /\ has' \in [Clients -> 0 .. MaxInst]
      /\ Known' /\ Ends'
      /\ \A j \in Instances \ {i} : Running(j)' <=> Running(j)
      /\ Running(entry)' <=> Running(entry)
  BY <1>1, SpawnFacts
<1>3. TypeOK' /\ Exclusive'
  BY <1>1, <1>2 DEF Inv, TypeOK, Exclusive, HoldsLock
<1>4. Inserting' /\ LookingUp'
  BY <1>1, <1>2 DEF Inv, TypeOK, Inserting, LookingUp
<1>5. OneService'
  BY <1>1, <1>2 DEF Inv, TypeOK, OneService
<1> QED BY <1>2, <1>3, <1>4, <1>5 DEF Inv

LEMMA FromRegistryInv ==
  ASSUME Inv, NEW c \in Clients, FromRegistry(c)
  PROVE  Inv'
<1>1. CASE /\ Running(entry) /\ ReturnWith(c, entry) /\ UNCHANGED <<entry, unlisted>>
  <2>1. TypeOK' /\ Exclusive'
    BY <1>1 DEF ReturnWith, instVars, Inv, TypeOK, Exclusive, HoldsLock
  <2>2. Known' /\ Inserting' /\ LookingUp'
    BY <1>1 DEF ReturnWith, instVars, Inv, TypeOK, Known, Inserting, LookingUp, Running
  <2>3. Ends'
    <3>1. \A j \in Instances : Held(j)' => Held(j)
      BY <1>1 DEF ReturnWith, Held, Inv, TypeOK
    <3> QED BY <1>1, <3>1 DEF ReturnWith, instVars, Ends, Inv
  <2>4. OneService'
    BY <1>1 DEF ReturnWith, instVars, FromRegistry, Inv, TypeOK, OneService, Running
  <2> QED BY <2>1, <2>2, <2>3, <2>4 DEF Inv
<1>2. CASE /\ ~Running(entry) /\ pc[c] = "body" /\ pc' = [pc EXCEPT ![c] = "insert"] /\ has[c] = 0
           /\ UNCHANGED <<entry, box, asked, op, unlisted>>
           /\ \E i \in Instances : /\ Fresh(i) /\ life' = [life EXCEPT ![i] = "starting"]
                                   /\ has' = [has EXCEPT ![c] = i]
  <2> PICK i \in Instances : /\ Fresh(i) /\ life' = [life EXCEPT ![i] = "starting"]
                             /\ has' = [has EXCEPT ![c] = i]
    BY <1>2
  <2>1. /\ life' \in [Instances -> Lives] /\ has' \in [Clients -> 0 .. MaxInst]
        /\ Known' /\ Ends' /\ i # 0
        /\ \A j \in Instances \ {i} : Running(j)' <=> Running(j)
        /\ ~Running(entry)'
    <3>1. /\ life' \in [Instances -> Lives] /\ has' \in [Clients -> 0 .. MaxInst]
          /\ Known' /\ Ends'
          /\ \A j \in Instances \ {i} : Running(j)' <=> Running(j)
          /\ Running(entry)' <=> Running(entry)
      BY <1>2, SpawnFacts
    <3> QED BY <1>2, <3>1, Bounds
  <2>2. TypeOK' /\ Exclusive'
    BY <1>2, <2>1 DEF Inv, TypeOK, Exclusive, HoldsLock
  <2>3. Inserting' /\ LookingUp'
    BY <1>2, <2>1 DEF Inv, TypeOK, Inserting, LookingUp
  <2>4. OneService'
    BY <1>2, <2>1 DEF Inv, TypeOK, OneService
  <2> QED BY <2>1, <2>2, <2>3, <2>4 DEF Inv
<1>3. pc[c] = "body" /\ has[c] = 0
  BY DEF FromRegistry, Inv, LookingUp
<1> QED BY <1>1, <1>2, <1>3 DEF FromRegistry

\* The new instance goes into the registry, over one that has stopped.
LEMMA InsertInv ==
  ASSUME Inv, NEW c \in Clients, Insert(c)
  PROVE  Inv'
<1>1. has[c] # 0 /\ ~Running(entry) /\ entry' = has[c] /\ pc'[c] \in {"ping", "idle"}
  BY DEF Insert, Inv, TypeOK, Inserting
<1>2. /\ UNCHANGED <<life, box, asked, has, unlisted>>
      /\ \A d \in Clients : d # c => pc'[d] = pc[d] /\ op'[d] = op[d]
  BY DEF Insert, instVars, Inv, TypeOK
<1>3. \A d \in Clients : d # c => pc[d] # "insert"
  BY DEF Insert, Inv, Exclusive, HoldsLock
<1>4. TypeOK'
  BY DEF Insert, instVars, Inv, TypeOK
<1>5. Exclusive' /\ Known' /\ Inserting' /\ LookingUp'
  BY <1>1, <1>2, <1>3 DEF Inv, Exclusive, HoldsLock, Known, Inserting, LookingUp
<1>6. Ends'
  <2>1. \A j \in Instances : Held(j)' => Held(j)
    BY <1>1, <1>2 DEF Held
  <2> QED BY <1>2, <2>1 DEF Ends, Inv
<1>7. OneService'
  BY <1>1, <1>2, <1>3 DEF Inv, OneService, Running
<1> QED BY <1>4, <1>5, <1>6, <1>7 DEF Inv

\* A ping touches neither the registry nor the instances' lives.
LEMMA PingInv ==
  ASSUME Inv, NEW c \in Clients, PingCheck(c) \/ PingPush(c)
  PROVE  Inv'
<1>1. CASE AssertFails(c) /\ pc[c] \in {"ping", "push"}
  <2>1. TypeOK' /\ Exclusive' /\ Known' /\ Inserting' /\ LookingUp'
    BY <1>1, Bounds DEF AssertFails, instVars, Inv, TypeOK, Exclusive, HoldsLock, Known, Inserting,
       LookingUp, Running
  <2>2. Ends'
    <3>1. \A j \in Instances : Held(j)' => Held(j)
      BY <1>1, Bounds DEF AssertFails, Held, Inv, TypeOK
    <3> QED BY <1>1, <3>1 DEF AssertFails, instVars, Ends, Inv
  <2>3. OneService'
    BY <1>1 DEF AssertFails, instVars, Inv, TypeOK, OneService, Running
  <2> QED BY <2>1, <2>2, <2>3 DEF Inv
<1>2. CASE /\ pc[c] \in {"ping", "push"}
           /\ \E w \in {"push", "await"} : pc' = [pc EXCEPT ![c] = w]
           /\ \/ box' = box
              \/ box' = [box EXCEPT ![has[c]] = Append(@, "ping")]
           /\ UNCHANGED <<entry, life, asked, op, has, unlisted>>
  <2>1. has[c] \in Instances
    BY <1>2, Bounds DEF Inv, TypeOK, Inserting
  <2>2. /\ Append(box[has[c]], "ping") \in Seq({"ping", "stop"})
        /\ In("stop", Append(box[has[c]], "ping")) => In("stop", box[has[c]])
    <3>1. box[has[c]] \in Seq({"ping", "stop"}) /\ "ping" \in {"ping", "stop"} /\ "stop" # "ping"
      BY <2>1 DEF Inv, TypeOK
    <3> QED BY <3>1, BoxFacts
  <2>3. TypeOK'
    BY <1>2, <2>1, <2>2 DEF Inv, TypeOK
  <2>4. Exclusive' /\ Known' /\ Inserting' /\ LookingUp'
    BY <1>2 DEF Inv, TypeOK, Exclusive, HoldsLock, Known, Inserting, LookingUp, Running
  <2>5. Ends'
    <3>1. \A j \in Instances : In("stop", box'[j]) => In("stop", box[j])
      BY <1>2, <2>1, <2>2 DEF Inv, TypeOK
    <3> QED BY <1>2, <3>1 DEF Ends, Held, Inv
  <2>6. OneService'
    BY <1>2 DEF Inv, TypeOK, OneService, Running
  <2> QED BY <2>3, <2>4, <2>5, <2>6 DEF Inv
<1> QED BY <1>1, <1>2 DEF PingCheck, PingPush, instVars

\* LookingUp, replacing and unregistering move an address between a task and
\* the registry.
LEMMA ManageInv ==
  ASSUME Inv, NEW c \in Clients, Register(c) \/ Replace(c) \/ Unregister(c)
  PROVE  Inv'
<1>1. /\ pc[c] = "body" /\ pc' = [pc EXCEPT ![c] = "idle"] /\ op' = [op EXCEPT ![c] = "none"]
      /\ UNCHANGED <<life, box, asked>>
  BY DEF Register, Replace, Unregister, ReturnWith, instVars
<1>2. /\ entry' \in {entry, has[c], 0} /\ has'[c] \in {entry, has[c], 0}
      /\ has' = [has EXCEPT ![c] = has'[c]]
  BY DEF Register, Replace, Unregister, ReturnWith, Inv, TypeOK
<1>3. \A d \in Clients : pc[d] # "insert"
  BY <1>1 DEF Inv, Exclusive, HoldsLock
<1>4. unlisted' \subseteq Instances
  BY Bounds DEF Register, Replace, Unregister, Inv, TypeOK
<1>5. TypeOK' /\ Exclusive' /\ Known'
  <2>1. entry' \in 0 .. MaxInst /\ has'[c] \in 0 .. MaxInst
    BY <1>2, Bounds DEF Inv, TypeOK
  <2>2. has' \in [Clients -> 0 .. MaxInst]
    BY <1>2, <2>1 DEF Inv, TypeOK
  <2>3. TypeOK'
    BY <1>1, <1>4, <2>1, <2>2 DEF Inv, TypeOK
  <2>4. Exclusive'
    BY <1>1 DEF Inv, TypeOK, Exclusive, HoldsLock
  <2>5. Known'
    BY <1>1, <1>2 DEF Inv, TypeOK, Known
  <2> QED BY <2>3, <2>4, <2>5
<1>6. Inserting' /\ LookingUp'
  BY <1>1, <1>2, <1>3 DEF Inv, TypeOK, Inserting, LookingUp
<1>7. Ends'
  <2>1. \A j \in Instances : Held(j)' => Held(j)
    BY <1>2, Bounds DEF Held, Inv, TypeOK
  <2> QED BY <1>1, <2>1 DEF Ends, Inv
<1>8. OneService'
  <2>1. ASSUME NEW j \in Instances, Running(j) PROVE j = entry' \/ j \in unlisted'
    <3>1. j = entry \/ j \in unlisted
      BY <1>3, <2>1 DEF Inv, OneService
    <3>2. j # 0
      BY Bounds
    <3>3. CASE Register(c)
      BY <2>1, <3>1, <3>3 DEF Register
    <3>4. CASE Replace(c)
      BY <3>1, <3>2, <3>4 DEF Replace
    <3>5. CASE Unregister(c)
      BY <3>1, <3>2, <3>5 DEF Unregister
    <3> QED BY <3>3, <3>4, <3>5
  <2> QED BY <1>1, <2>1 DEF OneService, Running
<1> QED BY <1>5, <1>6, <1>7, <1>8 DEF Inv

\* What an idle task does with the address it holds or finds.
LEMMA IdleInv ==
  ASSUME Inv, NEW c \in Clients, TryFromRegistry(c) \/ Drop(c)
  PROVE  Inv'
<1>1. /\ pc[c] = "idle" /\ has' = [has EXCEPT ![c] = has'[c]] /\ has'[c] \in {0, entry}
      /\ UNCHANGED <<entry, life, box, asked, pc, op, unlisted>>
  BY DEF TryFromRegistry, Drop, instVars, Inv, TypeOK
<1>2. TypeOK' /\ Exclusive' /\ Known'
  <2>1. has'[c] \in 0 .. MaxInst
    BY <1>1, Bounds DEF Inv, TypeOK
  <2>2. has' \in [Clients -> 0 .. MaxInst]
    BY <1>1, <2>1 DEF Inv, TypeOK
  <2>3. TypeOK' /\ Exclusive'
    BY <1>1, <2>2 DEF Inv, TypeOK, Exclusive, HoldsLock
  <2>4. Known'
    BY <1>1 DEF Inv, TypeOK, Known
  <2> QED BY <2>3, <2>4
<1>3. Inserting' /\ LookingUp'
  BY <1>1 DEF Inv, TypeOK, Inserting, LookingUp, Running
<1>4. Ends'
  <2>1. \A j \in Instances : Held(j)' => Held(j)
    BY <1>1, Bounds DEF Held, Inv, TypeOK
  <2> QED BY <1>1, <2>1 DEF Ends, Inv
<1>5. OneService'
  BY <1>1 DEF Inv, TypeOK, OneService, Running
<1> QED BY <1>2, <1>3, <1>4, <1>5 DEF Inv

LEMMA StopInv ==
  ASSUME Inv, NEW c \in Clients, Stop(c)
  PROVE  Inv'
<1>1. has[c] \in Instances
  BY Bounds DEF Stop, Running, Inv, TypeOK
<1>2. Append(box[has[c]], "stop") \in Seq({"ping", "stop"})
  BY <1>1, BoxFacts DEF Inv, TypeOK
<1>3. /\ box' = [box EXCEPT ![has[c]] = Append(@, "stop")] /\ asked' = asked \cup {has[c]}
      /\ UNCHANGED <<entry, life, pc, op, has, unlisted>>
  BY DEF Stop, clientVars
<1>4. TypeOK' /\ Exclusive' /\ Known' /\ Inserting' /\ LookingUp' /\ OneService'
  BY <1>1, <1>2, <1>3 DEF Inv, TypeOK, Exclusive, HoldsLock, Known, Inserting, LookingUp,
     OneService, Running
<1>5. Ends'
  BY <1>1, <1>3 DEF Ends, Held, Inv, TypeOK
<1> QED BY <1>4, <1>5 DEF Inv

-----------------------------------------------------------------------------
(* The theorems                                                            *)

LEMMA InvStep == Inv /\ [Next]_vars => Inv'
<1> SUFFICES ASSUME Inv, [Next]_vars PROVE Inv'
  OBVIOUS
<1>1. CASE UNCHANGED vars
  BY <1>1 DEF vars, instVars, clientVars, Inv, TypeOK, Exclusive, HoldsLock, Known, Inserting,
     LookingUp, Ends, Held, OneService, Running
<1>2. CASE \E i \in Instances : InstanceStep(i)
  BY <1>2, InstanceInv
<1>3. ASSUME NEW c \in Clients, NEW o \in {"from_registry", "register", "replace", "unregister"},
             Begin(c, o)
      PROVE  Inv'
  BY <1>3, BeginInv DEF Operations
<1>4. ASSUME NEW c \in Clients, Lock(c) PROVE Inv'
  <2>1. "drop" \in Operations \ {"none"}
    BY DEF Operations
  <2> QED BY <1>4, <2>1, BeginInv
<1>5. ASSUME NEW c \in Clients, Proceed(c) PROVE Inv'
  BY <1>5, FromRegistryInv, InsertInv, PingInv, ManageInv DEF Proceed
<1>6. ASSUME NEW c \in Clients, TryFromRegistry(c) \/ Spawn(c) \/ Stop(c) \/ Drop(c) PROVE Inv'
  BY <1>6, IdleInv, SpawnInv, StopInv
<1> QED BY <1>1, <1>2, <1>3, <1>4, <1>5, <1>6 DEF Next

\* The inductive invariant holds in every reachable state.
THEOREM RegistryInvariance == Spec => []Inv
BY InvInit, InvStep, PTL DEF Spec

\* There is one running service: whatever else runs was spawned privately, or
\* replaced or unregistered on purpose (service.rs, register and
\* from_registry_and_spawn decide and insert under one lock).
THEOREM OneServiceCorrect == Spec => []OneService
<1>1. Inv => OneService
  BY DEF Inv
<1> QED BY <1>1, RegistryInvariance, PTL

\* A registered instance is only found stopped if it was stopped or failed: the
\* registry's own address keeps it alive.
THEOREM ListedLivesCorrect == Spec => []ListedLives
<1>1. Inv => ListedLives
  BY Bounds DEF Inv, TypeOK, Lives, Known, Ends, Held, Running, ListedLives
<1> QED BY <1>1, RegistryInvariance, PTL

\* Only a ping that is refused makes the assertion fail.
LEMMA DeadStep ==
  ASSUME Inv, Next, NEW c \in Clients, pc[c] # "dead", pc'[c] = "dead"
  PROVE  has[c] # 0 /\ (~Running(has[c]) \/ ~Receiving(has[c]))
<1>1. ASSUME NEW d \in Clients, NEW w, pc' = [pc EXCEPT ![d] = w], w # "dead" PROVE FALSE
  BY <1>1 DEF Inv, TypeOK
<1>2. ASSUME pc' = pc PROVE FALSE
  BY <1>2
<1>3. ASSUME NEW i \in Instances, InstanceStep(i) PROVE FALSE
  <2>1. CASE TakePing(i)
    BY <2>1 DEF TakePing
  <2> QED
    BY <1>2, <1>3, <2>1 DEF InstanceStep, Started, StartFails, TakeStop, LastDropped, Stopped,
       Panics, Ended, clientVars
<1>4. ASSUME NEW d \in Clients, NEW o, Begin(d, o) \/ Lock(d) PROVE FALSE
  BY <1>1, <1>4 DEF Begin, Lock
<1>5. ASSUME NEW d \in Clients, FromRegistry(d) \/ Insert(d) \/ Register(d) \/ Replace(d) \/ Unregister(d)
      PROVE  FALSE
  BY <1>1, <1>5 DEF FromRegistry, Insert, Register, Replace, Unregister, ReturnWith
<1>6. ASSUME NEW d \in Clients, TryFromRegistry(d) \/ Spawn(d) \/ Stop(d) \/ Drop(d) PROVE FALSE
  BY <1>2, <1>6 DEF TryFromRegistry, Spawn, Stop, Drop, clientVars
<1>7. PICK d \in Clients : PingCheck(d) \/ PingPush(d)
  BY <1>3, <1>4, <1>5, <1>6 DEF Next, Proceed
<1>8. pc[d] \in {"ping", "push"} /\ AssertFails(d) /\ (~Running(has[d]) \/ ~Receiving(has[d]))
  BY <1>1, <1>7 DEF PingCheck, PingPush
<1>9. d = c
  BY <1>8 DEF AssertFails, Inv, TypeOK
<1> QED BY <1>8, <1>9 DEF Inv, Inserting

\* The instance a task holds and finds stopped was told to stop or has failed.
LEMMA HeldEnds ==
  ASSUME Inv, NEW c \in Clients, has[c] # 0, ~Running(has[c]) \/ ~Receiving(has[c])
  PROVE  has[c] \in asked
<1>1. has[c] \in Instances /\ life[has[c]] \in Lives \ {"free"}
  BY Bounds DEF Inv, TypeOK, Known
<1>2. life[has[c]] \in {"flagdown", "unwound", "over"}
  BY <1>1 DEF Running, Receiving, Lives
<1> QED BY <1>1, <1>2 DEF Inv, Ends, Held

\* from_registry's assertion never fails of itself: whenever it does, somebody has
\* stopped the new instance through the registry's address, or it has failed.
THEOREM AssertionBlames ==
  Spec => [][\A c \in Clients : pc[c] # "dead" /\ pc'[c] = "dead" => has[c] \in asked]_vars
<1>1. ASSUME Inv, [Next]_vars
      PROVE  [\A c \in Clients : pc[c] # "dead" /\ pc'[c] = "dead" => has[c] \in asked]_vars
  BY <1>1, DeadStep, HeldEnds
<1> QED BY <1>1, RegistryInvariance, PTL DEF Spec

\* Nobody stops a service and none fails.
Undisturbed == ~UserFails /\ \A c \in Clients : "stop" \notin OpsOf[c]

NoneAsked == asked = {}

\* Then every service that is looked up answers, whatever else its users do.
THEOREM ServiceAnswersUndisturbed == Undisturbed /\ Spec => []ServiceAnswersPing
<1>1. Init => NoneAsked /\ ServiceAnswersPing
  BY DEF Init, NoneAsked, ServiceAnswersPing
<1>2. ASSUME Undisturbed, asked = {}, [Next]_vars PROVE asked' = {}
  <2>1. ASSUME NEW i \in Instances, InstanceStep(i) PROVE asked' = asked
    BY <1>2, <2>1 DEF Undisturbed, InstanceStep, Started, StartFails, TakeStop, TakePing, LastDropped,
       Stopped, Panics, Ended
  <2>2. ASSUME NEW c \in Clients, Proceed(c) PROVE asked' = asked
    BY <2>2 DEF Proceed, FromRegistry, Insert, PingCheck, PingPush, AssertFails, Register, Replace,
       Unregister, ReturnWith, instVars
  <2>3. ASSUME NEW c \in Clients, NEW o, Begin(c, o) \/ Lock(c) PROVE asked' = asked
    BY <2>3 DEF Begin, Lock, instVars
  <2>4. ASSUME NEW c \in Clients, TryFromRegistry(c) \/ Spawn(c) \/ Stop(c) \/ Drop(c)
        PROVE  asked' = asked
    BY <1>2, <2>4 DEF Undisturbed, TryFromRegistry, Spawn, Stop, Drop, instVars
  <2> QED BY <1>2, <2>1, <2>2, <2>3, <2>4 DEF Next, vars, instVars
<1>3. ASSUME Inv, asked = {}, ServiceAnswersPing, [Next]_vars PROVE ServiceAnswersPing'
  <2>1. CASE UNCHANGED vars
    BY <1>3, <2>1 DEF ServiceAnswersPing, vars, clientVars
  <2>2. ASSUME Next, NEW c \in Clients, pc'[c] = "dead" PROVE FALSE
    <3>1. pc[c] # "dead"
      BY <1>3 DEF ServiceAnswersPing
    <3> QED BY <1>3, <2>2, <3>1, DeadStep, HeldEnds
  <2> QED BY <1>3, <2>1, <2>2 DEF ServiceAnswersPing
<1>4. ASSUME Undisturbed
      PROVE  Inv /\ NoneAsked /\ ServiceAnswersPing /\ [Next]_vars
               => NoneAsked' /\ ServiceAnswersPing'
  BY <1>2, <1>3, <1>4 DEF NoneAsked
<1>5. ASSUME Undisturbed PROVE Spec => []ServiceAnswersPing
  BY <1>1, <1>4, <1>5, RegistryInvariance, PTL DEF Spec
<1> QED BY <1>5

-----------------------------------------------------------------------------
(* The registry implements Slot                                            *)

ListedBy(e, p, h) ==
  IF \E c \in Clients : p[c] = "insert"
    THEN h[CHOOSE c \in Clients : p[c] = "insert"]
    ELSE e

LEMMA ListedIs ==
  ASSUME NEW e, NEW p, NEW h, NEW c \in Clients, p[c] = "insert",
         \A d \in Clients : p[d] = "insert" => d = c
  PROVE  ListedBy(e, p, h) = h[c]
<1>1. (CHOOSE d \in Clients : p[d] = "insert") = c
  OBVIOUS
<1> QED BY <1>1 DEF ListedBy

\* One task at most inserts, and what it inserts is the service already.
LEMMA ListedNow ==
  ASSUME Inv
  PROVE  /\ \A c \in Clients : pc[c] = "insert" => Listed = has[c]
         /\ (\A c \in Clients : pc[c] # "insert") => Listed = entry
         /\ Listed \in 0 .. MaxInst
         /\ \A i \in Instances : i = Listed => Held(i)
<1>1. Listed = ListedBy(entry, pc, has)
  BY DEF Listed, ListedBy
<1>2. ASSUME NEW c \in Clients, pc[c] = "insert" PROVE Listed = has[c]
  <2>1. \A d \in Clients : pc[d] = "insert" => d = c
    BY <1>2 DEF Inv, Exclusive, HoldsLock
  <2> QED BY <1>1, <1>2, <2>1, ListedIs
<1>3. (\A c \in Clients : pc[c] # "insert") => Listed = entry
  BY DEF Listed
<1>4. Listed = entry \/ \E c \in Clients : Listed = has[c]
  BY <1>2, <1>3
<1> QED BY <1>2, <1>3, <1>4 DEF Inv, TypeOK, Held

LEMMA ListedNext ==
  ASSUME Inv'
  PROVE  /\ \A c \in Clients : pc'[c] = "insert" => Listed' = has'[c]
         /\ (\A c \in Clients : pc'[c] # "insert") => Listed' = entry'
<1>1. Listed' = ListedBy(entry', pc', has')
  BY DEF Listed, ListedBy
<1>2. ASSUME NEW c \in Clients, pc'[c] = "insert" PROVE Listed' = has'[c]
  <2>1. \A d \in Clients : pc'[d] = "insert" => d = c
    BY <1>2 DEF Inv, Exclusive, HoldsLock
  <2> QED BY <1>1, <1>2, <2>1, ListedIs
<1>3. (\A c \in Clients : pc'[c] # "insert") => Listed' = entry'
  BY DEF Listed
<1> QED BY <1>2, <1>3

\* What is listed stays while nobody inserts anything new.
LEMMA ListedStays ==
  ASSUME Inv, Inv', UNCHANGED <<entry, has>>,
         \A c \in Clients : pc'[c] = "insert" <=> pc[c] = "insert"
  PROVE  Listed' = Listed
<1>1. CASE \E c \in Clients : pc[c] = "insert"
  BY <1>1, ListedNow, ListedNext
<1>2. CASE \A c \in Clients : pc[c] # "insert"
  BY <1>2, ListedNow, ListedNext
<1> QED BY <1>1, <1>2

\* The running flag of an instance only falls when it fails, or when it was told
\* to stop, or when nobody holds it any more.
LEMMA InstanceIsEnd ==
  ASSUME Inv, Inv', NEW i \in Instances, InstanceStep(i)
  PROVE  S!Fail(i) \/ S!End(i) \/ UNCHANGED S!slotVars
<1>1. UNCHANGED <<entry, has>> /\ Created' = Created
  BY InstanceFrame DEF Created
<1>2. Listed' = Listed
  <2>1. \A c \in Clients : pc'[c] = "insert" <=> pc[c] = "insert"
    BY DEF InstanceStep, Started, StartFails, TakeStop, TakePing, LastDropped, Stopped,
       Panics, Ended, clientVars, Inv, TypeOK
  <2> QED BY <1>1, <2>1, ListedStays
<1>3. i # 0 /\ \A j \in Instances : j # 0
  BY Bounds
<1>4. CASE Started(i) \/ TakeStop(i) \/ TakePing(i) \/ LastDropped(i)
  <2>1. Alive' = Alive /\ asked' = asked
    BY <1>4 DEF Started, TakeStop, TakePing, LastDropped, Alive, Running, Inv, TypeOK
  <2> QED BY <1>1, <1>2, <2>1 DEF S!slotVars
<1>5. CASE StartFails(i)
  <2>1. i \in Alive /\ Alive' = Alive \ {i} /\ asked' = asked \cup {i}
    BY <1>3, <1>5 DEF StartFails, Alive, Running, Inv, TypeOK
  <2> QED BY <1>1, <1>2, <2>1 DEF S!Fail
<1>6. CASE Panics(i)
  <2>1. i \in Alive /\ Alive' = Alive /\ asked' = asked \cup {i}
    BY <1>3, <1>6 DEF Panics, Alive, Running, Inv, TypeOK
  <2> QED BY <1>1, <1>2, <2>1 DEF S!Fail
<1>7. CASE Stopped(i) \/ (Ended(i) /\ life[i] = "unwound")
  <2>1. i \in Alive /\ Alive' = Alive \ {i} /\ asked' = asked
    BY <1>3, <1>7 DEF Stopped, Ended, Alive, Running, Inv, TypeOK
  <2>2. i \in asked \/ ~Held(i)
    BY <1>7 DEF Stopped, Ended, Inv, Ends
  <2>3. i \in asked \/ (i # Listed /\ \A c \in Clients : has[c] # i)
    BY <2>2, ListedNow DEF Held
  <2> QED BY <1>1, <1>2, <2>1, <2>3 DEF S!End
<1>8. CASE Ended(i) /\ life[i] = "flagdown"
  <2>1. Alive' = Alive /\ asked' = asked
    BY <1>8 DEF Ended, Alive, Running, Inv, TypeOK
  <2> QED BY <1>1, <1>2, <2>1 DEF S!slotVars
<1> QED BY <1>4, <1>5, <1>6, <1>7, <1>8 DEF InstanceStep, Ended

\* Nobody inserts while c holds the lock otherwise.
LEMMA BodyFacts ==
  ASSUME Inv, Inv', NEW c \in Clients, pc[c] = "body", NEW w, pc' = [pc EXCEPT ![c] = w]
  PROVE  /\ Listed = entry
         /\ w # "insert" => Listed' = entry'
         /\ w = "insert" => Listed' = has'[c]
<1>1. \A d \in Clients : pc[d] # "insert"
  BY DEF Inv, Exclusive, HoldsLock
<1>2. pc'[c] = w /\ \A d \in Clients : d # c => pc'[d] = pc[d]
  BY DEF Inv, TypeOK
<1> QED BY <1>1, <1>2, ListedNow, ListedNext

LEMMA RunningIsAlive ==
  ASSUME Inv
  PROVE  /\ Running(entry) <=> entry \in Alive
         /\ \A c \in Clients : Running(has[c]) <=> has[c] \in Alive
BY Bounds DEF Inv, TypeOK, Running, Alive

\* An instance is created.
LEMMA SpawnSets ==
  ASSUME Inv, NEW i \in Instances, Fresh(i), life' = [life EXCEPT ![i] = "starting"]
  PROVE  /\ i \in S!Services \ Created
         /\ Created' = Created \cup {i} /\ Alive' = Alive \cup {i}
<1>1. i # 0 /\ life[i] = "free"
  <2>1. life[i] = "free"
    BY DEF Fresh
  <2> QED BY <2>1, Bounds
<1>2. Created' = Created \cup {i} /\ Alive' = Alive \cup {i}
  BY <1>1 DEF Created, Alive, Running, Inv, TypeOK
<1> QED BY <1>1, <1>2 DEF Created, S!Services, Instances

\* A lookup takes effect where it decides, before the insertion.
LEMMA FromRegistryIsLookup ==
  ASSUME Inv, Inv', NEW c \in Clients, FromRegistry(c)
  PROVE  S!Find(c) \/ S!Create(c)
<1>1. CASE Running(entry) /\ ReturnWith(c, entry) /\ UNCHANGED <<entry, unlisted>>
  <2>1. Listed = entry /\ Listed' = entry'
    BY <1>1, BodyFacts DEF FromRegistry, ReturnWith
  <2>2. Listed \in Alive /\ Alive' = Alive /\ Created' = Created
    BY <1>1, <2>1, RunningIsAlive DEF ReturnWith, instVars, Alive, Created, Running
  <2> QED BY <1>1, <2>1, <2>2 DEF S!Find, ReturnWith, instVars
<1>2. CASE ~Running(entry) /\ pc' = [pc EXCEPT ![c] = "insert"] /\ UNCHANGED <<entry, asked>>
           /\ \E i \in Instances : /\ Fresh(i) /\ life' = [life EXCEPT ![i] = "starting"]
                                   /\ has' = [has EXCEPT ![c] = i]
  <2> PICK i \in Instances : /\ Fresh(i) /\ life' = [life EXCEPT ![i] = "starting"]
                             /\ has' = [has EXCEPT ![c] = i]
    BY <1>2
  <2>1. Listed = entry /\ Listed' = has'[c] /\ has'[c] = i
    BY <1>2, BodyFacts DEF FromRegistry, Inv, TypeOK
  <2>2. Listed \notin Alive
    BY <1>2, <2>1, RunningIsAlive
  <2>3. i \in S!Services \ Created /\ Created' = Created \cup {i} /\ Alive' = Alive \cup {i}
    BY SpawnSets
  <2> QED BY <1>2, <2>1, <2>2, <2>3 DEF S!Create
<1> QED BY <1>1, <1>2 DEF FromRegistry

\* Registering, replacing and taking out happen where the lock is held.
LEMMA ManageIsAtomic ==
  ASSUME Inv, Inv', NEW c \in Clients, Register(c) \/ Replace(c) \/ Unregister(c)
  PROVE  S!Offer(c) \/ S!Swap(c) \/ S!TakeOut(c)
<1>1. Listed = entry /\ Listed' = entry'
  BY BodyFacts DEF Register, Replace, Unregister, ReturnWith
<1>2. Alive' = Alive /\ Created' = Created /\ asked' = asked
  BY DEF Register, Replace, Unregister, ReturnWith, instVars, Alive, Created, Running
<1>3. CASE Register(c)
  <2> has[c] # 0
    BY <1>3 DEF Register, Inv, LookingUp
  <2>1. CASE Running(entry) /\ ReturnWith(c, 0) /\ entry' = entry
    BY <1>1, <1>2, <1>3, <2>1, RunningIsAlive DEF S!Offer, ReturnWith
  <2>2. CASE ~Running(entry) /\ ReturnWith(c, has[c]) /\ entry' = has[c]
    <3>1. has' = has
      BY <2>2 DEF ReturnWith, Inv, TypeOK
    <3> QED BY <1>1, <1>2, <1>3, <2>2, <3>1, RunningIsAlive DEF S!Offer
  <2> QED BY <1>3, <2>1, <2>2 DEF Register
<1>4. CASE Replace(c)
  BY <1>1, <1>2, <1>4 DEF Replace, ReturnWith, S!Swap, Inv, LookingUp
<1>5. CASE Unregister(c)
  BY <1>1, <1>2, <1>5 DEF Unregister, ReturnWith, S!TakeOut
<1> QED BY <1>3, <1>4, <1>5

\* Waiting for the lock, inserting and pinging are no steps of the slot.
LEMMA WaitingIsHidden ==
  ASSUME Inv, Inv', NEW c \in Clients,
         Insert(c) \/ Lock(c) \/ (\E o \in Operations : Begin(c, o))
           \/ ((PingCheck(c) \/ PingPush(c)) /\ ~AssertFails(c))
  PROVE  UNCHANGED S!slotVars
<1>1. /\ UNCHANGED <<life, asked, has>>
      /\ \/ Insert(c)
         \/ entry' = entry /\ \A d \in Clients : pc'[d] = "insert" <=> pc[d] = "insert"
  BY DEF Insert, Lock, Begin, PingCheck, PingPush, instVars, Inv, TypeOK
<1>2. Listed' = Listed
  <2>1. CASE Insert(c)
    <3>1. Listed = has[c] /\ entry' = has[c]
      BY <2>1, ListedNow DEF Insert
    <3>2. \A d \in Clients : pc'[d] # "insert"
      BY <2>1 DEF Insert, Inv, TypeOK, Exclusive, HoldsLock
    <3> QED BY <3>1, <3>2, ListedNext
  <2> QED BY <1>1, <2>1, ListedStays
<1>3. Alive' = Alive /\ Created' = Created
  BY <1>1 DEF Alive, Created, Running
<1> QED BY <1>1, <1>2, <1>3 DEF S!slotVars

\* An idle task finds, drops or stops what it holds; a failed assertion drops it.
LEMMA IdleIsAtomic ==
  ASSUME Inv, Inv', NEW c \in Clients,
         TryFromRegistry(c) \/ Drop(c) \/ Stop(c)
           \/ (AssertFails(c) /\ pc[c] \in {"ping", "push"})
  PROVE  S!Find(c) \/ S!Release(c) \/ S!Tell(c)
<1>1. entry' = entry /\ Alive' = Alive /\ Created' = Created
  BY DEF TryFromRegistry, Drop, Stop, AssertFails, instVars, Alive, Created, Running
<1>2. \A d \in Clients : /\ pc'[d] = "insert" <=> pc[d] = "insert"
                         /\ pc[d] = "insert" => has'[d] = has[d]
  BY DEF TryFromRegistry, Drop, Stop, AssertFails, clientVars, Inv, TypeOK
<1>3. Listed' = Listed
  <2>1. CASE \E d \in Clients : pc[d] = "insert"
    BY <1>2, <2>1, ListedNow, ListedNext
  <2>2. CASE \A d \in Clients : pc[d] # "insert"
    BY <1>1, <1>2, <2>2, ListedNow, ListedNext
  <2> QED BY <2>1, <2>2
<1>4. CASE TryFromRegistry(c)
  <2>1. \A d \in Clients : pc[d] # "insert"
    BY <1>4 DEF TryFromRegistry, Locked, HoldsLock
  <2>2. Listed = entry /\ Listed \in Alive
    BY <1>4, <2>1, ListedNow, RunningIsAlive DEF TryFromRegistry
  <2> QED BY <1>1, <1>3, <1>4, <2>2 DEF TryFromRegistry, instVars, S!Find
<1>5. CASE Drop(c) \/ AssertFails(c)
  BY <1>1, <1>3, <1>5 DEF Drop, AssertFails, instVars, S!Release
<1>6. CASE Stop(c)
  BY <1>1, <1>3, <1>6, RunningIsAlive DEF Stop, clientVars, S!Tell
<1> QED BY <1>4, <1>5, <1>6

LEMMA SpawnIsPrivate ==
  ASSUME Inv, Inv', NEW c \in Clients, Spawn(c)
  PROVE  S!SpawnPrivate(c)
<1> PICK i \in Instances : /\ Fresh(i)
                           /\ life' = [life EXCEPT ![i] = "starting"]
                           /\ has' = [has EXCEPT ![c] = i]
  BY DEF Spawn
<1>1. has[c] = 0 /\ pc[c] = "idle" /\ UNCHANGED <<entry, asked, pc>>
  BY DEF Spawn
<1>2. Listed' = Listed
  <2>1. \A d \in Clients : pc[d] = "insert" => has'[d] = has[d]
    BY <1>1 DEF Inv, TypeOK
  <2> QED BY <1>1, <2>1, ListedNow, ListedNext
<1>3. i \in S!Services \ Created /\ Created' = Created \cup {i} /\ Alive' = Alive \cup {i}
  BY SpawnSets
<1> QED BY <1>1, <1>2, <1>3 DEF S!SpawnPrivate

LEMMA SlotStep == Inv /\ Inv' /\ [Next]_vars => [S!SlotNext]_(S!slotVars)
<1> SUFFICES ASSUME Inv, Inv', [Next]_vars PROVE [S!SlotNext]_(S!slotVars)
  OBVIOUS
<1>1. CASE UNCHANGED vars
  <2>1. UNCHANGED <<Listed, Alive, Created, asked, has>>
    BY <1>1 DEF vars, instVars, clientVars, Listed, Alive, Created, Running
  <2> QED BY <2>1 DEF S!slotVars
<1>2. CASE \E i \in Instances : InstanceStep(i)
  BY <1>2, InstanceIsEnd DEF S!SlotNext, S!Services, Instances
<1>3. ASSUME NEW c \in Clients, NEW o \in {"from_registry", "register", "replace", "unregister"},
             Begin(c, o)
      PROVE  UNCHANGED S!slotVars
  BY <1>3, WaitingIsHidden DEF Operations
<1>4. ASSUME NEW c \in Clients, Lock(c) PROVE UNCHANGED S!slotVars
  BY <1>4, WaitingIsHidden
<1>5. ASSUME NEW c \in Clients, Proceed(c) PROVE [S!SlotNext]_(S!slotVars)
  <2>1. AssertFails(c) /\ (PingCheck(c) \/ PingPush(c)) => pc[c] \in {"ping", "push"}
    BY DEF PingCheck, PingPush
  <2> QED BY <1>5, <2>1, FromRegistryIsLookup, WaitingIsHidden, ManageIsAtomic, IdleIsAtomic
             DEF Proceed, S!SlotNext
<1>6. ASSUME NEW c \in Clients, TryFromRegistry(c) \/ Spawn(c) \/ Stop(c) \/ Drop(c)
      PROVE  S!SlotNext
  BY <1>6, IdleIsAtomic, SpawnIsPrivate DEF S!SlotNext
<1> QED BY <1>1, <1>2, <1>3, <1>4, <1>5, <1>6 DEF Next

\* Whatever the tasks and the instances do between locking, spawning, inserting
\* and pinging, the users see a slot whose operations are atomic (service.rs,
\* from_registry_and_spawn, register, replace, unregister and try_from_registry).
THEOREM ImplementsSlotCorrect == Spec => ImplementsSlot
<1>1. Init => S!SlotInit
  <2> SUFFICES ASSUME Init PROVE S!SlotInit
    OBVIOUS
  <2>1. Listed = 0 /\ Created = {} /\ Alive = {}
    BY DEF Init, Listed, Created, Alive, Running
  <2> QED BY <2>1 DEF Init, S!SlotInit
<1> QED BY <1>1, SlotStep, RegistryInvariance, PTL DEF Spec, ImplementsSlot, S!SlotSpec

-----------------------------------------------------------------------------
(* Every instance lives as Lifecycle says                                  *)

\* What the step of an instance is in its life; the others do not notice.
LEMMA InstanceLives ==
  ASSUME Inv, NEW i \in Instances, InstanceStep(i), NEW j \in Instances
  PROVE  L(j)!LifeNext \/ UNCHANGED L(j)!lifeVars
<1>1. /\ Held(j)' = Held(j)
      /\ j # i => life'[j] = life[j] /\ (j \in asked)' = (j \in asked)
  <2>1. UNCHANGED <<entry, has>>
    BY InstanceFrame
  <2>2. j # i => life'[j] = life[j]
    BY DEF InstanceStep, Started, StartFails, TakeStop, TakePing, LastDropped, Stopped, Panics,
       Ended, Inv, TypeOK
  <2>3. asked' = asked \/ asked' = asked \cup {i}
    BY DEF InstanceStep, Started, StartFails, TakeStop, TakePing, LastDropped, Stopped, Panics, Ended
  <2>4. j # i => (j \in asked)' = (j \in asked)
    BY <2>3
  <2> QED BY <2>1, <2>2, <2>4 DEF Held
<1>2. CASE j # i
  BY <1>1, <1>2 DEF L!lifeVars
<1>3. CASE j = i
  <2>1. CASE Started(i)
    BY <1>1, <1>3, <2>1 DEF Started, L!LifeNext, L!Start, Inv, TypeOK
  <2>2. CASE StartFails(i) \/ Panics(i)
    <3>1. (j \in asked)' = TRUE
      BY <1>3, <2>2 DEF StartFails, Panics
    <3>2. \/ life[j] = "starting" /\ life'[j] = "flagdown"
          \/ life[j] \in {"up", "stopping"} /\ life'[j] = "unwound"
      BY <1>3, <2>2 DEF StartFails, Panics, Inv, TypeOK
    <3> QED BY <1>1, <3>1, <3>2 DEF L!LifeNext, L!Fail
  <2>3. CASE TakeStop(i)
    <3>1. In("stop", box[j])
      BY <1>3, <2>3, BoxFacts DEF TakeStop, Inv, TypeOK
    <3>2. j \in asked
      BY <3>1 DEF Inv, Ends
    <3> QED BY <1>1, <1>3, <2>3, <3>2 DEF TakeStop, L!LifeNext, L!Stop, Inv, TypeOK
  <2>4. CASE TakePing(i)
    BY <1>1, <2>4 DEF TakePing, L!lifeVars
  <2>5. CASE LastDropped(i)
    BY <1>1, <1>3, <2>5 DEF LastDropped, L!LifeNext, L!Stop, Inv, TypeOK
  <2>6. CASE Stopped(i)
    BY <1>1, <1>3, <2>6 DEF Stopped, L!LifeNext, L!FlagFalls, Inv, TypeOK
  <2>7. CASE Ended(i)
    BY <1>1, <1>3, <2>7 DEF Ended, L!LifeNext, L!End, Inv, TypeOK
  <2> QED BY <2>1, <2>2, <2>3, <2>4, <2>5, <2>6, <2>7 DEF InstanceStep
<1> QED BY <1>2, <1>3

\* A task that moves addresses about lets go of instances, and gets hold of none
\* that nobody held.
LEMMA MovesLive ==
  ASSUME NEW j \in Instances, UNCHANGED <<life, asked>>, Held(j)' => Held(j)
  PROVE  L(j)!LifeNext \/ UNCHANGED L(j)!lifeVars
<1>1. CASE Held(j)' <=> Held(j)
  <2>1. Held(j)' = Held(j)
    BY <1>1 DEF Held
  <2> QED BY <2>1 DEF L!lifeVars
<1>2. CASE Held(j) /\ ~Held(j)'
  BY <1>2 DEF L!LifeNext, L!LetGo
<1> QED BY <1>1, <1>2

\* Spawning creates an instance that was free.
LEMMA SpawnLives ==
  ASSUME Inv, NEW c \in Clients, NEW i \in Instances, Fresh(i), has[c] = 0, NEW j \in Instances,
         life' = [life EXCEPT ![i] = "starting"], has' = [has EXCEPT ![c] = i],
         UNCHANGED <<entry, asked>>
  PROVE  L(j)!LifeNext \/ UNCHANGED L(j)!lifeVars
<1>1. CASE j = i
  <2>1. life[j] = "free" /\ life'[j] = "starting" /\ (j \in asked)' = (j \in asked)
    BY <1>1 DEF Fresh, Inv, TypeOK
  <2>2. Held(j)'
    BY <1>1 DEF Held, Inv, TypeOK
  <2> QED BY <2>1, <2>2 DEF L!LifeNext, L!Create
<1>2. CASE j # i
  <2>1. life'[j] = life[j]
    BY <1>2 DEF Inv, TypeOK
  <2>2. Held(j)' <=> Held(j)
    BY <1>2, Bounds DEF Held, Inv, TypeOK
  <2>3. Held(j)' = Held(j)
    BY <2>2 DEF Held
  <2> QED BY <2>1, <2>3 DEF L!lifeVars
<1> QED BY <1>1, <1>2

LEMMA TaskLives ==
  ASSUME Inv, Next, NEW j \in Instances, \A i \in Instances : ~InstanceStep(i)
  PROVE  L(j)!LifeNext \/ UNCHANGED L(j)!lifeVars
<1>1. ASSUME NEW c \in Clients, Spawn(c) PROVE L(j)!LifeNext \/ UNCHANGED L(j)!lifeVars
  BY <1>1, SpawnLives DEF Spawn
<1>2. ASSUME NEW c \in Clients, FromRegistry(c), ~Running(entry)
      PROVE  L(j)!LifeNext \/ UNCHANGED L(j)!lifeVars
  <2>1. has[c] = 0
    BY <1>2 DEF FromRegistry, Inv, LookingUp
  <2> QED BY <1>2, <2>1, SpawnLives DEF FromRegistry
<1>3. ASSUME NEW c \in Clients, Stop(c) PROVE L(j)!LifeNext \/ UNCHANGED L(j)!lifeVars
  <2>1. Held(j)' = Held(j) /\ UNCHANGED life /\ asked' = asked \cup {has[c]}
    BY <1>3 DEF Stop, Held, clientVars
  <2>2. CASE j = has[c]
    <3>1. life[j] \in {"starting", "up", "stopping", "flagdown"} /\ (j \in asked)' = TRUE
      BY <1>3, <2>1, <2>2 DEF Stop, Receiving
    <3> QED BY <2>1, <3>1 DEF L!LifeNext, L!Tell
  <2>3. CASE j # has[c]
    <3>1. (j \in asked)' = (j \in asked)
      BY <2>1, <2>3
    <3> QED BY <2>1, <3>1 DEF L!lifeVars
  <2> QED BY <2>2, <2>3
<1>4. ASSUME NEW c \in Clients, Lock(c) \/ Insert(c) \/ PingCheck(c) \/ PingPush(c)
      PROVE  UNCHANGED <<life, asked>> /\ (Held(j)' => Held(j))
  BY <1>4, Bounds DEF Lock, Insert, PingCheck, PingPush, AssertFails, instVars, Held, Inv, TypeOK
<1>5. ASSUME NEW c \in Clients, NEW i \in 0 .. MaxInst, ReturnWith(c, i), entry' \in {0, entry, has[c]},
             i \in {0, entry, has[c]}
      PROVE  UNCHANGED <<life, asked>> /\ (Held(j)' => Held(j))
  BY <1>5, Bounds DEF ReturnWith, instVars, Held, Inv, TypeOK
<1>6. ASSUME NEW c \in Clients, Register(c) \/ Replace(c) \/ Unregister(c)
             \/ (FromRegistry(c) /\ Running(entry))
      PROVE  UNCHANGED <<life, asked>> /\ (Held(j)' => Held(j))
  BY <1>5, <1>6, Bounds DEF Register, Replace, Unregister, FromRegistry, Inv, TypeOK
<1>7. ASSUME NEW c \in Clients, TryFromRegistry(c) \/ Drop(c)
      PROVE  UNCHANGED <<life, asked>> /\ (Held(j)' => Held(j))
  BY <1>7, Bounds DEF TryFromRegistry, Drop, instVars, Held, Inv, TypeOK
<1>8. ASSUME NEW c \in Clients, NEW o, Begin(c, o)
      PROVE  UNCHANGED <<life, asked>> /\ (Held(j)' => Held(j))
  BY <1>8 DEF Begin, instVars, Held
<1> QED
  BY <1>1, <1>2, <1>3, <1>4, <1>6, <1>7, <1>8, MovesLive DEF Next, Proceed

\* The service and every other instance live as every actor does: an instance
\* nobody has the address of, the registry included, is never found again, and it
\* only ends when that is so, when it was told to, or when it failed.
THEOREM InstancesLiveCorrect == Spec => InstancesLive
<1>1. Init => \A i \in Instances : L(i)!LifeInit
  <2> SUFFICES ASSUME Init, NEW i \in Instances PROVE L(i)!LifeInit
    OBVIOUS
  <2>1. life[i] = "free" /\ (i \in asked) = FALSE
    BY DEF Init
  <2>2. Held(i) = FALSE
    BY Bounds DEF Init, Held
  <2> QED BY <2>1, <2>2 DEF L!LifeInit
<1>2. Inv /\ [Next]_vars => [\A i \in Instances : L(i)!LifeNext \/ UNCHANGED L(i)!lifeVars]_vars
  BY InstanceLives, TaskLives
<1> QED BY <1>1, <1>2, RegistryInvariance, PTL DEF Spec, InstancesLive
=============================================================================

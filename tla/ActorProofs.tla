----------------------------- MODULE ActorProofs -----------------------------
(***************************************************************************)
(* Theorems about Actor, for any clients, operations, capacity and number  *)
(* of payloads.  First the types, then the bookkeeping of payloads, then   *)
(* the life cycle.                                                         *)
(***************************************************************************)
EXTENDS Actor, SequenceTheorems, TLAPS

-----------------------------------------------------------------------------
(* The mailbox                                                             *)

\* A forced push yields a queue, and only a queue that holds something is full.
LEMMA ForcePushedType ==
  ASSUME NEW S, NEW q \in Seq(S), NEW m \in S
  PROVE  /\ Full(q) => q # <<>>
         /\ ForcePushed(q, m) \in Seq(S)
<1>1. Full(q) => q # <<>>
  BY CapacityAssumption, EmptySeq DEF Full
<1>2. Append(q, m) \in Seq(S)
  BY AppendProperties
<1>3. q # <<>> => Append(Tail(q), m) \in Seq(S)
  BY HeadTailProperties, AppendProperties
<1> QED
  BY <1>1, <1>2, <1>3 DEF ForcePushed

-----------------------------------------------------------------------------
(* Types                                                                   *)

\* TypeOK, and teardown has something left to do.
TypeInv == TypeOK /\ (phase = "teardown" => todo # <<>>)

LEMMA IdBounds == MaxMsgs \in Nat /\ 0 \in 0 .. MaxMsgs /\ Ids \subseteq 0 .. MaxMsgs
  BY ActorAssumption DEF Ids

LEMMA NoOpType == NoOp \in Operation
  BY DEF NoOp, Addr_await, Op, Operation, Loads

LEMMA TypeInit == Init => TypeInv
<1> SUFFICES ASSUME Init PROVE TypeInv
  OBVIOUS
<1>1. /\ handle \in [Clients -> {"strong", "weak", "temp", "none"}]
      /\ pc \in [Clients -> {"idle", "check", "push", "reply", "stopped"}]
      /\ op \in [Clients -> Operation]
      /\ mid \in [Clients -> 0 .. MaxMsgs]
      /\ ret \in [Clients -> Results]
  BY ActorAssumption, IdBounds, NoOpType DEF Init, Results
<1>2. load \in [Ids -> Loads \cup {"none"}] /\ fate \in [Ids -> Fates]
  BY DEF Init, Fates
<1>3. phase \in Phases /\ phase # "teardown" /\ hooks \in {"new", "up", "down"}
  BY DEF Init, Phases, Hooks
<1>4. queue \in Seq(Ids) /\ todo \in Seq({"flag", "notify", "close"})
  BY EmptySeq DEF Init
<1>5. closed \in BOOLEAN /\ flag \in BOOLEAN /\ notified \in BOOLEAN
  BY DEF Init
<1>6. sent \in 0 .. MaxMsgs /\ cur \in 0 .. MaxMsgs
  BY IdBounds DEF Init
<1> QED
  BY <1>1, <1>2, <1>3, <1>4, <1>5, <1>6 DEF TypeInv, TypeOK

\* What ends an operation keeps the client's variables in their types.
LEMMA ReturnType ==
  ASSUME TypeInv, NEW c \in Clients, NEW r \in Results, Return(c, r)
  PROVE  /\ handle' \in [Clients -> {"strong", "weak", "temp", "none"}]
         /\ pc' \in [Clients -> {"idle", "check", "push", "reply", "stopped"}]
         /\ op' \in [Clients -> Operation]
         /\ mid' \in [Clients -> 0 .. MaxMsgs]
         /\ ret' \in [Clients -> Results]
         /\ closed' \in BOOLEAN
<1>1. handle' \in [Clients -> {"strong", "weak", "temp", "none"}]
  BY DEF Return, TypeInv, TypeOK
<1>2. closed' \in BOOLEAN
  BY DEF Return, ClosedBy, TypeInv, TypeOK
<1> QED
  BY <1>1, <1>2, NoOpType, IdBounds DEF Return, TypeInv, TypeOK

\* What puts a payload into the mailbox keeps the mailbox in its types.
LEMMA AcceptType ==
  ASSUME TypeInv, NEW ld \in Loads, NEW forced \in BOOLEAN, Accept(ld, forced)
  PROVE  /\ queue' \in Seq(Ids)
         /\ sent' \in 0 .. MaxMsgs
         /\ sent + 1 \in Ids
         /\ load' \in [Ids -> Loads \cup {"none"}]
         /\ fate' \in [Ids -> Fates]
<1>1. sent + 1 \in Ids /\ sent' \in 0 .. MaxMsgs
  BY ActorAssumption DEF Accept, TypeInv, TypeOK, Ids
<1>2. queue' \in Seq(Ids)
  BY <1>1, ForcePushedType, AppendProperties DEF Accept, TypeInv, TypeOK
<1> QED
  BY <1>1, <1>2 DEF Accept, TypeInv, TypeOK, Fates, Settled

LEMMA TypeStep == TypeInv /\ [Next]_vars => TypeInv'
<1> SUFFICES ASSUME TypeInv, [Next]_vars PROVE TypeInv'
  OBVIOUS
<1> USE DEF TypeInv
<1>1. CASE UNCHANGED vars
  BY <1>1 DEF TypeOK, vars, loopVars, boxVars, clientVars
<1>2. ASSUME NEW c \in Clients, NEW o \in OpsOf[c], Begin(c, o) \/ Upgrade(c, o)
      PROVE  TypeInv'
  <2>1. o \in Operation
    BY <1>2, ActorAssumption
  <2> QED
    BY <1>2, <2>1 DEF Begin, Upgrade, Start, TypeOK, loopVars, boxVars, Results
<1>3. ASSUME NEW c \in Clients, Check(c) PROVE TypeInv'
  <2>1. op[c].refused \in Results
    BY DEF TypeOK, Operation, Results
  <2>2. CASE flag
    BY <1>3, <2>2 DEF Check, TypeOK, loopVars, boxVars
  <2>3. CASE ~flag
    BY <1>3, <2>1, <2>3, ReturnType DEF Check, TypeOK, loopVars, boxVars
  <2> QED BY <2>2, <2>3
<1>4. ASSUME NEW c \in Clients, Push(c) PROVE TypeInv'
  <2>1. op[c].refused \in Results /\ op[c].load \in Loads
        /\ op[c].then \in {"return", "reply", "stopped"} /\ "Ok" \in Results
    BY DEF TypeOK, Operation, Results
  <2>2. CASE Return(c, op[c].refused) /\ UNCHANGED <<loopVars, boxVars>>
    BY <2>1, <2>2, ReturnType DEF TypeOK, loopVars, boxVars
  <2>3. CASE Accept(op[c].load, op[c].push = "force") /\ UNCHANGED loopVars
             /\ op[c].then = "return" /\ Return(c, "Ok")
    BY <2>1, <2>3, ReturnType, AcceptType DEF TypeOK, loopVars
  <2>4. CASE Accept(op[c].load, op[c].push = "force") /\ UNCHANGED loopVars
             /\ op[c].then # "return"
             /\ pc' = [pc EXCEPT ![c] = op[c].then]
             /\ mid' = [mid EXCEPT ![c] = sent + 1]
             /\ UNCHANGED <<closed, handle, op, ret>>
    <3>1. sent + 1 \in 0 .. MaxMsgs
      BY <2>1, <2>4, AcceptType, IdBounds
    <3>2. pc' \in [Clients -> {"idle", "check", "push", "reply", "stopped"}]
      BY <2>1, <2>4 DEF TypeOK
    <3> QED BY <2>1, <2>4, <3>1, <3>2, AcceptType DEF TypeOK, loopVars
  <2> QED BY <1>4, <2>2, <2>3, <2>4 DEF Push
<1>5. ASSUME NEW c \in Clients, GetReply(c) \/ AwaitStopped(c) PROVE TypeInv'
  BY <1>5, ReturnType DEF GetReply, AwaitStopped, TypeOK, loopVars, boxVars, Results
<1>6. ASSUME NEW c \in Clients, HandleStep(c) PROVE TypeInv'
  <2>1. CASE DropHandle(c) \/ KeepUpgrade(c) \/ Downgrade(c)
    BY <2>1 DEF DropHandle, KeepUpgrade, Downgrade, ClosedBy, TypeOK, loopVars, boxVars
  <2>2. ASSUME NEW d \in Clients, NEW h \in {"strong", "weak"}, Share(c, d, h) PROVE TypeInv'
    BY <2>2 DEF Share, TypeOK, loopVars, boxVars
  <2> QED BY <1>6, <2>1, <2>2 DEF HandleStep
<1>7. ASSUME NEW ld \in CtxLoads, CtxPush(ld) PROVE TypeInv'
  <2>1. ld \in Loads
    BY <1>7, ActorAssumption DEF Loads
  <2> QED BY <1>7, <2>1, AcceptType DEF CtxPush, TypeOK, loopVars, clientVars
<1> USE DEF clientVars, boxVars, Phases, Hooks
<1>8. ASSUME StartedOk \/ CancelledReturns \/ RefreshStopped \/ ReceiveClosed
      PROVE  TypeInv'
  <2>1. UnwindOrder \in Seq({"flag", "notify", "close"}) /\ UnwindOrder # <<>>
    BY DEF UnwindOrder
  <2> QED
    BY <1>8, <2>1 DEF StartedOk, CancelledReturns, RefreshStopped, ReceiveClosed, Leave, TypeOK
<1>9. ASSUME StartedFails \/ StoppedReturns \/ StoppedPanics PROVE TypeInv'
  <2>1. /\ UnwindOrder \in Seq({"flag", "notify", "close"}) /\ UnwindOrder # <<>>
        /\ FinishOrder \in Seq({"flag", "notify", "close"}) /\ FinishOrder # <<>>
    BY DEF UnwindOrder, FinishOrder
  <2> QED
    BY <1>9, <2>1 DEF StartedFails, StoppedReturns, StoppedPanics, Leave, TypeOK
<1>10. ASSUME Receive PROVE TypeInv'
  <2>1. Head(queue) \in Ids /\ Tail(queue) \in Seq(Ids)
    BY <1>10, HeadTailProperties DEF Receive, TypeOK
  <2> DEFINE m == Head(queue)
  <2>2. CASE \E where \in {"handling", "resetting"} : Begun(m, where)
    BY <1>10, <2>1, <2>2, IdBounds DEF Receive, Begun, TypeOK, Fates, Settled
  <2>3. CASE Stopping(m, "stopping")
    BY <1>10, <2>1, <2>3, IdBounds DEF Receive, Stopping, TypeOK, Fates, Settled
  <2> QED BY <1>10, <2>2, <2>3 DEF Receive, Dispatch
<1>11. ASSUME HandlerDone \/ HandlerPanics \/ HandlerTimesOut \/ RefreshStarted \/ RefreshFails
       PROVE TypeInv'
  <2>1. UnwindOrder \in Seq({"flag", "notify", "close"}) /\ UnwindOrder # <<>>
    BY DEF UnwindOrder
  <2>2. \E f \in {"done", "aborted"} : SettleCur(f)
    BY <1>11 DEF HandlerDone, HandlerPanics, HandlerTimesOut, RefreshStarted, RefreshFails
  <2>3. cur' \in 0 .. MaxMsgs /\ fate' \in [Ids -> Fates]
    BY <2>2, IdBounds DEF SettleCur, TypeOK, Fates, Settled
  <2> QED
    BY <1>11, <2>1, <2>3 DEF HandlerDone, HandlerPanics, HandlerTimesOut, RefreshStarted,
       RefreshFails, Leave, TypeOK
<1>12. ASSUME TeardownStep PROVE TypeInv'
  <2>1. todo # <<>> /\ todo \in Seq({"flag", "notify", "close"})
    BY <1>12 DEF TeardownStep, TypeOK
  <2>2. Tail(todo) \in Seq({"flag", "notify", "close"}) /\ (Len(todo) # 1 => Tail(todo) # <<>>)
    <3>1. Tail(todo) \in Seq({"flag", "notify", "close"}) /\ Len(Tail(todo)) = Len(todo) - 1
      BY <2>1, HeadTailProperties
    <3>2. Len(todo) \in Nat
      BY <2>1, LenProperties
    <3>3. Tail(todo) = <<>> => Len(Tail(todo)) = 0
      BY EmptySeq
    <3> QED BY <3>1, <3>2, <3>3
  <2>3. flag' \in BOOLEAN /\ notified' \in BOOLEAN /\ closed' \in BOOLEAN
    BY <1>12 DEF TeardownStep
  <2>4. phase' \in Phases /\ (phase' = "teardown" => todo' # <<>>)
        /\ todo' \in Seq({"flag", "notify", "close"})
    BY <1>12, <2>2 DEF TeardownStep
  <2>5. UNCHANGED <<hooks, cur, boxVars, clientVars>>
    BY <1>12 DEF TeardownStep
  <2> QED BY <2>3, <2>4, <2>5 DEF TypeOK
<1> QED
  BY <1>1, <1>2, <1>3, <1>4, <1>5, <1>6, <1>7, <1>8, <1>9, <1>10, <1>11, <1>12
     DEF Next, LoopStep, ClientStep

\* Every variable stays in its type, whatever the clients do.
THEOREM TypeCorrect == Spec => []TypeOK
<1>1. TypeInv => TypeOK
  BY DEF TypeInv
<1> QED BY TypeInit, TypeStep, <1>1, PTL DEF Spec

-----------------------------------------------------------------------------
(* The bookkeeping of payloads                                             *)

In(x, q)  == \E k \in DOMAIN q : q[k] = x
Sorted(q) == \A j, k \in DOMAIN q : j < k => q[j] < q[k]

\* A payload newer than all in a sorted queue joins it at the back.
LEMMA AppendFacts ==
  ASSUME NEW q \in Seq(Nat), NEW m \in Nat, Sorted(q), \A k \in DOMAIN q : q[k] < m
  PROVE  /\ Sorted(Append(q, m))
         /\ \A x : In(x, Append(q, m)) <=> (x = m \/ In(x, q))
<1>1. /\ DOMAIN q = 1 .. Len(q) /\ Len(q) \in Nat
      /\ DOMAIN Append(q, m) = 1 .. Len(q) + 1
      /\ \A i \in 1 .. Len(q) : Append(q, m)[i] = q[i]
      /\ Append(q, m)[Len(q) + 1] = m
      /\ q \in [1 .. Len(q) -> Nat]
  BY LenProperties, AppendProperties
<1>2. Sorted(Append(q, m))
  BY <1>1 DEF Sorted
<1>3. ASSUME NEW x PROVE In(x, Append(q, m)) <=> (x = m \/ In(x, q))
  BY <1>1 DEF In
<1> QED BY <1>2, <1>3

\* Taking the head of a sorted queue removes its smallest element and no other.
LEMMA TailFacts ==
  ASSUME NEW q \in Seq(Nat), q # <<>>, Sorted(q)
  PROVE  /\ Head(q) \in Nat /\ In(Head(q), q) /\ \A x : In(x, q) => Head(q) <= x
         /\ Tail(q) \in Seq(Nat) /\ Sorted(Tail(q))
         /\ \A x : In(x, Tail(q)) <=> (In(x, q) /\ x # Head(q))
<1>1. /\ DOMAIN q = 1 .. Len(q) /\ Len(q) \in Nat /\ Len(q) # 0
      /\ q \in [1 .. Len(q) -> Nat]
  BY LenProperties, EmptySeq
<1>2. Head(q) = q[1]
  OBVIOUS
<1>3. /\ Tail(q) \in Seq(Nat) /\ Len(Tail(q)) = Len(q) - 1
      /\ \A i \in 1 .. Len(Tail(q)) : Tail(q)[i] = q[i + 1]
  BY HeadTailProperties
<1>4. DOMAIN Tail(q) = 1 .. Len(q) - 1
  BY <1>3, LenProperties
<1>5. Head(q) \in Nat /\ In(Head(q), q) /\ \A x : In(x, q) => Head(q) <= x
  BY <1>1, <1>2 DEF In, Sorted
<1>6. Sorted(Tail(q))
  BY <1>1, <1>3, <1>4 DEF Sorted
<1>7. ASSUME NEW x PROVE In(x, Tail(q)) <=> (In(x, q) /\ x # Head(q))
  <2>1. CASE In(x, Tail(q))
    <3>1. PICK k \in 1 .. Len(q) - 1 : Tail(q)[k] = x
      BY <1>4, <2>1 DEF In
    <3>2. x = q[k + 1] /\ k + 1 \in DOMAIN q /\ 1 \in DOMAIN q /\ 1 < k + 1
      BY <1>1, <1>3, <3>1
    <3>3. q[1] < q[k + 1]
      BY <3>2 DEF Sorted
    <3>4. In(x, q)
      BY <3>2 DEF In
    <3>5. q[1] \in Nat /\ q[k + 1] \in Nat
      BY <1>1, <3>2
    <3>6. x # Head(q)
      BY <1>2, <3>2, <3>3, <3>5
    <3> QED BY <2>1, <3>4, <3>6
  <2>2. CASE In(x, q) /\ x # Head(q)
    <3>1. PICK k \in DOMAIN q : q[k] = x
      BY <2>2 DEF In
    <3>2. k # 1 /\ k \in 1 .. Len(q)
      BY <1>1, <1>2, <2>2, <3>1
    <3>3. k - 1 \in 1 .. Len(q) - 1 /\ (k - 1) + 1 = k
      BY <1>1, <3>2
    <3>4. Tail(q)[k - 1] = q[k]
      BY <1>3, <3>3
    <3> QED BY <1>4, <2>2, <3>1, <3>3, <3>4 DEF In
  <2> QED BY <2>1, <2>2
<1> QED BY <1>3, <1>5, <1>6, <1>7

\* Accounted, OldestFirst and the order of the queue, which they need.
Books == Accounted /\ OldestFirst /\ Sorted(queue)

\* What the books say, in terms of In.
LEMMA BooksFacts ==
  ASSUME TypeInv, Books
  PROVE  /\ queue \in Seq(Nat) /\ sent \in Nat
         /\ \A i \in Ids : i \in Nat
         /\ \A i \in Ids : fate[i] = "unsent" <=> i > sent
         /\ \A i \in Ids : fate[i] = "queued" <=> In(i, queue)
         /\ \A i \in Ids : fate[i] = "running" <=> i = cur
         /\ \A x : In(x, queue) => x \in Ids /\ x <= sent
<1>1. queue \in Seq(Ids) /\ Ids \subseteq Nat
  BY DEF TypeInv, TypeOK, Ids
<1>2. queue \in Seq(Nat) /\ \A k \in DOMAIN queue : queue[k] \in Ids
  <2>1. queue \in [1 .. Len(queue) -> Ids]
    BY <1>1, LenProperties
  <2>2. queue \in Seq(Nat)
    BY <1>1, SeqMonotonic
  <2> QED BY <2>1, <2>2
<1>3. \A i \in Ids : /\ fate[i] = "unsent" <=> i > sent
                     /\ fate[i] = "queued" <=> In(i, queue)
                     /\ fate[i] = "running" <=> i = cur
  BY DEF Books, Accounted, In
<1>4. ASSUME NEW x, In(x, queue) PROVE x \in Ids /\ x <= sent
  <2>1. x \in Ids /\ In(x, queue)
    BY <1>2, <1>4 DEF In
  <2>2. fate[x] = "queued"
    BY <1>3, <2>1
  <2>3. ~(x > sent)
    BY <1>3, <2>1, <2>2
  <2> QED BY <1>1, <2>1, <2>3 DEF TypeInv, TypeOK
<1> QED BY <1>1, <1>2, <1>3, <1>4 DEF TypeInv, TypeOK

\* Accepting a payload keeps the books, evicted ones included.
LEMMA AcceptBooks ==
  ASSUME TypeInv, Books, NEW ld, NEW forced \in BOOLEAN, Accept(ld, forced), cur' = cur
  PROVE  Books'
<1> DEFINE n == sent + 1
           lost == IF forced THEN Evicted(queue) ELSE {}
<1>0. /\ queue \in Seq(Nat) /\ sent \in Nat
      /\ \A i \in Ids : i \in Nat
      /\ \A i \in Ids : fate[i] = "unsent" <=> i > sent
      /\ \A i \in Ids : fate[i] = "queued" <=> In(i, queue)
      /\ \A i \in Ids : fate[i] = "running" <=> i = cur
      /\ \A x : In(x, queue) => x \in Ids /\ x <= sent
      /\ Sorted(queue)
  BY BooksFacts DEF Books
<1>1. /\ sent' = n /\ n \in Ids /\ n \in Nat
      /\ fate' = [i \in Ids |-> IF i = n THEN "queued" ELSE IF i \in lost THEN "evicted" ELSE fate[i]]
      /\ queue' = IF forced THEN ForcePushed(queue, n) ELSE Append(queue, n)
  BY <1>0, ActorAssumption DEF Accept, Ids
<1>2. \E q \in Seq(Nat) :
        /\ Sorted(q)
        /\ queue' = Append(q, n)
        /\ \A x : In(x, q) <=> (In(x, queue) /\ x \notin lost)
        /\ \A x \in lost : In(x, queue)
  <2>1. CASE forced /\ Full(queue)
    <3>1. queue # <<>>
      BY <1>0, <2>1, ForcePushedType, <1>1
    <3>2. lost = {Head(queue)} /\ queue' = Append(Tail(queue), n)
      BY <1>1, <2>1 DEF Evicted, ForcePushed
    <3> QED BY <1>0, <3>1, <3>2, TailFacts
  <2>2. CASE ~(forced /\ Full(queue))
    <3>1. lost = {} /\ queue' = Append(queue, n)
      BY <1>1, <2>2 DEF Evicted, ForcePushed
    <3> QED BY <1>0, <3>1
  <2> QED BY <2>1, <2>2
<1>3. PICK q \in Seq(Nat) :
        /\ Sorted(q)
        /\ queue' = Append(q, n)
        /\ \A x : In(x, q) <=> (In(x, queue) /\ x \notin lost)
        /\ \A x \in lost : In(x, queue)
  BY <1>2
<1>4. \A k \in DOMAIN q : q[k] < n
  <2> SUFFICES ASSUME NEW k \in DOMAIN q PROVE q[k] < n
    OBVIOUS
  <2>1. In(q[k], queue)
    BY <1>3 DEF In
  <2> QED BY <1>0, <2>1
<1>5. /\ Sorted(queue')
      /\ \A x : In(x, queue') <=> (x = n \/ (In(x, queue) /\ x \notin lost))
  <2>1. Sorted(q) /\ n \in Nat /\ queue' = Append(q, n)
    BY <1>1, <1>3
  <2>2. /\ Sorted(Append(q, n))
        /\ \A x : In(x, Append(q, n)) <=> (x = n \/ In(x, q))
    <3> HIDE DEF n
    <3> QED BY <2>1, <1>4, AppendFacts
  <2>3. Sorted(queue') /\ \A x : In(x, queue') <=> (x = n \/ In(x, q))
    BY <2>1, <2>2
  <2> QED BY <1>3, <2>3
<1>6. \A i \in Ids : fate'[i] = "unsent" <=> i > sent'
  BY <1>0, <1>1, <1>3
<1>7. \A i \in Ids : fate'[i] = "queued" <=> In(i, queue')
  BY <1>0, <1>1, <1>5
<1>8. \A i \in Ids : fate'[i] = "running" <=> i = cur'
  BY <1>0, <1>1, <1>3
<1>9. Accounted'
  BY <1>6, <1>7, <1>8 DEF Accounted, In
<1>10. OldestFirst'
  <2> SUFFICES ASSUME NEW i \in Ids, NEW j \in Ids, i < j, fate'[j] \in Taken
               PROVE  fate'[i] \in Settled
    BY DEF OldestFirst
  <2>1. j # n /\ j \notin lost /\ fate[j] \in Taken
    BY <1>1 DEF Taken
  <2>2. fate[i] \in Settled
    BY <2>1 DEF Books, OldestFirst
  <2>3. i # n
    BY <1>0, <1>1, <2>2 DEF Settled
  <2> QED BY <1>1, <2>2, <2>3 DEF Settled
<1> QED BY <1>5, <1>9, <1>10 DEF Books

\* Taking the oldest payload keeps the books, whether it runs or is a stop.
LEMMA ReceiveBooks ==
  ASSUME TypeInv, Books, cur = 0, Receive
  PROVE  Books'
<1> DEFINE m == Head(queue)
<1>0. /\ queue \in Seq(Nat) /\ sent \in Nat /\ queue # <<>>
      /\ \A i \in Ids : i \in Nat
      /\ \A i \in Ids : fate[i] = "unsent" <=> i > sent
      /\ \A i \in Ids : fate[i] = "queued" <=> In(i, queue)
      /\ \A i \in Ids : fate[i] = "running" <=> i = cur
      /\ \A x : In(x, queue) => x \in Ids /\ x <= sent
      /\ Sorted(queue) /\ 0 \notin Ids
  BY BooksFacts DEF Books, Receive, Ids
<1>1. /\ m \in Ids /\ In(m, queue) /\ \A x : In(x, queue) => m <= x
      /\ Sorted(Tail(queue))
      /\ \A x : In(x, Tail(queue)) <=> (In(x, queue) /\ x # m)
  BY <1>0, TailFacts
<1>2. /\ queue' = Tail(queue) /\ sent' = sent
      /\ \/ cur' = m /\ fate' = [fate EXCEPT ![m] = "running"]
         \/ cur' = 0 /\ fate' = [fate EXCEPT ![m] = "done"]
  BY DEF Receive, Dispatch, Begun, Stopping
<1>3. /\ fate'[m] \in {"running", "done"} /\ (fate'[m] = "running" <=> cur' = m)
      /\ cur' \in {0, m}
      /\ \A i \in Ids : i # m => fate'[i] = fate[i]
  BY <1>0, <1>1, <1>2 DEF TypeInv, TypeOK
<1>4. \A i \in Ids : fate'[i] = "unsent" <=> i > sent'
  BY <1>0, <1>1, <1>2, <1>3
<1>5. \A i \in Ids : fate'[i] = "queued" <=> In(i, queue')
  BY <1>0, <1>1, <1>2, <1>3
<1>6. \A i \in Ids : fate'[i] = "running" <=> i = cur'
  BY <1>0, <1>1, <1>3
<1>7. Accounted'
  BY <1>4, <1>5, <1>6 DEF Accounted, In
<1>8. OldestFirst'
  <2> SUFFICES ASSUME NEW i \in Ids, NEW j \in Ids, i < j, fate'[j] \in Taken
               PROVE  fate'[i] \in Settled
    BY DEF OldestFirst
  <2>1. CASE j = m
    <3>1. ~In(i, queue) /\ i <= sent /\ i # cur /\ i # m
      BY <1>0, <1>1, <2>1
    <3>2. fate[i] \in Fates /\ fate[i] \notin {"unsent", "queued", "running"}
      BY <1>0, <3>1 DEF TypeInv, TypeOK
    <3> QED BY <1>3, <3>1, <3>2 DEF Fates
  <2>2. CASE j # m
    <3>1. fate[j] \in Taken /\ fate[i] \in Settled
      BY <1>3, <2>2 DEF Books, OldestFirst
    <3>2. i # m
      BY <1>0, <1>1, <3>1 DEF Settled
    <3> QED BY <1>3, <3>1, <3>2
  <2> QED BY <2>1, <2>2
<1> QED BY <1>1, <1>2, <1>7, <1>8 DEF Books

\* Settling the payload that was running keeps the books.
LEMMA SettleBooks ==
  ASSUME TypeInv, Books, cur # 0, NEW f \in {"done", "aborted"}, SettleCur(f),
         UNCHANGED <<queue, sent>>
  PROVE  Books'
<1>0. cur \in Ids /\ 0 \notin Ids
  BY IdBounds DEF TypeInv, TypeOK, Ids
<1>1. cur' = 0 /\ fate'[cur] = f /\ \A i \in Ids : i # cur => fate'[i] = fate[i]
  BY <1>0 DEF SettleCur, TypeInv, TypeOK
<1>2. fate[cur] = "running" /\ \A i \in Ids : fate[i] = "running" => i = cur
  BY <1>0 DEF Books, Accounted
<1>3. Accounted'
  <2> SUFFICES ASSUME NEW i \in Ids
               PROVE  /\ fate'[i] = "unsent" <=> i > sent
                      /\ fate'[i] = "queued" <=> \E k \in DOMAIN queue : queue[k] = i
                      /\ ~(fate'[i] = "running") /\ i # 0
    BY <1>1 DEF Accounted
  <2> QED BY <1>0, <1>1, <1>2 DEF Books, Accounted
<1>4. OldestFirst'
  <2> SUFFICES ASSUME NEW i \in Ids, NEW j \in Ids, i < j, fate'[j] \in Taken
               PROVE  fate'[i] \in Settled
    BY DEF OldestFirst
  <2>1. fate[j] \in Taken
    BY <1>1, <1>2 DEF Taken
  <2>2. fate[i] \in Settled
    BY <2>1 DEF Books, OldestFirst
  <2> QED BY <1>1, <1>2, <2>2 DEF Settled
<1> QED BY <1>3, <1>4 DEF Books

-----------------------------------------------------------------------------
(* The life cycle                                                          *)

Serving == {"handling", "resetting", "restarting"}

\* The loop has a payload in its hands exactly while it serves it.
CurShape ==
  /\ phase \in Serving <=> cur # 0
  /\ phase = "handling" => load[cur] \in {"task", "ping"}
  /\ phase \in {"resetting", "restarting"} => load[cur] = "restart"

\* How far teardown has come; in both orders the flag goes before the notice.
TeardownShape ==
  /\ ~Over => flag /\ ~notified
  /\ phase = "teardown" =>
       \/ flag /\ ~notified /\ todo \in {FinishOrder, UnwindOrder, <<"flag", "notify">>}
       \/ ~flag /\ ~notified /\ todo \in {<<"notify", "close">>, <<"notify">>}
       \/ ~flag /\ notified /\ todo = <<"close">>
  /\ phase = "done" => ~flag /\ notified

\* A stop that was taken has ended the receiving.
StopTaken ==
  \A s \in Ids : load[s] = "stop" /\ fate[s] = "done" => phase = "stopping" \/ Over

Life == CurShape /\ TeardownShape /\ StopTaken /\ StopIsBarrier /\ HooksBracket

Inv == TypeInv /\ Books /\ Life /\ OpenWhileHeld

\* A payload enters the mailbox, or nothing happens to the mailbox; the loop
\* does not move.
Outside ==
  /\ UNCHANGED loopVars
  /\ \/ UNCHANGED boxVars
     \/ \E ld \in Loads, forced \in BOOLEAN : Accept(ld, forced)

LEMMA LifeInit == Init => Books /\ Life /\ OpenWhileHeld
<1> SUFFICES ASSUME Init PROVE Books /\ Life /\ OpenWhileHeld
  OBVIOUS
<1>1. queue = <<>> /\ DOMAIN queue = {}
  BY DEF Init
<1>2. \A i \in Ids : fate[i] = "unsent" /\ i > 0 /\ i # 0
  BY DEF Init, Ids
<1>3. sent = 0 /\ cur = 0
  BY DEF Init
<1>4. Books
  BY <1>1, <1>2, <1>3 DEF Books, Accounted, OldestFirst, Sorted, Taken
<1>5. Life
  BY <1>2, <1>3 DEF Init, Life, CurShape, TeardownShape, StopTaken, StopIsBarrier,
     HooksBracket, Over, Serving
<1>6. HeldBy(handle) /\ closed = FALSE
  BY ActorAssumption DEF Init, HeldBy, IsStrong
<1> QED BY <1>4, <1>5, <1>6 DEF OpenWhileHeld

\* What the clients and the Context do to the mailbox.
LEMMA OutsideSteps ==
  ASSUME TypeInv
  PROVE  /\ \A c \in Clients : \A o \in OpsOf[c] : Begin(c, o) \/ Upgrade(c, o) => Outside
         /\ \A c \in Clients : ClientStep(c) \/ HandleStep(c) => Outside
         /\ \A ld \in CtxLoads : CtxPush(ld) => Outside
<1>1. ASSUME NEW c \in Clients, NEW o \in OpsOf[c], Begin(c, o) \/ Upgrade(c, o)
      PROVE  Outside
  BY <1>1 DEF Begin, Upgrade, Start, Outside
<1>2. ASSUME NEW c \in Clients, Check(c) \/ GetReply(c) \/ AwaitStopped(c) \/ HandleStep(c)
      PROVE  Outside
  BY <1>2 DEF Check, GetReply, AwaitStopped, HandleStep, DropHandle, KeepUpgrade, Downgrade,
     Share, Outside
<1>3. ASSUME NEW c \in Clients, Push(c) PROVE Outside
  <2>1. op[c].load \in Loads /\ (op[c].push = "force") \in BOOLEAN
    BY DEF TypeInv, TypeOK, Operation
  <2> QED BY <1>3, <2>1 DEF Push, Outside
<1>4. ASSUME NEW ld \in CtxLoads, CtxPush(ld) PROVE Outside
  <2>1. ld \in Loads
    BY <1>4, ActorAssumption DEF Loads
  <2>2. Accept(ld, TRUE) /\ UNCHANGED loopVars
    BY <1>4 DEF CtxPush
  <2> QED BY <2>1, <2>2 DEF Outside
<1> QED BY <1>1, <1>2, <1>3, <1>4 DEF ClientStep

\* Nothing that happens outside the loop disturbs the books or the life cycle.
LEMMA OutsideLife ==
  ASSUME TypeInv, Books, Life, Outside
  PROVE  Books' /\ Life'
<1>1. /\ phase' = phase /\ todo' = todo /\ hooks' = hooks /\ cur' = cur
      /\ flag' = flag /\ notified' = notified
  BY DEF Outside, loopVars
<1>2. CASE UNCHANGED boxVars
  BY <1>1, <1>2 DEF boxVars, Books, Accounted, OldestFirst, Sorted, Life, CurShape, TeardownShape,
     StopTaken, StopIsBarrier, HooksBracket, Over
<1>3. ASSUME NEW ld \in Loads, NEW forced \in BOOLEAN, Accept(ld, forced)
      PROVE  Books' /\ Life'
  <2>1. Books'
    BY <1>1, <1>3, AcceptBooks
  <2>2. \A i \in Ids : /\ fate[i] \in Taken => fate'[i] = fate[i] /\ load'[i] = load[i]
                       /\ fate'[i] \in Taken => fate'[i] = fate[i] /\ load'[i] = load[i]
    <3> SUFFICES ASSUME NEW i \in Ids
                 PROVE  /\ fate[i] \in Taken => fate'[i] = fate[i] /\ load'[i] = load[i]
                        /\ fate'[i] \in Taken => fate'[i] = fate[i] /\ load'[i] = load[i]
      OBVIOUS
    <3> DEFINE lost == IF forced THEN Evicted(queue) ELSE {}
    <3>1. /\ fate'[i] = IF i = sent + 1 THEN "queued" ELSE IF i \in lost THEN "evicted" ELSE fate[i]
          /\ i # sent + 1 => load'[i] = load[i]
      BY <1>3 DEF Accept, TypeInv, TypeOK
    <3>2. fate[sent + 1] = "unsent" /\ sent + 1 \in Ids
      BY <1>3, AcceptType DEF Books, Accounted, TypeInv, TypeOK
    <3>3. i \in lost => fate[i] = "queued"
      <4>1. ASSUME i \in lost PROVE In(i, queue)
        <5>1. Full(queue) /\ i = Head(queue)
          BY <4>1 DEF Evicted
        <5>2. queue \in Seq(Nat) /\ Sorted(queue) /\ queue # <<>>
          BY <5>1, BooksFacts, ForcePushedType DEF Books
        <5> QED BY <5>1, <5>2, TailFacts
      <4> QED BY <4>1, BooksFacts
    <3> QED BY <3>1, <3>2, <3>3 DEF Taken
  <2>3. cur # 0 => cur \in Ids /\ fate[cur] = "running"
    BY IdBounds DEF Books, Accounted, TypeInv, TypeOK, Ids
  <2>4. cur # 0 => load'[cur] = load[cur]
    BY <2>2, <2>3 DEF Taken
  <2>5. CurShape'
    BY <1>1, <2>4 DEF Life, CurShape, Serving
  <2>6. TeardownShape' /\ HooksBracket'
    BY <1>1 DEF Life, TeardownShape, HooksBracket, Over
  <2>7. StopTaken'
    BY <1>1, <2>2 DEF Life, StopTaken, Over, Taken
  <2>8. StopIsBarrier'
    BY <2>2 DEF Life, StopIsBarrier, Taken
  <2> QED BY <2>1, <2>5, <2>6, <2>7, <2>8 DEF Life
<1> QED BY <1>2, <1>3 DEF Outside

\* A step of the loop keeps the books.
LEMMA LoopBooks ==
  ASSUME TypeInv, Books, Life, LoopStep
  PROVE  Books'
<1>1. CASE UNCHANGED <<cur, boxVars>>
  BY <1>1 DEF boxVars, Books, Accounted, OldestFirst, Sorted
<1>2. CASE Receive
  <2>1. cur = 0
    BY <1>2 DEF Receive, Life, CurShape, Serving
  <2> QED BY <1>2, <2>1, ReceiveBooks
<1>3. ASSUME NEW f \in {"done", "aborted"}, SettleCur(f), phase \in Serving, UNCHANGED <<queue, sent>>
      PROVE  Books'
  BY <1>3, SettleBooks DEF Life, CurShape
<1> QED
  BY <1>1, <1>2, <1>3 DEF LoopStep, StartedOk, StartedFails, ReceiveClosed, HandlerDone,
     HandlerPanics, HandlerTimesOut, CancelledReturns, RefreshStopped, RefreshStarted,
     RefreshFails, StoppedReturns, StoppedPanics, TeardownStep, Serving

\* The first step of each stage of teardown, and what remains after it.
LEMMA TodoFacts ==
  /\ Head(FinishOrder) = "flag" /\ Len(FinishOrder) = 3 /\ Tail(FinishOrder) = <<"notify", "close">>
  /\ Head(UnwindOrder) = "close" /\ Len(UnwindOrder) = 3 /\ Tail(UnwindOrder) = <<"flag", "notify">>
  /\ Head(<<"flag", "notify">>) = "flag" /\ Len(<<"flag", "notify">>) = 2
  /\ Tail(<<"flag", "notify">>) = <<"notify">>
  /\ Head(<<"notify", "close">>) = "notify" /\ Len(<<"notify", "close">>) = 2
  /\ Tail(<<"notify", "close">>) = <<"close">>
  /\ Head(<<"notify">>) = "notify" /\ Len(<<"notify">>) = 1
  /\ Head(<<"close">>) = "close" /\ Len(<<"close">>) = 1
  BY DEF FinishOrder, UnwindOrder

\* Only a payload in the hands of the loop is settled by it, so a stop is never
\* "done" before it was taken from the mailbox.
LEMMA LoopLife ==
  ASSUME TypeInv, Books, Life, LoopStep
  PROVE  Life'
<1>1. load' = load
  BY DEF LoopStep, StartedOk, StartedFails, Receive, ReceiveClosed, HandlerDone, boxVars,
     HandlerPanics, HandlerTimesOut, CancelledReturns, RefreshStopped, RefreshStarted,
     RefreshFails, StoppedReturns, StoppedPanics, TeardownStep
<1>2. CASE StartedOk \/ StartedFails \/ ReceiveClosed \/ StoppedReturns \/ StoppedPanics \/ CancelledReturns
  <2>1. UNCHANGED <<cur, fate, load, flag, notified>>
    BY <1>2 DEF StartedOk, StartedFails, ReceiveClosed, StoppedReturns, StoppedPanics,
       CancelledReturns, boxVars
  <2>2. phase \notin Serving /\ phase' \notin Serving /\ ~Over
        /\ phase' \in {"waiting", "stopping", "teardown"}
    BY <1>2 DEF StartedOk, StartedFails, ReceiveClosed, StoppedReturns, StoppedPanics,
       CancelledReturns, Leave, Serving, Over
  <2>3. CurShape' /\ StopIsBarrier'
    BY <2>1, <2>2 DEF Life, CurShape, StopIsBarrier, Serving
  <2>4. TeardownShape'
    BY <1>2, <2>1, <2>2 DEF StartedOk, StartedFails, ReceiveClosed, StoppedReturns, StoppedPanics,
       CancelledReturns, Leave, Life, TeardownShape, Over
  <2>5. StopTaken' /\ HooksBracket'
    BY <1>2, <2>1, <2>2 DEF StartedOk, StartedFails, ReceiveClosed, StoppedReturns, StoppedPanics,
       CancelledReturns, Leave, Life, StopTaken, HooksBracket, Over
  <2> QED BY <2>3, <2>4, <2>5 DEF Life
<1>3. CASE Receive
  <2> DEFINE m == Head(queue)
  <2>1. /\ cur = 0 /\ phase = "waiting" /\ flag /\ ~notified /\ hooks = "up"
        /\ \A s \in Ids : ~(load[s] = "stop" /\ fate[s] = "done")
    BY <1>3 DEF Receive, Life, CurShape, TeardownShape, StopTaken, HooksBracket, Over, Serving
  <2>2. m \in Ids /\ fate[m] = "queued" /\ m # 0
    <3>1. queue # <<>> /\ queue \in Seq(Nat) /\ Sorted(queue)
      BY <1>3, BooksFacts DEF Receive, Books
    <3>2. In(m, queue)
      BY <3>1, TailFacts
    <3> QED BY <3>2, BooksFacts DEF Ids
  <2>3. /\ \/ phase' = "handling" /\ cur' = m /\ fate'[m] = "running" /\ load[m] \in {"task", "ping"}
           \/ phase' = "resetting" /\ cur' = m /\ fate'[m] = "running" /\ load[m] = "restart"
           \/ phase' = "stopping" /\ cur' = 0 /\ fate'[m] = "done" /\ load[m] = "stop"
        /\ \A i \in Ids : i # m => fate'[i] = fate[i]
        /\ UNCHANGED <<hooks, flag, notified>>
    BY <1>3, <2>2 DEF Receive, Dispatch, Begun, Stopping, TypeInv, TypeOK
  <2>4. CurShape' /\ TeardownShape' /\ HooksBracket'
    BY <1>1, <2>1, <2>2, <2>3 DEF CurShape, TeardownShape, HooksBracket, Over, Serving
  <2>5. StopTaken'
    BY <1>1, <2>1, <2>3 DEF StopTaken
  <2>6. StopIsBarrier'
    <3> SUFFICES ASSUME NEW s \in Ids, NEW j \in Ids,
                        load'[s] = "stop", fate'[s] = "done", s < j, fate'[j] \in Taken
                 PROVE  FALSE
      BY DEF StopIsBarrier
    <3>1. s = m
      BY <1>1, <2>1, <2>3
    <3>2. j # m /\ fate[j] \in Taken
      BY <2>3, <3>1 DEF Ids
    <3>3. fate[m] \in Settled
      BY <2>2, <3>1, <3>2 DEF Books, OldestFirst
    <3> QED BY <2>2, <3>3 DEF Settled
  <2> QED BY <2>4, <2>5, <2>6 DEF Life
<1>4. CASE HandlerDone \/ HandlerPanics \/ HandlerTimesOut \/ RefreshStarted \/ RefreshFails
  <2>1. /\ cur \in Ids /\ cur' = 0 /\ fate[cur] = "running" /\ load[cur] # "stop"
        /\ \A i \in Ids : i # cur => fate'[i] = fate[i]
    <3>1. \E f \in {"done", "aborted"} : SettleCur(f)
      BY <1>4 DEF HandlerDone, HandlerPanics, HandlerTimesOut, RefreshStarted, RefreshFails
    <3>2. cur # 0 /\ load[cur] # "stop"
      BY <1>4 DEF HandlerDone, HandlerPanics, HandlerTimesOut, RefreshStarted, RefreshFails,
         Life, CurShape, Serving
    <3>3. cur \in Ids
      BY <3>2, IdBounds DEF TypeInv, TypeOK, Ids
    <3> QED BY <3>1, <3>2, <3>3 DEF SettleCur, TypeInv, TypeOK, Books, Accounted
  <2>2. /\ phase \in Serving /\ phase' \in {"waiting", "cancelling", "teardown"}
        /\ flag /\ ~notified /\ UNCHANGED <<flag, notified>>
        /\ phase' = "teardown" => todo' = UnwindOrder
        /\ phase' = "waiting" \/ phase' = "cancelling" => hooks' = "up"
    BY <1>4 DEF HandlerDone, HandlerPanics, HandlerTimesOut, RefreshStarted, RefreshFails, Leave,
       Serving, Life, TeardownShape, HooksBracket, Over
  <2>3. CurShape' /\ TeardownShape' /\ HooksBracket'
    BY <2>1, <2>2 DEF CurShape, TeardownShape, HooksBracket, Over, Serving
  <2>4. \A s \in Ids : ~(load'[s] = "stop" /\ fate'[s] = "done")
    BY <1>1, <2>1, <2>2 DEF Life, StopTaken, Over, Serving
  <2> QED BY <2>3, <2>4 DEF Life, StopTaken, StopIsBarrier
<1>5. CASE RefreshStopped
  BY <1>5 DEF RefreshStopped, boxVars, Life, CurShape, TeardownShape, StopTaken, StopIsBarrier,
     HooksBracket, Over, Serving
<1>6. CASE TeardownStep
  <2>1. /\ UNCHANGED <<hooks, cur, fate, load>> /\ phase = "teardown"
        /\ phase' \in {"teardown", "done"}
    BY <1>6 DEF TeardownStep, boxVars
  <2>2. CurShape' /\ StopTaken' /\ StopIsBarrier' /\ HooksBracket'
    BY <2>1 DEF Life, CurShape, StopTaken, StopIsBarrier, HooksBracket, Over, Serving
  <2>3. TeardownShape'
    <3>0. /\ todo' = Tail(todo) /\ phase' = IF Len(todo) = 1 THEN "done" ELSE "teardown"
          /\ (flag' <=> flag /\ Head(todo) # "flag")
          /\ (notified' <=> notified \/ Head(todo) = "notify")
      BY <1>6 DEF TeardownStep
    <3>1. CASE flag /\ ~notified /\ todo = FinishOrder
      BY <2>1, <3>0, <3>1, TodoFacts DEF TeardownShape, Over
    <3>2. CASE flag /\ ~notified /\ todo = UnwindOrder
      BY <2>1, <3>0, <3>2, TodoFacts DEF TeardownShape, Over
    <3>3. CASE flag /\ ~notified /\ todo = <<"flag", "notify">>
      BY <2>1, <3>0, <3>3, TodoFacts DEF TeardownShape, Over
    <3>4. CASE ~flag /\ ~notified /\ todo = <<"notify", "close">>
      BY <2>1, <3>0, <3>4, TodoFacts DEF TeardownShape, Over
    <3>5. CASE ~flag /\ ~notified /\ todo = <<"notify">>
      BY <2>1, <3>0, <3>5, TodoFacts DEF TeardownShape, Over
    <3>6. CASE ~flag /\ notified /\ todo = <<"close">>
      BY <2>1, <3>0, <3>6, TodoFacts DEF TeardownShape, Over
    <3> QED BY <2>1, <3>1, <3>2, <3>3, <3>4, <3>5, <3>6 DEF Life, TeardownShape
  <2> QED BY <2>2, <2>3 DEF Life
<1> QED
  BY <1>2, <1>3, <1>4, <1>5, <1>6 DEF LoopStep

\* What ends an operation or drops a handle closes the channel with the last
\* strong one, and never before.
LEMMA ReleaseHeld ==
  ASSUME TypeInv, closed <=> ~HeldBy(handle),
         handle' \in [Clients -> {"strong", "weak", "temp", "none"}],
         \A c \in Clients : IsStrong(handle'[c]) => IsStrong(handle[c]),
         closed' = ClosedBy(handle')
  PROVE  closed' <=> ~HeldBy(handle')
  BY DEF ClosedBy, HeldBy

LEMMA ReturnHeld ==
  ASSUME TypeInv, closed <=> ~HeldBy(handle), NEW c \in Clients, NEW r \in Results, Return(c, r)
  PROVE  closed' <=> ~HeldBy(handle')
<1>1. \A d \in Clients : IsStrong(handle'[d]) => IsStrong(handle[d])
  BY DEF Return, IsStrong, TypeInv, TypeOK
<1> QED BY <1>1, ReturnType, ReleaseHeld DEF Return

LEMMA HeldStep ==
  ASSUME TypeInv, OpenWhileHeld, Next, ~Over'
  PROVE  closed' <=> ~HeldBy(handle')
<1>1. ~Over /\ (closed <=> ~HeldBy(handle))
  <2>1. Over => Over'
    BY DEF Next, LoopStep, StartedOk, StartedFails, Receive, ReceiveClosed, HandlerDone, loopVars,
       HandlerPanics, HandlerTimesOut, CancelledReturns, RefreshStopped, RefreshStarted,
       RefreshFails, StoppedReturns, StoppedPanics, TeardownStep, ClientStep, Begin, Upgrade, Start,
       Check, Push, GetReply, AwaitStopped, HandleStep, DropHandle, KeepUpgrade, Downgrade, Share, CtxPush, Over
  <2> QED BY <2>1 DEF OpenWhileHeld
<1>2. CASE UNCHANGED <<closed, handle>>
  BY <1>1, <1>2 DEF HeldBy
<1>3. CASE LoopStep
  <2>1. UNCHANGED <<closed, handle>>
    BY <1>1, <1>3 DEF LoopStep, StartedOk, StartedFails, Receive, ReceiveClosed, HandlerDone,
       HandlerPanics, HandlerTimesOut, CancelledReturns, RefreshStopped, RefreshStarted,
       RefreshFails, StoppedReturns, StoppedPanics, TeardownStep, clientVars, Over
  <2> QED BY <1>2, <2>1
<1>4. ASSUME NEW ld \in CtxLoads, CtxPush(ld) PROVE UNCHANGED <<closed, handle>>
  BY <1>4 DEF CtxPush, clientVars
<1>5. ASSUME NEW c \in Clients, NEW o \in OpsOf[c], Begin(c, o) \/ Upgrade(c, o)
      PROVE  closed' <=> ~HeldBy(handle')
  <2>1. CASE UNCHANGED <<closed, handle>>
    BY <1>2, <2>1
  <2>2. CASE ~closed /\ closed' = closed /\ handle' = [handle EXCEPT ![c] = "temp"]
    <3>1. IsStrong(handle'[c])
      BY <2>2 DEF TypeInv, TypeOK, IsStrong
    <3> QED BY <2>2, <3>1 DEF HeldBy
  <2> QED BY <1>5, <2>1, <2>2 DEF Begin, Upgrade, Start
<1>6. ASSUME NEW c \in Clients, ClientStep(c)
      PROVE  closed' <=> ~HeldBy(handle')
  <2>1. op[c].refused \in Results /\ "Ok" \in Results /\ "Canceled" \in Results
    BY DEF TypeInv, TypeOK, Operation, Results
  <2>2. UNCHANGED <<closed, handle>> \/ \E r \in Results : Return(c, r)
    BY <1>6, <2>1 DEF ClientStep, Check, Push, GetReply, AwaitStopped
  <2> QED BY <1>1, <1>2, <2>2, ReturnHeld
<1>7. ASSUME NEW c \in Clients, DropHandle(c) \/ Downgrade(c) PROVE closed' <=> ~HeldBy(handle')
  <2>1. /\ handle' \in [Clients -> {"strong", "weak", "temp", "none"}]
        /\ \A d \in Clients : IsStrong(handle'[d]) => IsStrong(handle[d])
        /\ closed' = ClosedBy(handle')
    BY <1>7 DEF DropHandle, Downgrade, IsStrong, TypeInv, TypeOK
  <2> QED BY <1>1, <2>1, ReleaseHeld
<1>8. ASSUME NEW c \in Clients, KeepUpgrade(c) PROVE closed' <=> ~HeldBy(handle')
  <2>1. IsStrong(handle'[c]) /\ ~closed'
    BY <1>8 DEF KeepUpgrade, TypeInv, TypeOK, IsStrong
  <2> QED BY <2>1 DEF HeldBy
<1>9. ASSUME NEW c \in Clients, NEW d \in Clients, NEW h \in {"strong", "weak"}, Share(c, d, h)
      PROVE  closed' <=> ~HeldBy(handle')
  <2>1. \A e \in Clients : handle'[e] = IF e = d THEN h ELSE handle[e]
    BY <1>9 DEF Share, TypeInv, TypeOK
  <2>2. handle[d] = "none" /\ (h = "strong" => handle[c] = "strong") /\ closed' = closed
    BY <1>9 DEF Share
  <2>3. IsStrong(h) => IsStrong(handle[c])
    BY <2>2 DEF IsStrong
  <2>4. HeldBy(handle') <=> HeldBy(handle)
    BY <2>1, <2>2, <2>3 DEF HeldBy, IsStrong
  <2> QED BY <1>1, <2>2, <2>4
<1> QED
  BY <1>2, <1>3, <1>4, <1>5, <1>6, <1>7, <1>8, <1>9 DEF Next, HandleStep

-----------------------------------------------------------------------------
(* The theorems                                                            *)

LEMMA InvStep == Inv /\ [Next]_vars => Inv'
<1> SUFFICES ASSUME Inv, [Next]_vars PROVE Inv'
  OBVIOUS
<1>1. TypeInv'
  BY TypeStep DEF Inv
<1>2. CASE UNCHANGED vars
  <2>1. Books' /\ Life'
    BY <1>2, OutsideLife DEF Inv, vars, Outside
  <2>2. OpenWhileHeld'
    BY <1>2 DEF Inv, vars, loopVars, clientVars, OpenWhileHeld, Over, HeldBy
  <2> QED BY <1>1, <2>1, <2>2 DEF Inv
<1>3. CASE Next
  <2>1. Outside \/ LoopStep
    BY <1>3, OutsideSteps DEF Inv, Next
  <2>2. Books' /\ Life'
    BY <2>1, OutsideLife, LoopBooks, LoopLife DEF Inv
  <2>3. OpenWhileHeld'
    BY <1>3, HeldStep DEF Inv, OpenWhileHeld
  <2> QED BY <1>1, <2>2, <2>3 DEF Inv
<1> QED BY <1>2, <1>3

\* The inductive invariant holds in every reachable state.
THEOREM Invariance == Spec => []Inv
<1>1. Init => Inv
  BY TypeInit, LifeInit DEF Inv
<1> QED BY <1>1, InvStep, PTL DEF Spec

\* No payload is lost track of, whatever is evicted, cut off or unwound.
THEOREM AccountedCorrect == Spec => []Accounted
<1>1. Inv => Accounted
  BY DEF Inv, Books
<1> QED BY Invariance, <1>1, PTL

\* Payloads are served in the order the mailbox accepted them.
THEOREM OldestFirstCorrect == Spec => []OldestFirst
<1>1. Inv => OldestFirst
  BY DEF Inv, Books
<1> QED BY Invariance, <1>1, PTL

\* Nothing accepted behind a stop that was taken is ever served.
THEOREM StopIsBarrierCorrect == Spec => []StopIsBarrier
<1>1. Inv => StopIsBarrier
  BY DEF Inv, Life
<1> QED BY Invariance, <1>1, PTL

\* Who sees the actor stopped never overlaps with its hooks and handlers.
THEOREM StopVisibleCorrect == Spec => []StopVisible
<1>1. Inv => StopVisible
  <2> SUFFICES ASSUME Inv PROVE StopVisible
    OBVIOUS
  <2>1. CurShape /\ TeardownShape
    BY DEF Inv, Life
  <2>2. ~flag => Over
    BY <2>1 DEF TeardownShape
  <2>3. Over => cur = 0
    BY <2>1 DEF CurShape, Over, Serving
  <2>4. notified => ~flag
    BY <2>1 DEF TeardownShape, Over
  <2> QED BY <2>2, <2>3, <2>4 DEF StopVisible
<1> QED BY Invariance, <1>1, PTL

\* The mailbox of a running actor is open exactly while a strong handle exists.
THEOREM OpenWhileHeldCorrect == Spec => []OpenWhileHeld
<1>1. Inv => OpenWhileHeld
  BY DEF Inv
<1> QED BY Invariance, <1>1, PTL

\* Handlers only run on an instance that is started and not stopped.
THEOREM HooksBracketCorrect == Spec => []HooksBracket
<1>1. Inv => HooksBracket
  BY DEF Inv, Life
<1> QED BY Invariance, <1>1, PTL

LEMMA FateStep ==
  ASSUME Inv, Next, NEW i \in Ids, fate[i] \in Settled
  PROVE  fate'[i] = fate[i]
<1>1. fate[i] \notin {"unsent", "queued", "running"}
  BY DEF Settled
<1>2. CASE fate' = fate
  BY <1>2
<1>3. ASSUME NEW ld \in Loads, NEW forced \in BOOLEAN, Accept(ld, forced)
      PROVE  fate'[i] = fate[i]
  <2>1. sent + 1 \in Ids /\ fate[sent + 1] = "unsent"
    BY <1>3, AcceptType DEF Inv, Books, Accounted, TypeInv, TypeOK
  <2>2. ~In(i, queue)
    BY <1>1, BooksFacts DEF Inv
  <2>3. Full(queue) => i \notin {Head(queue)}
    <3>1. queue \in Seq(Nat) /\ Sorted(queue)
      BY BooksFacts DEF Inv, Books
    <3> QED BY <2>2, <3>1, ForcePushedType, TailFacts
  <2>4. i # sent + 1
    BY <1>1, <2>1
  <2> QED BY <1>3, <2>3, <2>4 DEF Accept, Evicted
<1>4. CASE Receive
  <2>1. queue \in Seq(Nat) /\ Sorted(queue) /\ queue # <<>>
    BY <1>4, BooksFacts DEF Inv, Books, Receive
  <2>2. i # Head(queue)
    BY <1>1, <2>1, TailFacts, BooksFacts DEF Inv
  <2> QED BY <1>4, <2>2 DEF Receive, Dispatch, Begun, Stopping, Inv, TypeInv, TypeOK
<1>5. CASE \E f \in {"done", "aborted"} : SettleCur(f)
  <2>1. i # cur
    BY <1>1 DEF Inv, Books, Accounted
  <2> QED BY <1>5, <2>1 DEF SettleCur, Inv, TypeInv, TypeOK
<1>6. CASE Outside
  BY <1>2, <1>3, <1>6 DEF Outside, boxVars
<1>7. CASE LoopStep
  BY <1>2, <1>4, <1>5, <1>7 DEF LoopStep, StartedOk, StartedFails, ReceiveClosed, HandlerDone,
     HandlerPanics, HandlerTimesOut, CancelledReturns, RefreshStopped, RefreshStarted,
     RefreshFails, StoppedReturns, StoppedPanics, TeardownStep, boxVars
<1> QED BY <1>6, <1>7, OutsideSteps DEF Inv, Next

\* A settled payload stays what it became, so no handler runs twice.
THEOREM FateIsFinalCorrect == Spec => FateIsFinal
<1>1. Inv /\ [Next]_vars => [\A i \in Ids : fate[i] \in Settled => fate'[i] = fate[i]]_vars
  BY FateStep
<1> QED BY Invariance, <1>1, PTL DEF Spec, FateIsFinal

\* What a payload is does not change once it was accepted.
LEMMA LoadStep ==
  ASSUME Inv, Next, NEW i \in Ids, fate[i] # "unsent"
  PROVE  load'[i] = load[i]
<1>1. ASSUME NEW ld \in Loads, NEW forced \in BOOLEAN, Accept(ld, forced)
      PROVE  load'[i] = load[i]
  <2>1. sent + 1 \in Ids /\ fate[sent + 1] = "unsent"
    BY <1>1, AcceptType DEF Inv, Books, Accounted, TypeInv, TypeOK
  <2> QED BY <1>1, <2>1 DEF Accept, Inv, TypeInv, TypeOK
<1>2. CASE Outside
  BY <1>1, <1>2 DEF Outside, boxVars
<1>3. CASE LoopStep
  BY <1>3 DEF LoopStep, StartedOk, StartedFails, Receive, ReceiveClosed, HandlerDone,
     HandlerPanics, HandlerTimesOut, CancelledReturns, RefreshStopped, RefreshStarted,
     RefreshFails, StoppedReturns, StoppedPanics, TeardownStep, boxVars
<1> QED BY <1>2, <1>3, OutsideSteps DEF Inv, Next

\* A loop that ends in order has either found its mailbox closed and empty, or
\* has taken a stop.
Drained ==
  phase = "stopping" \/ (Over /\ Orderly) =>
    \/ closed /\ queue = <<>>
    \/ \E s \in Ids : load[s] = "stop" /\ fate[s] = "done"

\* A closed mailbox accepts nothing and does not reopen.
LEMMA ClosedStep ==
  ASSUME Inv, Next, closed, queue = <<>>
  PROVE  closed' /\ queue' = <<>>
<1>1. ASSUME NEW c \in Clients, NEW o \in OpsOf[c], Begin(c, o) \/ Upgrade(c, o)
      PROVE  UNCHANGED <<closed, queue>>
  BY <1>1 DEF Begin, Upgrade, Start, boxVars
<1>2. ASSUME NEW c \in Clients, ClientStep(c) \/ HandleStep(c)
      PROVE  closed' /\ queue' = queue
  BY <1>2 DEF ClientStep, Check, Push, GetReply, AwaitStopped, Return, ClosedBy, HandleStep,
     DropHandle, KeepUpgrade, Downgrade, Share, boxVars
<1>3. ASSUME NEW ld \in CtxLoads, CtxPush(ld) PROVE FALSE
  BY <1>3 DEF CtxPush
<1>4. CASE LoopStep
  <2>1. closed'
    BY <1>4 DEF LoopStep, StartedOk, StartedFails, Receive, ReceiveClosed, HandlerDone,
       HandlerPanics, HandlerTimesOut, CancelledReturns, RefreshStopped, RefreshStarted,
       RefreshFails, StoppedReturns, StoppedPanics, TeardownStep
  <2>2. queue' = queue
    BY <1>4 DEF LoopStep, StartedOk, StartedFails, Receive, ReceiveClosed, HandlerDone, boxVars,
       HandlerPanics, HandlerTimesOut, CancelledReturns, RefreshStopped, RefreshStarted,
       RefreshFails, StoppedReturns, StoppedPanics, TeardownStep
  <2> QED BY <2>1, <2>2
<1> QED BY <1>1, <1>2, <1>3, <1>4 DEF Next

StartShape == phase = "starting" => hooks = "new"

LEMMA StartStep == StartShape /\ [Next]_vars => StartShape'
<1> SUFFICES ASSUME StartShape, [Next]_vars PROVE StartShape'
  OBVIOUS
<1>1. CASE UNCHANGED <<phase, hooks>>
  BY <1>1 DEF StartShape
<1>2. CASE LoopStep
  BY <1>2 DEF LoopStep, StartedOk, StartedFails, Receive, Dispatch, Begun, Stopping, ReceiveClosed,
     HandlerDone, HandlerPanics, HandlerTimesOut, CancelledReturns, RefreshStopped, RefreshStarted,
     RefreshFails, StoppedReturns, StoppedPanics, TeardownStep, Leave, StartShape
<1>3. ASSUME Next, ~LoopStep PROVE UNCHANGED <<phase, hooks>>
  BY <1>3 DEF Next, Begin, Upgrade, Start, ClientStep, Check, Push, GetReply, AwaitStopped,
     HandleStep, DropHandle, KeepUpgrade, Downgrade, Share, CtxPush, loopVars
<1> QED BY <1>1, <1>2, <1>3 DEF vars, loopVars

LEMMA DrainedStep == Inv /\ StartShape /\ Drained /\ [Next]_vars => Drained'
<1> SUFFICES ASSUME Inv, StartShape, Drained, [Next]_vars PROVE Drained'
  OBVIOUS
<1>1. CASE UNCHANGED vars
  BY <1>1 DEF Drained, Over, Orderly, vars, loopVars, boxVars
<1> DEFINE Cause == \/ closed /\ queue = <<>>
                    \/ \E s \in Ids : load[s] = "stop" /\ fate[s] = "done"
<1>2. ASSUME Next, Cause PROVE Cause'
  <2>1. CASE closed /\ queue = <<>>
    BY <1>2, <2>1, ClosedStep
  <2>2. ASSUME NEW s \in Ids, load[s] = "stop", fate[s] = "done" PROVE Cause'
    <3>1. load'[s] = "stop" /\ fate'[s] = "done"
      BY <1>2, <2>2, FateStep, LoadStep DEF Settled
    <3> QED BY <3>1
  <2> QED BY <1>2, <2>1, <2>2
<1>3. ASSUME Next, phase' = "stopping" \/ (Over' /\ Orderly'), ~(phase = "stopping"), ~(Over /\ Orderly)
      PROVE  Cause'
  <2>1. ASSUME NEW r \in Ids, load[r] = "restart", fate[r] = "aborted" PROVE ~Orderly'
    BY <1>3, <2>1, FateStep, LoadStep DEF Settled, Orderly
  <2>2. CASE ReceiveClosed
    BY <2>2 DEF ReceiveClosed, boxVars
  <2>3. CASE Receive
    <3>1. phase = "waiting" /\ hooks' = hooks /\ hooks = "up"
      BY <2>3 DEF Receive, Inv, Life, HooksBracket
    <3>2. phase' = "stopping"
      BY <1>3, <3>1 DEF Orderly
    <3>3. load[Head(queue)] = "stop" /\ fate' = [fate EXCEPT ![Head(queue)] = "done"] /\ load' = load
      BY <2>3, <3>2 DEF Receive, Dispatch, Begun, Stopping
    <3>4. Head(queue) \in Ids
      BY <2>3, HeadTailProperties DEF Receive, Inv, TypeInv, TypeOK
    <3> QED BY <3>3, <3>4 DEF Inv, TypeInv, TypeOK
  <2>4. CASE RefreshFails
    <3>1. cur \in Ids /\ load[cur] = "restart"
      BY <2>4, IdBounds DEF RefreshFails, Inv, Life, CurShape, Serving, TypeInv, TypeOK, Ids
    <3>2. load'[cur] = "restart" /\ fate'[cur] = "aborted"
      BY <2>4, <3>1 DEF RefreshFails, SettleCur, Inv, TypeInv, TypeOK
    <3>3. phase' # "stopping" /\ ~Orderly'
      BY <2>4, <3>1, <3>2 DEF RefreshFails, Leave, Orderly
    <3> QED BY <1>3, <3>3
  <2>5. CASE TeardownStep
    <3>1. Over /\ ~Orderly
      BY <1>3, <2>5 DEF TeardownStep, Over
    <3>2. ~Orderly' /\ phase' # "stopping"
      BY <2>5, <3>1 DEF TeardownStep, Orderly, boxVars
    <3> QED BY <1>3, <3>2
  <2>6. CASE StartedFails \/ HandlerPanics \/ CancelledReturns
    <3>1. hooks' = hooks /\ hooks # "down" /\ phase' = "teardown"
      BY <2>6 DEF StartedFails, HandlerPanics, CancelledReturns, Leave, Inv, Life, HooksBracket,
         StartShape
    <3> QED BY <1>3, <3>1 DEF Orderly
  <2>7. CASE StartedOk \/ HandlerDone \/ HandlerTimesOut \/ RefreshStopped \/ RefreshStarted
    BY <1>3, <2>7 DEF StartedOk, HandlerDone, HandlerTimesOut, RefreshStopped, RefreshStarted, Over
  <2>8. CASE StoppedReturns \/ StoppedPanics
    BY <1>3, <2>8 DEF StoppedReturns, StoppedPanics
  <2>9. CASE Outside
    <3>1. phase' = phase /\ hooks' = hooks
      BY <2>9 DEF Outside, loopVars
    <3>2. Over /\ hooks = "down" /\ ~Orderly
      BY <1>3, <3>1 DEF Over, Orderly
    <3>3. PICK r \in Ids : load[r] = "restart" /\ fate[r] = "aborted"
      BY <3>2 DEF Orderly
    <3> QED BY <1>3, <2>1, <3>1, <3>3
  <2> QED
    BY <1>3, <2>2, <2>3, <2>4, <2>5, <2>6, <2>7, <2>8, <2>9, OutsideSteps DEF Next, LoopStep, Inv
<1>4. CASE Next
  BY <1>2, <1>3, <1>4 DEF Drained
<1> QED BY <1>1, <1>4

\* An actor that ended in order left nothing unhandled that was accepted before
\* the stop that ended it, and nothing at all if its last address was dropped.
THEOREM DrainedBeforeStopCorrect == Spec => []DrainedBeforeStop
<1>1. Init => Drained /\ StartShape
  BY DEF Init, Drained, StartShape, Over
<1>2. Inv /\ Drained => DrainedBeforeStop
  <2> SUFFICES ASSUME Inv, Drained, notified, Orderly, NEW i \in Ids, fate[i] = "queued"
               PROVE  \E s \in Ids : s < i /\ load[s] = "stop" /\ fate[s] = "done"
    BY DEF DrainedBeforeStop
  <2>1. Over
    BY DEF Inv, Life, TeardownShape
  <2>2. queue # <<>>
    BY BooksFacts DEF Inv, In
  <2>3. PICK s \in Ids : load[s] = "stop" /\ fate[s] = "done"
    BY <2>1, <2>2 DEF Drained
  <2>4. i # s /\ ~(i < s)
    BY <2>3 DEF Inv, Books, OldestFirst, Taken, Settled
  <2>5. s < i
    BY <2>4 DEF Ids
  <2> QED BY <2>3, <2>5
<1> QED BY Invariance, <1>1, StartStep, DrainedStep, <1>2, PTL DEF Spec

\* On an unbounded mailbox an error says the truth: what refused was stopping,
\* stopped or closed.  (On a bounded one a full mailbox is refused alike.)
THEOREM RefusalIsTrueCorrect == Capacity = 0 /\ Spec => []RefusalIsTrue
<1>1. Init => RefusalIsTrue
  BY DEF Init, RefusalIsTrue
<1>2. ASSUME Capacity = 0, TypeInv, RefusalIsTrue, [Next]_vars
      PROVE  RefusalIsTrue'
  <2>1. CASE UNCHANGED vars
    BY <1>2, <2>1 DEF RefusalIsTrue, vars, loopVars, clientVars
  <2>2. ASSUME Next PROVE (closed => closed') /\ (~flag => ~flag')
    <3> DEFINE Mono == (closed => closed') /\ (~flag => ~flag')
    <3>1. ASSUME LoopStep PROVE Mono
      <4>1. CASE TeardownStep
        <5>1. closed => closed'
          BY <4>1 DEF TeardownStep
        <5>2. ~flag => ~flag'
          BY <4>1 DEF TeardownStep
        <5> QED BY <5>1, <5>2
      <4>2. ASSUME ~TeardownStep PROVE closed' = closed /\ flag' = flag
        BY <3>1, <4>2 DEF LoopStep, StartedOk, StartedFails, Receive, ReceiveClosed, HandlerDone,
           HandlerPanics, HandlerTimesOut, CancelledReturns, RefreshStopped, RefreshStarted,
           RefreshFails, StoppedReturns, StoppedPanics
      <4> QED BY <4>1, <4>2
    <3>2. ASSUME NEW c \in Clients, ClientStep(c) PROVE Mono
      <4>1. flag' = flag
        BY <3>2 DEF ClientStep, Check, Push, GetReply, AwaitStopped, loopVars
      <4>2. ASSUME NEW r, Return(c, r) PROVE closed => closed'
        BY <4>2 DEF Return, ClosedBy
      <4>3. UNCHANGED closed \/ \E r : Return(c, r)
        BY <3>2 DEF ClientStep, Check, Push, GetReply, AwaitStopped
      <4> QED BY <4>1, <4>2, <4>3
    <3>3. ASSUME NEW c \in Clients, HandleStep(c) PROVE Mono
      <4>1. flag' = flag
        BY <3>3 DEF HandleStep, DropHandle, KeepUpgrade, Downgrade, Share, loopVars
      <4>2. closed' = ClosedBy(handle') \/ closed' = closed
        BY <3>3 DEF HandleStep, DropHandle, KeepUpgrade, Downgrade, Share
      <4>3. closed => closed'
        BY <4>2 DEF ClosedBy
      <4> QED BY <4>1, <4>3
    <3>4. ASSUME NEW c \in Clients, NEW o \in OpsOf[c], Begin(c, o) \/ Upgrade(c, o)
          PROVE  Mono
      BY <3>4 DEF Begin, Upgrade, Start, loopVars
    <3>5. ASSUME NEW ld \in CtxLoads, CtxPush(ld) PROVE Mono
      BY <3>5 DEF CtxPush, loopVars
    <3> HIDE DEF Mono
    <3>6. Mono
      BY <2>2, <3>1, <3>2, <3>3, <3>4, <3>5 DEF Next
    <3> QED BY <3>6 DEF Mono
  <2>3. ASSUME Next, ret' = ret PROVE RefusalIsTrue'
    BY <1>2, <2>2, <2>3 DEF RefusalIsTrue
  <2>4. ASSUME Next, NEW c \in Clients, NEW r, ret' = [ret EXCEPT ![c] = r],
               r \in {"AlreadyStopped", "ChannelClosed"} => ~flag \/ closed,
               r = "ActorDropped" => closed
        PROVE  RefusalIsTrue'
    <3>1. \A d \in Clients : ret'[d] = IF d = c THEN r ELSE ret[d]
      BY <1>2, <2>4 DEF TypeInv, TypeOK
    <3> QED BY <1>2, <2>2, <2>4, <3>1 DEF RefusalIsTrue
  <2>5. ~Full(queue)
    BY <1>2 DEF Full
  <2>6. ASSUME NEW c \in Clients, NEW o \in OpsOf[c], Begin(c, o) \/ Upgrade(c, o), Next
        PROVE  RefusalIsTrue'
    BY <2>4, <2>6 DEF Begin, Upgrade, Start
  <2>7. ASSUME NEW c \in Clients, Check(c), Next PROVE RefusalIsTrue'
    <3>1. op[c].refused # "ActorDropped"
      BY <1>2 DEF TypeInv, TypeOK, Operation
    <3> QED BY <2>3, <2>4, <2>7, <3>1 DEF Check, Return
  <2>8. ASSUME NEW c \in Clients, Push(c), Next PROVE RefusalIsTrue'
    <3>1. op[c].refused # "ActorDropped"
      BY <1>2 DEF TypeInv, TypeOK, Operation
    <3> QED BY <2>3, <2>4, <2>5, <2>8, <3>1 DEF Push, Return
  <2>9. ASSUME NEW c \in Clients, GetReply(c) \/ AwaitStopped(c), Next PROVE RefusalIsTrue'
    <3>1. \E r \in {"Ok", "Canceled"} : ret' = [ret EXCEPT ![c] = r]
      BY <2>9 DEF GetReply, AwaitStopped, Return
    <3> QED BY <2>4, <2>9, <3>1
  <2>10. ASSUME NEW c \in Clients, HandleStep(c), Next PROVE RefusalIsTrue'
    BY <2>3, <2>10 DEF HandleStep, DropHandle, KeepUpgrade, Downgrade, Share
  <2>11. ASSUME LoopStep \/ \E ld \in CtxLoads : CtxPush(ld), Next PROVE RefusalIsTrue'
    <3>1. ret' = ret
      BY <2>11 DEF LoopStep, StartedOk, StartedFails, Receive, ReceiveClosed, HandlerDone, clientVars,
         HandlerPanics, HandlerTimesOut, CancelledReturns, RefreshStopped, RefreshStarted,
         RefreshFails, StoppedReturns, StoppedPanics, TeardownStep, CtxPush
    <3> QED BY <2>3, <2>11, <3>1
  <2> QED
    BY <1>2, <2>1, <2>6, <2>7, <2>8, <2>9, <2>10, <2>11 DEF Next, ClientStep
<1>3. TypeInv /\ Capacity = 0 /\ RefusalIsTrue /\ [Next]_vars => RefusalIsTrue'
  BY <1>2
<1>4. Spec => []TypeInv
  BY TypeInit, TypeStep, PTL DEF Spec
<1>5. ASSUME Capacity = 0 PROVE TypeInv /\ RefusalIsTrue /\ [Next]_vars => RefusalIsTrue'
  BY <1>3, <1>5
<1>6. ASSUME Capacity = 0 PROVE Spec => []RefusalIsTrue
  BY <1>1, <1>4, <1>5, <1>6, PTL DEF Spec
<1> QED BY <1>6
=============================================================================

--------------------------- MODULE ContextProofs ---------------------------
(***************************************************************************)
(* Theorems about Context, for any number of tasks, children and types of  *)
(* messages, and for mailboxes of any capacity.                            *)
(***************************************************************************)
EXTENDS Context, SequenceTheorems, TLAPS

\* No field of the loop goes down twice.
Distinct(s) == \A i, j \in DOMAIN s : s[i] = s[j] => i = j

TodoOK ==
  /\ phase = "teardown" => todo # <<>> /\ Distinct(todo)
  /\ phase # "teardown" => todo = <<>>

\* Only a user future is inside one.
WorkingIsFuture == \A t \in TaskIds : at[t] = "working" => kind[t] = "future"

\* As long as there is a Context it holds every child that is running.
UpIsRegistered ==
  ~ContextDropped => \A c \in Children : child[c] = "up" => Registered(c)

IInv ==
  /\ TypeOK /\ TodoOK
  /\ WorkingIsFuture /\ NoTaskEscapes /\ IntervalSurvives
  /\ UpIsRegistered /\ ChildHeld

-----------------------------------------------------------------------------
(* Steps                                                                   *)

TaskMoves(t) == TaskStep(t) \/ BodyReturns(t)

ChildMoves(c) == ChildStep(c) \/ ChildStops(c) \/ DropChild(c)

ClientMoves == (\E load \in Loads : Signal(load)) \/ ClientSends \/ DropLastHandle

\* The Context goes down in the step that drops it, and stays down.
LEMMA TodoFacts ==
  ASSUME NEW S, NEW s \in Seq(S), s # <<>>, Distinct(s)
  PROVE  /\ Tail(s) \in Seq(S) /\ Distinct(Tail(s))
         /\ Len(s) = 1 <=> Tail(s) = <<>>
         /\ (\A i \in DOMAIN Tail(s) : Tail(s)[i] # "context") <=>
              (Head(s) = "context" \/ \A i \in DOMAIN s : s[i] # "context")
<1>1. /\ Tail(s) \in Seq(S) /\ Len(Tail(s)) = Len(s) - 1 /\ Head(s) = s[1]
      /\ \A i \in 1 .. Len(Tail(s)) : Tail(s)[i] = s[i + 1]
      /\ Len(s) \in Nat /\ Len(s) # 0
  BY HeadTailProperties, EmptySeq, LenProperties
<1>2. /\ DOMAIN s = 1 .. Len(s) /\ DOMAIN Tail(s) = 1 .. Len(s) - 1
      /\ Tail(s) = <<>> <=> Len(Tail(s)) = 0
  BY <1>1, LenProperties, EmptySeq
<1>3. Distinct(Tail(s))
  BY <1>1, <1>2 DEF Distinct
<1>4. \A i \in DOMAIN s : i = 1 \/ (i - 1 \in DOMAIN Tail(s) /\ s[i] = Tail(s)[i - 1])
  BY <1>1, <1>2
<1>5. \A i \in DOMAIN Tail(s) : i + 1 \in DOMAIN s /\ Tail(s)[i] = s[i + 1] /\ i + 1 # 1
  BY <1>1, <1>2
<1>6. (Head(s) = "context" \/ \A i \in DOMAIN s : s[i] # "context") =>
        \A i \in DOMAIN Tail(s) : Tail(s)[i] # "context"
  <2>1. 1 \in DOMAIN s
    BY <1>1, <1>2
  <2> QED BY <1>1, <1>5, <2>1 DEF Distinct
<1>7. (\A i \in DOMAIN Tail(s) : Tail(s)[i] # "context") =>
        (Head(s) = "context" \/ \A i \in DOMAIN s : s[i] # "context")
  BY <1>1, <1>4
<1> QED BY <1>1, <1>2, <1>3, <1>6, <1>7

LEMMA OrderFacts ==
  \A s \in {FinishOrder, UnwindOrder, StartFailedOrder} :
    /\ s \in Seq({"notify", "close", "context"}) /\ s # <<>>
    /\ Distinct(s)
    /\ \E i \in DOMAIN s : s[i] = "context"
<1>1. \A s \in {FinishOrder, UnwindOrder, StartFailedOrder} :
        s \in Seq({"notify", "close", "context"}) /\ s # <<>> /\ DOMAIN s = 1 .. 3
  <2>1. /\ FinishOrder \in Seq({"notify", "close", "context"}) /\ Len(FinishOrder) = 3
        /\ UnwindOrder \in Seq({"notify", "close", "context"}) /\ Len(UnwindOrder) = 3
        /\ StartFailedOrder \in Seq({"notify", "close", "context"}) /\ Len(StartFailedOrder) = 3
    BY DEF FinishOrder, UnwindOrder, StartFailedOrder
  <2>2. \A s \in Seq({"notify", "close", "context"}) :
          Len(s) = 3 => s # <<>> /\ DOMAIN s = 1 .. 3
    BY LenProperties, EmptySeq
  <2> QED BY <2>1, <2>2
<1>2. \A s \in {FinishOrder, UnwindOrder, StartFailedOrder} :
        s[1] # s[2] /\ s[1] # s[3] /\ s[2] # s[3] /\ "context" \in {s[1], s[2], s[3]}
  BY DEF FinishOrder, UnwindOrder, StartFailedOrder
<1> QED BY <1>1, <1>2 DEF Distinct

LEMMA QueueFacts ==
  ASSUME NEW S, NEW q \in Seq(S), NEW x \in S
  PROVE  /\ Append(q, x) \in Seq(S)
         /\ ForcePushed(q, x) \in Seq(S)
         /\ q # <<>> => Tail(q) \in Seq(S)
<1>1. Append(q, x) \in Seq(S) /\ (q # <<>> => Tail(q) \in Seq(S))
  BY AppendProperties, HeadTailProperties, EmptySeq
<1>2. CASE Full(q)
  <2>1. q # <<>>
    BY <1>2, CapacityAssumption, EmptySeq DEF Full
  <2>2. Append(Tail(q), x) \in Seq(S)
    BY <1>1, <2>1, AppendProperties
  <2> QED BY <1>1, <1>2, <2>2 DEF ForcePushed
<1>3. CASE ~Full(q)
  BY <1>1, <1>3 DEF ForcePushed
<1> QED BY <1>2, <1>3

-----------------------------------------------------------------------------
(* The initial state                                                       *)

LEMMA InvInit == Init => IInv
<1> SUFFICES ASSUME Init PROVE IInv
  OBVIOUS
<1>1. TypeOK
  <2>1. /\ todo \in Seq({"notify", "close", "context"}) /\ queue \in Seq(Loads)
        /\ phase \in UserCode
    BY EmptySeq DEF Init, UserCode
  <2>2. /\ spawned \in 0 .. MaxTasks
        /\ entries \in [Topics -> [Children -> 0 .. MaxEntries]]
        /\ inbox \in [Children -> 0 .. ChildCapacity]
    <3>1. 0 \in 0 .. MaxTasks /\ 0 \in 0 .. MaxEntries /\ 0 \in 0 .. ChildCapacity
      BY ContextAssumption
    <3> QED BY <3>1 DEF Init
  <2> QED BY <2>1, <2>2 DEF Init, TypeOK
<1>2. TodoOK /\ WorkingIsFuture /\ NoTaskEscapes /\ IntervalSurvives
  BY DEF Init, TodoOK, WorkingIsFuture, NoTaskEscapes, IntervalSurvives
<1>3. UpIsRegistered /\ ChildHeld
  BY DEF Init, UpIsRegistered, ChildHeld
<1> QED BY <1>1, <1>2, <1>3 DEF IInv

-----------------------------------------------------------------------------
(* A task                                                                  *)

LEMMA TaskInv ==
  ASSUME IInv, NEW t \in TaskIds, TaskMoves(t)
  PROVE  IInv'
<1> DEFINE May(w) ==
      /\ w \in Suspended \cup Holding \cup {"ended"}
      /\ w = "working" => kind[t] = "future"
      /\ w = "ended" /\ kind[t] = "interval" => t \in aborted \/ closed \/ stopped
<1>0. at[t] \notin {"unborn", "ended"}
  BY DEF TaskMoves, TaskStep, Wake, CheckRunning, PollSend, TickExpires, Cancel, BodyReturns, Suspended
<1>1. PICK w : Goes(t, w) /\ May(w)
  <2>1. CASE Wake(t)
    <3>1. CASE kind[t] = "future"
      <4>1. Goes(t, "working") /\ May("working")
        BY <2>1, <3>1 DEF Wake, Suspended
      <4> QED BY <4>1
    <3>2. CASE kind[t] # "future" /\ closed
      <4>1. Goes(t, "ended") /\ May("ended")
        BY <2>1, <3>2 DEF Wake
      <4> QED BY <4>1
    <3>3. CASE kind[t] # "future" /\ ~closed
      <4>1. Goes(t, "checking") /\ May("checking")
        BY <2>1, <3>3 DEF Wake, Holding
      <4> QED BY <4>1
    <3> QED BY <3>1, <3>2, <3>3
  <2>2. CASE CheckRunning(t)
    <3>1. \/ Goes(t, "ended") /\ May("ended")
          \/ Goes(t, "pushing") /\ May("pushing")
      BY <2>2 DEF CheckRunning, Holding
    <3> QED BY <3>1
  <2>3. CASE PollSend(t)
    <3>1. May(AfterSend(t)) /\ May("waiting") /\ (closed => May("ended"))
      BY DEF AfterSend, Suspended
    <3> QED BY <2>3, <3>1 DEF PollSend
  <2>4. CASE TickExpires(t)
    <3>1. Goes(t, "asleep") /\ May("asleep")
      BY <2>4 DEF TickExpires, Suspended
    <3> QED BY <3>1
  <2>5. CASE Cancel(t)
    <3>1. Goes(t, "ended") /\ May("ended")
      BY <2>5 DEF Cancel
    <3> QED BY <3>1
  <2>6. CASE BodyReturns(t)
    <3>1. Goes(t, "ended") /\ May("ended")
      BY <2>6 DEF BodyReturns, IInv, WorkingIsFuture
    <3> QED BY <3>1
  <2> QED BY <2>1, <2>2, <2>3, <2>4, <2>5, <2>6 DEF TaskMoves, TaskStep
<1>2. queue' \in Seq(Loads)
  BY QueueFacts DEF TaskMoves, TaskStep, Wake, CheckRunning, PollSend, TickExpires, Cancel,
     BodyReturns, IInv, TypeOK, Loads
<1>3. at' \in [TaskIds -> Suspended \cup Holding \cup {"unborn", "ended"}] /\ closed' \in BOOLEAN
  BY <1>1 DEF Goes, LastSender, IInv, TypeOK
<1>4. TypeOK'
  BY <1>1, <1>2, <1>3 DEF Goes, loopVars, childVars, IInv, TypeOK
<1>5. TodoOK' /\ UpIsRegistered' /\ ChildHeld'
  BY <1>1 DEF Goes, loopVars, childVars, IInv, TodoOK, UpIsRegistered, ChildHeld,
     ContextDropped, Registered
<1>6. WorkingIsFuture' /\ NoTaskEscapes' /\ IntervalSurvives'
  <2>1. /\ at'[t] = w /\ \A u \in TaskIds : u # t => at'[u] = at[u]
        /\ closed => closed'
        /\ UNCHANGED <<kind, aborted, tasks, stopped>>
    BY <1>1 DEF Goes, loopVars, IInv, TypeOK
  <2> QED BY <1>0, <1>1, <2>1 DEF IInv, WorkingIsFuture, NoTaskEscapes, IntervalSurvives
<1> QED BY <1>4, <1>5, <1>6 DEF IInv

-----------------------------------------------------------------------------
(* Hooks and handlers                                                      *)

LEMMA SpawnTaskInv ==
  ASSUME IInv, NEW k \in Kinds, NEW asleep \in BOOLEAN, SpawnTask(k, asleep)
  PROVE  IInv'
<1>1. spawned + 1 \in TaskIds /\ spawned + 1 \in 0 .. MaxTasks
  BY ContextAssumption DEF SpawnTask, TaskIds, IInv, TypeOK
<1>2. TypeOK'
  BY <1>1 DEF SpawnTask, loopVars, boxVars, childVars, IInv, TypeOK, Suspended
<1>3. TodoOK' /\ UpIsRegistered' /\ ChildHeld'
  BY DEF SpawnTask, loopVars, boxVars, childVars, IInv, TodoOK, UpIsRegistered, ChildHeld,
     ContextDropped, Registered
<1>4. WorkingIsFuture' /\ NoTaskEscapes' /\ IntervalSurvives'
  BY <1>1 DEF SpawnTask, loopVars, boxVars, IInv, TypeOK, WorkingIsFuture, NoTaskEscapes, IntervalSurvives
<1> QED BY <1>2, <1>3, <1>4 DEF IInv

LEMMA StopTaskInv ==
  ASSUME IInv, NEW t \in TaskIds, StopTask(t)
  PROVE  IInv'
<1>1. TypeOK' /\ TodoOK'
  BY DEF StopTask, loopVars, boxVars, childVars, IInv, TypeOK, TodoOK
<1>2. WorkingIsFuture' /\ NoTaskEscapes' /\ IntervalSurvives'
  BY DEF StopTask, loopVars, boxVars, IInv, WorkingIsFuture, NoTaskEscapes, IntervalSurvives
<1>3. UpIsRegistered' /\ ChildHeld'
  BY DEF StopTask, loopVars, childVars, IInv, UpIsRegistered, ChildHeld, ContextDropped, Registered
<1> QED BY <1>1, <1>2, <1>3 DEF IInv

LEMMA GcInv ==
  ASSUME IInv, Gc
  PROVE  IInv'
<1>1. TypeOK' /\ TodoOK'
  BY ContextAssumption DEF Gc, loopVars, boxVars, IInv, TypeOK, TodoOK
<1>2. WorkingIsFuture' /\ NoTaskEscapes' /\ IntervalSurvives'
  BY DEF Gc, loopVars, boxVars, IInv, WorkingIsFuture, NoTaskEscapes, IntervalSurvives
<1>3. \A c \in Children : child[c] = "up" /\ Registered(c) => Registered(c)'
  BY DEF Gc, Alive, Registered, IInv, TypeOK
<1>4. UpIsRegistered' /\ ChildHeld'
  BY <1>3 DEF Gc, loopVars, IInv, UpIsRegistered, ChildHeld, ContextDropped
<1> QED BY <1>1, <1>2, <1>4 DEF IInv

LEMMA AddChildInv ==
  ASSUME IInv, NEW k \in Topics, NEW c \in Children, NEW keep \in BOOLEAN, AddChild(k, c, keep)
  PROVE  IInv'
<1>1. entries[k][c] \in Nat /\ entries[k][c] + 1 \in 0 .. MaxEntries
  BY ContextAssumption DEF AddChild, IInv, TypeOK
<1>2. /\ entries'[k][c] = entries[k][c] + 1
      /\ \A j \in Topics, d \in Children : j # k \/ d # c => entries'[j][d] = entries[j][d]
      /\ entries' \in [Topics -> [Children -> 0 .. MaxEntries]]
  BY <1>1 DEF AddChild, IInv, TypeOK
<1>3. TypeOK' /\ TodoOK'
  BY <1>2 DEF AddChild, loopVars, boxVars, taskVars, IInv, TypeOK, TodoOK
<1>4. WorkingIsFuture' /\ NoTaskEscapes' /\ IntervalSurvives'
  BY DEF AddChild, loopVars, boxVars, taskVars, IInv, WorkingIsFuture, NoTaskEscapes, IntervalSurvives
<1>5. Registered(c)' /\ \A d \in Children : d # c => (Registered(d)' <=> Registered(d))
  BY <1>1, <1>2 DEF Registered
<1>6. /\ \A d \in Children : child'[d] = "orphaned" => child[d] = "orphaned"
      /\ \A d \in Children : d # c => child'[d] = child[d]
      /\ ContextDropped' <=> ContextDropped
  BY DEF AddChild, loopVars, ContextDropped, IInv, TypeOK
<1>7. UpIsRegistered' /\ ChildHeld'
  BY <1>5, <1>6 DEF IInv, UpIsRegistered, ChildHeld
<1> QED BY <1>3, <1>4, <1>7 DEF IInv

LEMMA SendToChildrenInv ==
  ASSUME IInv, NEW k \in Topics, SendToChildren(k)
  PROVE  IInv'
<1>1. inbox' \in [Children -> 0 .. ChildCapacity]
  <2>1. \A n \in Nat : Forced(n) \in 0 .. ChildCapacity
    BY ContextAssumption DEF Forced
  <2>2. \A c \in Children : inbox[c] + entries[k][c] \in Nat
    BY ContextAssumption DEF IInv, TypeOK
  <2> QED BY <2>1, <2>2 DEF SendToChildren, IInv, TypeOK
<1>2. TypeOK' /\ TodoOK'
  BY <1>1 DEF SendToChildren, loopVars, boxVars, taskVars, IInv, TypeOK, TodoOK
<1>3. WorkingIsFuture' /\ NoTaskEscapes' /\ IntervalSurvives'
  BY DEF SendToChildren, loopVars, boxVars, taskVars, IInv, WorkingIsFuture, NoTaskEscapes,
     IntervalSurvives
<1>4. UpIsRegistered' /\ ChildHeld'
  BY DEF SendToChildren, loopVars, IInv, UpIsRegistered, ChildHeld, ContextDropped, Registered
<1> QED BY <1>2, <1>3, <1>4 DEF IInv

-----------------------------------------------------------------------------
(* The children, the event loop and the actor's other clients              *)

LEMMA ChildInv ==
  ASSUME IInv, NEW c \in Children, ChildMoves(c)
  PROVE  IInv'
<1>1. UNCHANGED <<loopVars, boxVars, taskVars, entries>>
  BY DEF ChildMoves, ChildStep, ChildHandles, ChildOrphaned, ChildStops, DropChild
<1>2. inbox' \in [Children -> 0 .. ChildCapacity]
  <2>1. \A n \in 0 .. ChildCapacity : n > 0 => n - 1 \in 0 .. ChildCapacity
    BY ContextAssumption
  <2>2. 0 \in 0 .. ChildCapacity /\ inbox[c] \in 0 .. ChildCapacity
    BY ContextAssumption DEF IInv, TypeOK
  <2>3. CASE ChildHandles(c)
    BY <2>1, <2>2, <2>3 DEF ChildHandles, IInv, TypeOK
  <2>4. CASE ChildStops(c)
    BY <2>2, <2>4 DEF ChildStops, IInv, TypeOK
  <2>5. CASE ChildOrphaned(c) \/ DropChild(c)
    BY <2>5 DEF ChildOrphaned, DropChild, IInv, TypeOK
  <2> QED BY <2>3, <2>4, <2>5 DEF ChildMoves, ChildStep
<1>3. /\ child' \in [Children -> {"unborn", "up", "stopped", "orphaned"}]
      /\ shared' \subseteq Children
  BY DEF ChildMoves, ChildStep, ChildHandles, ChildOrphaned, ChildStops, DropChild, IInv, TypeOK
<1>4. TypeOK' /\ TodoOK'
  BY <1>1, <1>2, <1>3 DEF loopVars, boxVars, taskVars, IInv, TypeOK, TodoOK
<1>5. WorkingIsFuture' /\ NoTaskEscapes' /\ IntervalSurvives'
  BY <1>1 DEF loopVars, boxVars, taskVars, IInv, WorkingIsFuture, NoTaskEscapes, IntervalSurvives
<1>6. /\ ContextDropped' <=> ContextDropped
      /\ \A d \in Children : Registered(d)' <=> Registered(d)
  BY <1>1 DEF loopVars, ContextDropped, Registered
<1>7. /\ \A d \in Children : child'[d] = "up" => child[d] = "up"
      /\ \A d \in Children : child'[d] = "orphaned" =>
           child[d] = "orphaned" \/ (child[d] = "up" /\ ~Registered(d))
  BY DEF ChildMoves, ChildStep, ChildHandles, ChildOrphaned, ChildStops, DropChild, IInv, TypeOK
<1>8. UpIsRegistered' /\ ChildHeld'
  BY <1>6, <1>7 DEF IInv, UpIsRegistered, ChildHeld
<1> QED BY <1>4, <1>5, <1>8 DEF IInv

LEMMA ClientInv ==
  ASSUME IInv, ClientMoves
  PROVE  IInv'
<1>1. UNCHANGED <<loopVars, taskVars, childVars>> /\ (closed => closed')
  BY DEF ClientMoves, Signal, ClientSends, DropLastHandle
<1>2. queue' \in Seq(Loads) /\ held' \in BOOLEAN /\ closed' \in BOOLEAN
  BY QueueFacts DEF ClientMoves, Signal, ClientSends, DropLastHandle, LastSender, Loads, IInv, TypeOK
<1>3. TypeOK' /\ TodoOK'
  BY <1>1, <1>2 DEF loopVars, taskVars, childVars, IInv, TypeOK, TodoOK
<1>4. WorkingIsFuture' /\ NoTaskEscapes' /\ IntervalSurvives'
  BY <1>1 DEF loopVars, taskVars, IInv, WorkingIsFuture, NoTaskEscapes, IntervalSurvives
<1>5. UpIsRegistered' /\ ChildHeld'
  BY <1>1 DEF loopVars, childVars, IInv, UpIsRegistered, ChildHeld, ContextDropped, Registered
<1> QED BY <1>3, <1>4, <1>5 DEF IInv

\* The loop runs user code, receives, or begins to go down with its Context.
LEMMA RunningInv ==
  ASSUME IInv, Receive \/ ReceiveClosed \/ UserCodeReturns \/ UserCodeFails
  PROVE  IInv'
<1>1. /\ UNCHANGED <<stopped, held, closed, taskVars, childVars>>
      /\ queue' \in Seq(Loads)
  BY QueueFacts DEF Receive, ReceiveClosed, UserCodeReturns, UserCodeFails, boxVars, Loads,
     IInv, TypeOK
<1>2. /\ TodoOK'
      /\ phase' \in UserCode \cup {"receiving", "teardown"}
  BY OrderFacts DEF Receive, ReceiveClosed, UserCodeReturns, UserCodeFails, UserCode, Leave,
     IInv, TodoOK
<1>3. ~ContextDropped /\ ~ContextDropped'
  <2>1. phase \notin {"teardown", "done"}
    BY DEF Receive, ReceiveClosed, UserCodeReturns, UserCodeFails, UserCode
  <2>2. \/ phase' \notin {"teardown", "done"}
        \/ todo' \in {FinishOrder, UnwindOrder, StartFailedOrder}
    BY DEF Receive, ReceiveClosed, UserCodeReturns, UserCodeFails, Leave
  <2> QED BY <2>1, <2>2, OrderFacts DEF ContextDropped
<1>4. todo' \in Seq({"notify", "close", "context"})
  BY OrderFacts DEF Receive, ReceiveClosed, UserCodeReturns, UserCodeFails, Leave, IInv, TypeOK
<1>5. TypeOK'
  BY <1>1, <1>2, <1>4 DEF taskVars, childVars, IInv, TypeOK
<1>6. WorkingIsFuture' /\ NoTaskEscapes' /\ IntervalSurvives'
  BY <1>1 DEF taskVars, IInv, WorkingIsFuture, NoTaskEscapes, IntervalSurvives
<1>7. UpIsRegistered' /\ ChildHeld'
  BY <1>1, <1>3 DEF childVars, IInv, UpIsRegistered, ChildHeld, Registered
<1> QED BY <1>2, <1>5, <1>6, <1>7 DEF IInv

LEMMA TeardownInv ==
  ASSUME IInv, TeardownStep
  PROVE  IInv'
<1>1. todo # <<>> /\ Distinct(todo) /\ todo \in Seq({"notify", "close", "context"})
  BY DEF TeardownStep, IInv, TodoOK, TypeOK
<1>2. TodoOK' /\ todo' \in Seq({"notify", "close", "context"})
  BY <1>1, TodoFacts DEF TeardownStep, TodoOK
<1>3. /\ UNCHANGED <<kind, at, child, inbox, shared>>
      /\ (closed => closed') /\ (stopped => stopped')
      /\ aborted' \subseteq TaskIds /\ tasks' \subseteq TaskIds
      /\ tasks \cup aborted \subseteq tasks' \cup aborted' /\ aborted \subseteq aborted'
      /\ entries' \in [Topics -> [Children -> 0 .. MaxEntries]]
  <2>1. 0 \in 0 .. MaxEntries
    BY ContextAssumption
  <2>2. CASE Head(todo) = "context"
    BY <2>1, <2>2 DEF TeardownStep, DropContext, IInv, TypeOK
  <2>3. CASE Head(todo) # "context"
    BY <2>3 DEF TeardownStep, childVars, IInv, TypeOK
  <2> QED BY <2>2, <2>3
<1>4. TypeOK'
  BY <1>2, <1>3 DEF TeardownStep, IInv, TypeOK
<1>5. WorkingIsFuture' /\ NoTaskEscapes' /\ IntervalSurvives'
  BY <1>3 DEF IInv, WorkingIsFuture, NoTaskEscapes, IntervalSurvives
<1>6. ContextDropped' <=> (ContextDropped \/ Head(todo) = "context")
  BY <1>1, TodoFacts DEF TeardownStep, ContextDropped
<1>7. ~ContextDropped' => UNCHANGED entries
  BY <1>6 DEF TeardownStep, childVars
<1>8. UpIsRegistered' /\ ChildHeld'
  BY <1>3, <1>6, <1>7 DEF IInv, UpIsRegistered, ChildHeld, Registered
<1> QED BY <1>2, <1>4, <1>5, <1>8 DEF IInv

-----------------------------------------------------------------------------
(* The theorems                                                            *)

LEMMA InvNext == IInv /\ [Next]_vars => IInv'
<1> SUFFICES ASSUME IInv, [Next]_vars PROVE IInv'
  OBVIOUS
<1>1. CASE Next
  <2>1. CASE LoopStep
    BY <2>1, RunningInv, TeardownInv DEF LoopStep
  <2>2. CASE \E t \in TaskIds : TaskStep(t) \/ BodyReturns(t) \/ StopTask(t)
    BY <2>2, TaskInv, StopTaskInv DEF TaskMoves
  <2>3. CASE \E k \in Kinds, asleep \in BOOLEAN : SpawnTask(k, asleep)
    BY <2>3, SpawnTaskInv
  <2>4. CASE Gc
    BY <2>4, GcInv
  <2>5. CASE \E k \in Topics : \/ SendToChildren(k)
                               \/ \E c \in Children, keep \in BOOLEAN : AddChild(k, c, keep)
    BY <2>5, SendToChildrenInv, AddChildInv
  <2>6. CASE \E c \in Children : ChildStep(c) \/ ChildStops(c) \/ DropChild(c)
    BY <2>6, ChildInv DEF ChildMoves
  <2>7. CASE ClientMoves
    BY <2>7, ClientInv
  <2> QED BY <1>1, <2>1, <2>2, <2>3, <2>4, <2>5, <2>6, <2>7 DEF Next, ClientMoves
<1>2. CASE UNCHANGED vars
  <2>1. TypeOK' /\ TodoOK'
    BY <1>2 DEF vars, loopVars, boxVars, taskVars, childVars, IInv, TypeOK, TodoOK
  <2>2. WorkingIsFuture' /\ NoTaskEscapes' /\ IntervalSurvives'
    BY <1>2 DEF vars, loopVars, boxVars, taskVars, IInv, WorkingIsFuture, NoTaskEscapes,
       IntervalSurvives
  <2>3. UpIsRegistered' /\ ChildHeld'
    BY <1>2 DEF vars, loopVars, childVars, IInv, UpIsRegistered, ChildHeld, ContextDropped,
       Registered
  <2> QED BY <2>1, <2>2, <2>3 DEF IInv
<1> QED BY <1>1, <1>2

\* The inductive invariant of the Context holds in every behaviour: types, the
\* order the loop goes down in, and what is tracked and held until then.
THEOREM ContextInvariance == Spec => []IInv
<1> QED BY InvInit, InvNext, PTL DEF Spec

\* Every reachable state is well typed; mailboxes of children never grow beyond
\* their capacity by forced pushes.
THEOREM ContextTypeCorrect == Spec => []TypeOK
<1>1. IInv => TypeOK
  BY DEF IInv
<1> QED BY <1>1, ContextInvariance, PTL

\* No background task escapes its Context, whatever gc, stop_task and restarts
\* did before: Drop aborts all that are left (context.rs:48).
THEOREM NoTaskEscapesCorrect == Spec => []NoTaskEscapes
<1>1. IInv => NoTaskEscapes
  BY DEF IInv
<1> QED BY <1>1, ContextInvariance, PTL

\* A full mailbox never ends an interval (context.rs:373).
THEOREM IntervalSurvivesCorrect == Spec => []IntervalSurvives
<1>1. IInv => IntervalSurvives
  BY DEF IInv
<1> QED BY <1>1, ContextInvariance, PTL

\* No child loses its last sender while its parent's Context exists, gc
\* included (context.rs:79, context.rs:202).
THEOREM ChildHeldCorrect == Spec => []ChildHeld
<1>1. IInv => ChildHeld
  BY DEF IInv
<1> QED BY <1>1, ContextInvariance, PTL

-----------------------------------------------------------------------------
(* The last sender                                                         *)

\* Tasks are numbered as they are spawned, and a channel without a sender is closed.
SenderShape ==
  /\ \A t \in TaskIds : t > spawned => at[t] = "unborn"
  /\ LastSender(at, held) => closed

\* Only the Goes of a task and the drop of the last handle move a sender.
LEMMA SendersStep ==
  ASSUME IInv, SenderShape, Next
  PROVE  /\ SenderShape'
         /\ closed => closed'
         /\ LastSender(at, held) => LastSender(at', held')
<1>1. ASSUME NEW t \in TaskIds, TaskMoves(t)
      PROVE  \E w : Goes(t, w) /\ (closed => w \notin Holding \/ at[t] \in Holding)
  <2>1. CASE Wake(t)
    <3>1. PICK w \in {"working", "ended", "checking"} :
            Goes(t, w) /\ (closed => w # "checking")
      BY <2>1 DEF Wake
    <3> QED BY <3>1 DEF Holding
  <2>2. CASE CheckRunning(t)
    BY <2>2 DEF CheckRunning, Holding
  <2>3. CASE PollSend(t)
    BY <2>3 DEF PollSend, Holding
  <2>4. CASE TickExpires(t) \/ BodyReturns(t) \/ Cancel(t)
    BY <2>4 DEF TickExpires, BodyReturns, Cancel, Holding
  <2> QED BY <1>1, <2>1, <2>2, <2>3, <2>4 DEF TaskMoves, TaskStep
<1>2. ASSUME NEW t \in TaskIds, TaskMoves(t)
      PROVE  SenderShape' /\ (closed => closed') /\ (LastSender(at, held) => LastSender(at', held'))
  <2>1. PICK w : Goes(t, w) /\ (closed => w \notin Holding \/ at[t] \in Holding)
    BY <1>1, <1>2
  <2>2. at' = [at EXCEPT ![t] = w] /\ spawned' = spawned /\ held' = held
        /\ closed' = (closed \/ LastSender(at', held))
    BY <2>1 DEF Goes
  <2>3. at[t] # "unborn"
    BY <1>2 DEF TaskMoves, TaskStep, Wake, CheckRunning, PollSend, TickExpires, BodyReturns, Cancel,
       Suspended
  <2>4. \A s \in TaskIds : s > spawned' => at'[s] = "unborn"
    BY <2>2, <2>3 DEF SenderShape, IInv, TypeOK
  <2>5. ASSUME LastSender(at, held) PROVE LastSender(at', held')
    <3>1. closed /\ ~held /\ \A s \in TaskIds : at[s] \notin Holding
      BY <2>5 DEF SenderShape, LastSender
    <3>2. w \notin Holding
      BY <2>1, <3>1
    <3> QED BY <2>2, <3>1, <3>2 DEF LastSender, IInv, TypeOK
  <2>6. closed => closed'
    BY <2>2
  <2>7. LastSender(at', held') => closed'
    BY <2>2
  <2> QED BY <2>4, <2>5, <2>6, <2>7 DEF SenderShape
<1>3. ASSUME at' = at, held' = held, spawned' = spawned, closed => closed'
      PROVE  SenderShape' /\ (closed => closed') /\ (LastSender(at, held) => LastSender(at', held'))
  BY <1>3 DEF SenderShape
<1>4. CASE LoopStep
  <2>1. at' = at /\ held' = held /\ spawned' = spawned
    BY <1>4 DEF LoopStep, Receive, ReceiveClosed, UserCodeReturns, UserCodeFails, TeardownStep,
       boxVars, taskVars
  <2>2. closed => closed'
    BY <1>4 DEF LoopStep, Receive, ReceiveClosed, UserCodeReturns, UserCodeFails, TeardownStep, boxVars
  <2> QED BY <1>3, <2>1, <2>2
<1>5. ASSUME NEW k \in Kinds, NEW asleep \in BOOLEAN, SpawnTask(k, asleep)
      PROVE  SenderShape' /\ (closed => closed') /\ (LastSender(at, held) => LastSender(at', held'))
  <2>1. /\ held' = held /\ closed' = closed /\ spawned' = spawned + 1
        /\ \E w \in {"asleep", "working"} : at' = [at EXCEPT ![spawned + 1] = w]
    BY <1>5 DEF SpawnTask, boxVars
  <2>2. spawned + 1 \in TaskIds /\ spawned \in Nat /\ TaskIds \subseteq Nat
    BY <1>5, ContextAssumption DEF SpawnTask, TaskIds, IInv, TypeOK
  <2>3. at[spawned + 1] = "unborn"
    BY <2>2 DEF SenderShape
  <2>4. \A s \in TaskIds : s > spawned' => at'[s] = "unborn"
    BY <2>1, <2>2 DEF SenderShape, IInv, TypeOK
  <2>5. LastSender(at, held) <=> LastSender(at', held')
    BY <2>1, <2>2, <2>3 DEF LastSender, Holding, IInv, TypeOK
  <2> QED BY <2>1, <2>4, <2>5 DEF SenderShape
<1>6. CASE Gc \/ (\E t \in TaskIds : StopTask(t)) \/ (\E k \in Topics : SendToChildren(k))
  BY <1>3, <1>6 DEF Gc, StopTask, SendToChildren, boxVars, taskVars
<1>7. CASE \E k \in Topics, c \in Children, keep \in BOOLEAN : AddChild(k, c, keep)
  BY <1>3, <1>7 DEF AddChild, boxVars, taskVars
<1>8. CASE \E c \in Children : ChildMoves(c)
  BY <1>3, <1>8 DEF ChildMoves, ChildStep, ChildHandles, ChildOrphaned, ChildStops, DropChild,
     boxVars, taskVars
<1>9. CASE (\E load \in Loads : Signal(load)) \/ ClientSends
  BY <1>3, <1>9 DEF Signal, ClientSends, taskVars
<1>10. CASE DropLastHandle
  <2>1. at' = at /\ spawned' = spawned /\ held /\ ~held' /\ closed' = (closed \/ LastSender(at, FALSE))
    BY <1>10 DEF DropLastHandle, taskVars
  <2> QED BY <2>1 DEF SenderShape, LastSender
<1> QED
  BY <1>2, <1>4, <1>5, <1>6, <1>7, <1>8, <1>9, <1>10 DEF Next, TaskMoves, ChildMoves

\* A closed channel takes nothing more.
LEMMA ClosedDrains ==
  ASSUME Next, closed
  PROVE  queue' = queue \/ (queue # <<>> /\ queue' = Tail(queue))
<1>1. CASE LoopStep
  BY <1>1 DEF LoopStep, Receive, ReceiveClosed, UserCodeReturns, UserCodeFails, TeardownStep, boxVars
<1>2. ASSUME NEW t \in TaskIds, TaskStep(t) \/ BodyReturns(t) \/ StopTask(t) PROVE queue' = queue
  BY <1>2 DEF TaskStep, Wake, CheckRunning, PollSend, TickExpires, Cancel, BodyReturns, StopTask, boxVars
<1>3. ASSUME NEW k \in Kinds, NEW asleep \in BOOLEAN, SpawnTask(k, asleep) PROVE queue' = queue
  BY <1>3 DEF SpawnTask, boxVars
<1>4. CASE Gc \/ (\E k \in Topics : SendToChildren(k))
  BY <1>4 DEF Gc, SendToChildren, boxVars
<1>5. CASE \E k \in Topics, c \in Children, keep \in BOOLEAN : AddChild(k, c, keep)
  BY <1>5 DEF AddChild, boxVars
<1>6. CASE \E c \in Children : ChildMoves(c)
  BY <1>6 DEF ChildMoves, ChildStep, ChildHandles, ChildOrphaned, ChildStops, DropChild, boxVars
<1>7. CASE (\E load \in Loads : Signal(load)) \/ ClientSends \/ DropLastHandle
  BY <1>7 DEF Signal, ClientSends, DropLastHandle
<1> QED BY <1>1, <1>2, <1>3, <1>4, <1>5, <1>6, <1>7 DEF Next, ChildMoves

\* When no address is left and no background task is in the middle of a send, the
\* actor only drains: no task upgrades its weak sender again and nothing is queued,
\* not even by the actor itself.  Senders that never all rest at once are what it
\* takes to keep an actor alive without an address, as overlapping intervals do.
THEOREM UnheldDrains ==
  Spec => [][LastSender(at, held) =>
               /\ LastSender(at', held')
               /\ queue' = queue \/ (queue # <<>> /\ queue' = Tail(queue))]_vars
<1>1. Init => SenderShape
  BY DEF Init, SenderShape, LastSender
<1>2. IInv /\ SenderShape /\ [Next]_vars => SenderShape'
  <2>1. ASSUME UNCHANGED vars PROVE at' = at /\ held' = held /\ closed' = closed /\ spawned' = spawned
    BY <2>1 DEF vars, boxVars, taskVars
  <2>2. ASSUME at' = at, held' = held, closed' = closed, spawned' = spawned, SenderShape
        PROVE  SenderShape'
    BY <2>2 DEF SenderShape
  <2> QED BY <2>1, <2>2, SendersStep
<1>3. IInv /\ SenderShape /\ [Next]_vars
      => [LastSender(at, held) =>
            /\ LastSender(at', held')
            /\ queue' = queue \/ (queue # <<>> /\ queue' = Tail(queue))]_vars
  BY SendersStep, ClosedDrains DEF SenderShape
<1> QED BY <1>1, <1>2, <1>3, ContextInvariance, PTL DEF Spec
=============================================================================

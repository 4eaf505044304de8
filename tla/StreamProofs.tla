---------------------------- MODULE StreamProofs ----------------------------
(***************************************************************************)
(* Theorems about StreamActor, for any clients, capacity and number of     *)
(* payloads and elements.  The steps it shares with Actor keep Actor's     *)
(* invariant by the lemmas of ActorProofs; what remains are the steps of   *)
(* the loop with its stream.                                               *)
(***************************************************************************)
EXTENDS ActorDeliveryProofs, AnswerProofs, StreamActor

\* Which elements have been taken and settled, and what runs.
StreamShape ==
  /\ ElementsInOrder
  /\ side = "element" => \E e \in Elems : elem[e] = "running"
  /\ FinishedOnceAtEnd

StreamInv == Inv /\ StreamTypeOK /\ StreamShape

LEMMA ElemBounds ==
  ASSUME StreamTypeOK
  PROVE  /\ MaxElems \in Nat /\ made \in Nat /\ Elems \subseteq Nat /\ 1 .. made \subseteq Elems
  BY StreamAssumption DEF StreamTypeOK, Elems

-----------------------------------------------------------------------------
(* Actor's invariant                                                       *)

\* What the loop with a stream does to the variables of Actor when it is not a
\* step of Actor: it goes from its stream to teardown or to cancelled().
Leaves ==
  /\ phase = "waiting" /\ cur = 0
  /\ \/ phase' = "teardown" /\ todo' = UnwindOrder
     \/ phase' \in {"waiting", "cancelling"} /\ todo' = todo
  /\ UNCHANGED <<hooks, cur, flag, notified, boxVars, closed, clientVars>>

LEMMA LeavesInv == Inv /\ Leaves => Inv'
<1> SUFFICES ASSUME Inv, Leaves PROVE Inv'
  OBVIOUS
<1>1. TypeInv'
  <2>1. UnwindOrder \in Seq({"flag", "notify", "close"}) /\ UnwindOrder # <<>>
    BY DEF UnwindOrder
  <2> QED
    BY <2>1 DEF Inv, TypeInv, TypeOK, Leaves, Phases, Hooks, boxVars, clientVars
<1>2. Books'
  BY DEF Inv, Books, Accounted, OldestFirst, Sorted, Leaves, boxVars
<1>3. flag /\ ~notified /\ hooks = "up"
  BY DEF Inv, Life, TeardownShape, HooksBracket, Over, Leaves
<1>4. CurShape' /\ TeardownShape' /\ HooksBracket'
  BY <1>3 DEF CurShape, TeardownShape, HooksBracket, Over, Serving, Leaves
<1>5. StopTaken' /\ StopIsBarrier'
  BY DEF Inv, Life, StopTaken, StopIsBarrier, Over, Leaves, boxVars
<1>6. OpenWhileHeld'
  BY DEF Inv, OpenWhileHeld, Over, HeldBy, Leaves, clientVars
<1> QED BY <1>1, <1>2, <1>4, <1>5, <1>6 DEF Inv, Life

\* A panic on a restart unwinds the loop like a failed refresh.
LEMMA RestartInv == Inv /\ RestartPanics => Inv'
<1> SUFFICES ASSUME Inv, RestartPanics PROVE Inv'
  OBVIOUS
<1>1. /\ cur \in Ids /\ cur # 0 /\ fate[cur] = "running" /\ load[cur] = "restart"
      /\ cur' = 0 /\ fate' = [fate EXCEPT ![cur] = "aborted"]
      /\ phase = "resetting" /\ phase' = "teardown" /\ todo' = UnwindOrder
      /\ flag /\ ~notified /\ hooks = "up"
      /\ UNCHANGED <<hooks, flag, notified, queue, sent, load, closed, clientVars>>
  <2>1. cur # 0 /\ load[cur] = "restart" /\ flag /\ ~notified /\ hooks = "up"
    BY DEF RestartPanics, Inv, Life, CurShape, TeardownShape, HooksBracket, Serving, Over
  <2>2. cur \in Ids
    BY <2>1, IdBounds DEF Inv, TypeInv, TypeOK, Ids
  <2> QED
    BY <2>1, <2>2 DEF RestartPanics, SettleCur, Leave, Inv, Books, Accounted
<1>2. TypeInv'
  <2>1. UnwindOrder \in Seq({"flag", "notify", "close"}) /\ UnwindOrder # <<>>
    BY DEF UnwindOrder
  <2>2. fate' \in [Ids -> Fates] /\ cur' \in 0 .. MaxMsgs
    BY <1>1, IdBounds DEF Inv, TypeInv, TypeOK, Fates, Settled
  <2> QED BY <1>1, <2>1, <2>2 DEF Inv, TypeInv, TypeOK, Phases, Hooks, clientVars
<1>3. Books'
  BY <1>1, SettleBooks DEF RestartPanics, Inv
<1>4. CurShape' /\ TeardownShape' /\ HooksBracket'
  BY <1>1 DEF CurShape, TeardownShape, HooksBracket, Over, Serving
<1>5. \A s \in Ids : ~(load'[s] = "stop" /\ fate'[s] = "done")
  BY <1>1 DEF Inv, Life, StopTaken, Over, TypeInv, TypeOK
<1>6. OpenWhileHeld'
  BY <1>1 DEF OpenWhileHeld, Over
<1> QED BY <1>2, <1>3, <1>4, <1>5, <1>6 DEF Inv, Life, StopTaken, StopIsBarrier

\* A push of the Context, from a handler of the stream or from another hook.
LEMMA StreamCtxPushInv ==
  ASSUME Inv, NEW ld \in CtxLoads, StreamCtxPush(ld)
  PROVE  Inv'
<1>1. ld \in Loads /\ Accept(ld, TRUE) /\ UNCHANGED <<loopVars, closed, clientVars>>
  BY ActorAssumption DEF StreamCtxPush, Loads
<1>2. TypeInv'
  BY <1>1, AcceptType DEF Inv, TypeInv, TypeOK, loopVars, clientVars
<1>3. Books' /\ Life'
  BY <1>1, OutsideLife DEF Inv, Outside
<1>4. OpenWhileHeld'
  BY <1>1 DEF Inv, OpenWhileHeld, Over, HeldBy, loopVars, clientVars
<1> QED BY <1>2, <1>3, <1>4 DEF Inv

\* Every step of a stream actor is a step of Actor or one of the above.
LEMMA StreamSteps ==
  ASSUME StreamInv, StreamNext
  PROVE  \/ [Next]_vars
         \/ Leaves
         \/ RestartPanics
         \/ \E ld \in CtxLoads : StreamCtxPush(ld)
<1>1. CASE SharedStep \/ TakePayload
  BY <1>1 DEF SharedStep, TakePayload, Next, LoopStep
<1>2. ASSUME NEW e \in Elems, TakeElement(e) \/ ElementDone(e) PROVE UNCHANGED vars
  BY <1>2 DEF TakeElement, ElementDone
<1>3. ASSUME NEW e \in Elems, ElementPanics(e) \/ ElementTimesOut(e) PROVE Leaves
  <2>1. phase = "waiting" /\ cur = 0
    BY <1>3 DEF ElementPanics, ElementTimesOut, InElement, StreamInv, StreamShape, ElementsInOrder
  <2>2. CASE ElementPanics(e)
    BY <2>1, <2>2 DEF ElementPanics, Leaves, Leave
  <2>3. CASE ElementTimesOut(e)
    BY <2>1, <2>3 DEF ElementTimesOut, Leaves
  <2> QED BY <1>3, <2>2, <2>3
<1>4. CASE StreamEnds \/ FinishedReturns \/ SourceYields \/ SourceEnds
  BY <1>4 DEF StreamEnds, FinishedReturns, SourceYields, SourceEnds
<1>5. CASE FinishedPanics
  BY <1>5 DEF FinishedPanics, Leaves, Leave, StreamInv, StreamShape, ElementsInOrder
<1>6. ASSUME NEW c \in Clients,
             (\E o \in OpsOf[c] : Begin(c, o) \/ Upgrade(c, o)) \/ ClientStep(c) \/ HandleStep(c)
      PROVE  Next
  BY <1>6 DEF Next
<1> QED
  BY <1>1, <1>2, <1>3, <1>4, <1>5, <1>6 DEF StreamNext, StreamLoopStep

LEMMA ActorInvStep == StreamInv /\ [StreamNext]_allVars => Inv'
<1> SUFFICES ASSUME StreamInv, [StreamNext]_allVars PROVE Inv'
  OBVIOUS
<1>1. CASE UNCHANGED allVars
  <2>1. [Next]_vars
    BY <1>1 DEF allVars
  <2> QED BY <2>1, InvStep DEF StreamInv
<1>2. CASE StreamNext
  BY <1>2, StreamSteps, InvStep, LeavesInv, RestartInv, StreamCtxPushInv DEF StreamInv
<1> QED BY <1>1, <1>2

-----------------------------------------------------------------------------
(* The stream                                                              *)

LEMMA StreamTypeStep == StreamTypeOK /\ [StreamNext]_allVars => StreamTypeOK'
<1> SUFFICES ASSUME StreamTypeOK, [StreamNext]_allVars PROVE StreamTypeOK'
  OBVIOUS
<1>1. CASE UNCHANGED streamVars
  BY <1>1 DEF StreamTypeOK, streamVars
<1>2. ASSUME NEW e \in Elems,
             TakeElement(e) \/ ElementDone(e) \/ ElementPanics(e) \/ ElementTimesOut(e)
      PROVE  StreamTypeOK'
  BY <1>2 DEF TakeElement, ElementDone, ElementPanics, ElementTimesOut, Settles, StreamTypeOK, ElemFates
<1>3. CASE StreamEnds \/ FinishedReturns \/ FinishedPanics \/ SourceEnds
  <2>1. CASE StreamEnds
    BY <2>1 DEF StreamEnds, StreamTypeOK
  <2>2. CASE FinishedReturns \/ FinishedPanics
    BY <2>2 DEF FinishedReturns, FinishedPanics, StreamTypeOK
  <2>3. CASE SourceEnds
    BY <2>3 DEF SourceEnds, StreamTypeOK
  <2> QED BY <1>3, <2>1, <2>2, <2>3
<1>4. CASE SourceYields
  BY <1>4, StreamAssumption DEF SourceYields, StreamTypeOK
<1>5. CASE TakePayload \/ RestartPanics \/ \E ld \in CtxLoads : StreamCtxPush(ld)
  BY <1>1, <1>5 DEF TakePayload, RestartPanics, StreamCtxPush
<1>6. CASE UNCHANGED allVars
  BY <1>1, <1>6 DEF allVars
<1> QED
  BY <1>1, <1>2, <1>3, <1>4, <1>5, <1>6 DEF StreamNext, StreamLoopStep

\* An element that leaves its handler is the only one that was in it.
LEMMA SettlesShape ==
  ASSUME StreamInv, NEW e \in Elems, InElement(e), NEW f \in {"done", "aborted"}, Settles(e, f),
         UNCHANGED <<made, over, finishes, cur>>
  PROVE  StreamShape'
<1>1. /\ \A d \in Elems : elem'[d] = IF d = e THEN f ELSE elem[d]
      /\ elem[e] = "running" /\ side' = "select" /\ Elems \subseteq Nat
      /\ 1 .. made \subseteq Elems
  BY ElemBounds DEF InElement, Settles, StreamInv, StreamTypeOK
<1>2. \A d \in Elems : elem'[d] # "running"
  <2> SUFFICES ASSUME NEW d \in Elems, elem[d] = "running", d # e PROVE FALSE
    BY <1>1
  <2>1. d < e \/ e < d
    BY <1>1
  <2> QED BY <1>1, <2>1 DEF StreamInv, StreamShape, ElementsInOrder
<1>3. ElementsInOrder'
  BY <1>1, <1>2 DEF StreamInv, StreamShape, ElementsInOrder
<1>4. FinishedOnceAtEnd'
  BY <1>1 DEF StreamInv, StreamShape, FinishedOnceAtEnd
<1> QED BY <1>1, <1>3, <1>4 DEF StreamShape

LEMMA ShapeStep == StreamInv /\ [StreamNext]_allVars => StreamShape'
<1> SUFFICES ASSUME StreamInv, [StreamNext]_allVars PROVE StreamShape'
  OBVIOUS
<1>0. Elems \subseteq Nat /\ made \in Nat /\ 1 .. made \subseteq Elems /\ elem \in [Elems -> ElemFates]
  BY ElemBounds DEF StreamInv, StreamTypeOK
<1>1. CASE UNCHANGED streamVars /\ (side # "select" => UNCHANGED <<phase, cur>>)
  BY <1>1 DEF StreamInv, StreamShape, ElementsInOrder, FinishedOnceAtEnd, streamVars
<1>2. CASE SharedStep /\ UNCHANGED streamVars
  <2>1. SharedStep => phase # "waiting"
    <3>1. TeardownStep => phase # "waiting"
      BY DEF TeardownStep
    <3> QED BY <3>1 DEF SharedStep, StartedOk, StartedFails, HandlerDone, HandlerPanics,
         HandlerTimesOut, CancelledReturns, StoppedReturns, StoppedPanics
  <2>2. side = "select"
    BY <1>2, <2>1 DEF StreamInv, StreamShape, ElementsInOrder, StreamTypeOK
  <2> QED BY <1>1, <1>2, <2>2
<1>3. CASE TakePayload \/ RestartPanics
  <2>1. side = "select"
    BY <1>3 DEF TakePayload, Selecting, RestartPanics, StreamInv, StreamShape, ElementsInOrder
  <2> QED BY <1>1, <1>3, <2>1 DEF TakePayload, RestartPanics
<1>4. ASSUME NEW e \in Elems, TakeElement(e) PROVE StreamShape'
  <2>1. /\ \A d \in Elems : elem'[d] = IF d = e THEN "running" ELSE elem[d]
        /\ side = "select" /\ side' = "element" /\ phase = "waiting"
        /\ e \in 1 .. made /\ elem[e] = "pending"
        /\ \A d \in Elems : d < e => elem[d] # "pending"
        /\ UNCHANGED <<phase, cur, made, over, finishes>>
    <3>1. /\ e \in 1 .. made /\ elem[e] = "pending"
          /\ \A d \in 1 .. made : elem[d] = "pending" => e <= d
      BY <1>4 DEF TakeElement, Oldest, Ready
    <3>2. ASSUME NEW d \in Elems, d < e, elem[d] = "pending" PROVE FALSE
      <4>1. d \in 1 .. made
        BY <1>0, <3>1, <3>2 DEF Elems
      <4> QED BY <1>0, <3>1, <3>2, <4>1
    <3> QED BY <1>0, <1>4, <3>1, <3>2 DEF TakeElement, Selecting, vars, loopVars
  <2>2. cur = 0
    BY <2>1 DEF StreamInv, Inv, Life, CurShape, Serving
  <2>3. \A d \in Elems : elem[d] # "running"
    BY <2>1 DEF StreamInv, StreamShape, ElementsInOrder
  <2>4. ElementsInOrder'
    <3>1. \A d \in Elems : elem'[d] # "pending" => d <= made'
      BY <1>0, <2>1 DEF StreamInv, StreamShape, ElementsInOrder
    <3>2. ASSUME NEW d \in Elems, NEW x \in Elems, d < x, elem'[x] # "pending"
          PROVE  elem'[d] \in {"done", "aborted"}
      <4>1. CASE x = e
        <5>1. d # e /\ elem[d] # "pending"
          BY <1>0, <2>1, <3>2, <4>1
        <5> QED BY <1>0, <2>1, <2>3, <5>1 DEF ElemFates
      <4>2. CASE x # e
        <5>1. elem[d] \in {"done", "aborted"}
          BY <2>1, <3>2, <4>2 DEF StreamInv, StreamShape, ElementsInOrder
        <5> QED BY <2>1, <5>1
      <4> QED BY <4>1, <4>2
    <3> QED BY <2>1, <2>2, <3>1, <3>2 DEF ElementsInOrder
  <2>5. finishes = 0
    BY <2>1 DEF StreamInv, StreamShape, FinishedOnceAtEnd, StreamTypeOK
  <2>6. FinishedOnceAtEnd'
    BY <2>1, <2>5 DEF FinishedOnceAtEnd
  <2>7. elem'[e] = "running"
    BY <2>1
  <2> QED BY <2>4, <2>6, <2>7 DEF StreamShape
<1>5. ASSUME NEW e \in Elems, ElementDone(e) \/ ElementPanics(e) \/ ElementTimesOut(e)
      PROVE  StreamShape'
  <2>1. /\ InElement(e) /\ UNCHANGED <<made, over, finishes, cur>>
        /\ \E f \in {"done", "aborted"} : Settles(e, f)
    BY <1>5 DEF ElementDone, ElementPanics, ElementTimesOut, vars, loopVars
  <2> QED BY <2>1, SettlesShape
<1>6. CASE StreamEnds
  <2>1. /\ side = "select" /\ side' = "finished" /\ phase = "waiting" /\ over
        /\ finishes = 0 /\ finishes' = 1 /\ UNCHANGED <<phase, cur, made, over, elem>>
        /\ \A e \in 1 .. made : elem[e] # "pending"
    BY <1>6 DEF StreamEnds, Selecting, Ready, vars, loopVars
  <2>2. cur = 0
    BY <2>1 DEF StreamInv, Inv, Life, CurShape, Serving
  <2>3. \A e \in 1 .. made : elem[e] \in {"done", "aborted"}
    BY <1>0, <2>1 DEF StreamInv, StreamShape, ElementsInOrder, ElemFates
  <2>4. ElementsInOrder'
    BY <2>1, <2>2 DEF StreamInv, StreamShape, ElementsInOrder
  <2>5. FinishedOnceAtEnd'
    BY <2>1, <2>3 DEF FinishedOnceAtEnd
  <2> QED BY <2>1, <2>4, <2>5 DEF StreamShape
<1>7. CASE FinishedReturns \/ FinishedPanics
  <2>1. /\ side = "finished" /\ side' = "select" /\ UNCHANGED <<made, over, elem, finishes, cur>>
    BY <1>7 DEF FinishedReturns, FinishedPanics, vars, loopVars
  <2>2. \A e \in Elems : elem[e] # "running"
    BY <2>1 DEF StreamInv, StreamShape, ElementsInOrder
  <2> QED BY <2>1, <2>2 DEF StreamInv, StreamShape, ElementsInOrder, FinishedOnceAtEnd
<1>8. CASE SourceYields \/ SourceEnds
  <2>1. /\ ~over /\ finishes # 1 /\ made' \in {made, made + 1} /\ finishes \in 0 .. 1
        /\ UNCHANGED <<elem, side, finishes, phase, cur>>
    <3>1. ~over /\ made' \in {made, made + 1} /\ UNCHANGED <<elem, side, finishes, phase, cur>>
      BY <1>8 DEF SourceYields, SourceEnds, vars, loopVars
    <3> QED BY <3>1 DEF StreamInv, StreamShape, FinishedOnceAtEnd, StreamTypeOK
  <2>2. ElementsInOrder'
    BY <1>0, <2>1 DEF StreamInv, StreamShape, ElementsInOrder
  <2>3. FinishedOnceAtEnd'
    BY <2>1 DEF StreamInv, StreamShape, FinishedOnceAtEnd
  <2> QED BY <2>1, <2>2, <2>3 DEF StreamInv, StreamShape
<1>9. ASSUME NEW ld \in CtxLoads, StreamCtxPush(ld) PROVE StreamShape'
  BY <1>1, <1>9 DEF StreamCtxPush, loopVars
<1>10. ASSUME NEW c \in Clients,
              (\E o \in OpsOf[c] : Begin(c, o) \/ Upgrade(c, o)) \/ ClientStep(c) \/ HandleStep(c),
              UNCHANGED streamVars
       PROVE  StreamShape'
  <2>1. UNCHANGED loopVars
    BY <1>10, OutsideSteps DEF StreamInv, Inv, Outside
  <2> QED BY <1>1, <1>10, <2>1 DEF loopVars
<1>11. CASE UNCHANGED allVars
  BY <1>1, <1>11 DEF allVars, vars, loopVars
<1> QED
  BY <1>2, <1>3, <1>4, <1>5, <1>6, <1>7, <1>8, <1>9, <1>10, <1>11 DEF StreamNext, StreamLoopStep

-----------------------------------------------------------------------------
(* The theorems                                                            *)

\* The inductive invariant: Actor's, and the shape of the stream.
THEOREM StreamInvariance == StreamSpec => []StreamInv
<1>1. StreamInit => StreamInv
  <2> SUFFICES ASSUME StreamInit PROVE StreamInv
    OBVIOUS
  <2>1. Inv
    BY TypeInit, LifeInit DEF StreamInit, Inv
  <2>2. StreamTypeOK
    <3>1. elem \in [Elems -> ElemFates]
      BY DEF StreamInit, ElemFates
    <3>2. made \in 0 .. MaxElems /\ finishes \in 0 .. 1 /\ over \in BOOLEAN
      <4>1. made = 0 /\ finishes = 0 /\ over = FALSE
        BY DEF StreamInit
      <4>2. 0 \in 0 .. MaxElems /\ 0 \in 0 .. 1
        BY StreamAssumption
      <4> QED BY <4>1, <4>2
    <3> QED BY <3>1, <3>2 DEF StreamInit, StreamTypeOK
  <2>3. StreamShape
    BY DEF StreamInit, StreamShape, ElementsInOrder, FinishedOnceAtEnd
  <2> QED BY <2>1, <2>2, <2>3 DEF StreamInv
<1>2. StreamInv /\ [StreamNext]_allVars => StreamInv'
  BY ActorInvStep, StreamTypeStep, ShapeStep DEF StreamInv
<1> QED BY <1>1, <1>2, PTL DEF StreamSpec

\* Elements are handled in order, one at a time, and never beside a payload or
\* another hook.
THEOREM ElementsInOrderCorrect == StreamSpec => []ElementsInOrder
<1>1. StreamInv => ElementsInOrder
  BY DEF StreamInv, StreamShape
<1> QED BY StreamInvariance, <1>1, PTL

\* finished() is called at most once, after the last element.
THEOREM FinishedOnceAtEndCorrect == StreamSpec => []FinishedOnceAtEnd
<1>1. StreamInv => FinishedOnceAtEnd
  BY DEF StreamInv, StreamShape
<1> QED BY StreamInvariance, <1>1, PTL

\* The variables of the stream stay in their types.
THEOREM StreamTypeCorrect == StreamSpec => []StreamTypeOK
<1>1. StreamInv => StreamTypeOK
  BY DEF StreamInv
<1> QED BY StreamInvariance, <1>1, PTL

\* Mailbox promises hold for a stream actor as for any other: nothing is lost
\* track of, order, the barrier behind a stop, that a stop is seen before anybody is
\* told, the bracket of hooks, and who keeps the channel open.
THEOREM StreamKeepsPromises ==
  StreamSpec => [](/\ Accounted /\ OldestFirst /\ StopIsBarrier
                   /\ StopVisible /\ HooksBracket /\ OpenWhileHeld)
<1>1. StreamInv => /\ Accounted /\ OldestFirst /\ StopIsBarrier
                   /\ StopVisible /\ HooksBracket /\ OpenWhileHeld
  <2> SUFFICES ASSUME StreamInv
               PROVE  /\ Accounted /\ OldestFirst /\ StopIsBarrier
                      /\ StopVisible /\ HooksBracket /\ OpenWhileHeld
    OBVIOUS
  <2>1. Accounted /\ OldestFirst /\ StopIsBarrier /\ HooksBracket /\ OpenWhileHeld
    BY DEF StreamInv, Inv, Books, Life
  <2>2. StopVisible
    BY DEF StreamInv, Inv, Life, CurShape, TeardownShape, Over, Serving, StopVisible
  <2> QED BY <2>1, <2>2
<1> QED BY StreamInvariance, <1>1, PTL

\* select! loses no element: an element leaves the stream only into its handler.
THEOREM SelectLosesNothingCorrect == StreamSpec => SelectLosesNothing
<1>1. StreamInv /\ [StreamNext]_allVars =>
        [\A e \in Elems : elem'[e] # elem[e] =>
           <<elem[e], elem'[e]>> \in {<<"pending", "running">>, <<"running", "done">>, <<"running", "aborted">>}
        ]_allVars
  <2> SUFFICES ASSUME StreamInv, StreamNext, NEW e \in Elems, elem'[e] # elem[e]
               PROVE  <<elem[e], elem'[e]>> \in
                        {<<"pending", "running">>, <<"running", "done">>, <<"running", "aborted">>}
    OBVIOUS
  <2>1. \E d \in Elems : TakeElement(d) \/ ElementDone(d) \/ ElementPanics(d) \/ ElementTimesOut(d)
    BY DEF StreamNext, StreamLoopStep, TakePayload, RestartPanics, StreamEnds, FinishedReturns,
       FinishedPanics, SourceYields, SourceEnds, StreamCtxPush, streamVars
  <2>2. PICK d \in Elems : TakeElement(d) \/ ElementDone(d) \/ ElementPanics(d) \/ ElementTimesOut(d)
    BY <2>1
  <2>3. d = e /\ elem \in [Elems -> ElemFates]
    BY <2>2 DEF TakeElement, ElementDone, ElementPanics, ElementTimesOut, Settles, StreamInv, StreamTypeOK
  <2>4. CASE TakeElement(e)
    BY <2>3, <2>4 DEF TakeElement, Oldest, Ready
  <2>5. CASE ElementDone(e) \/ ElementPanics(e) \/ ElementTimesOut(e)
    BY <2>3, <2>5 DEF ElementDone, ElementPanics, ElementTimesOut, InElement, Settles
  <2> QED BY <2>2, <2>3, <2>4, <2>5
<1> QED BY StreamInvariance, <1>1, PTL DEF StreamSpec, SelectLosesNothing

\* The end of the stream does not end the actor: only a stop or a mailbox that is
\* closed and empty does.
THEOREM OutlivesStreamCorrect == StreamSpec => OutlivesStream
<1>1. StreamInv /\ [StreamNext]_allVars =>
        [phase = "waiting" /\ phase' = "stopping" =>
           \/ closed /\ queue = <<>>
           \/ queue # <<>> /\ load[Head(queue)] = "stop"]_allVars
  <2> SUFFICES ASSUME StreamInv, StreamNext, phase = "waiting", phase' = "stopping"
               PROVE  \/ closed /\ queue = <<>>
                      \/ queue # <<>> /\ load[Head(queue)] = "stop"
    OBVIOUS
  <2>1. CASE TakePayload
    <3>1. CASE ReceiveClosed
      BY <3>1 DEF ReceiveClosed
    <3>2. CASE Receive
      BY <3>2 DEF Receive, Dispatch, Begun, Stopping
    <3> QED BY <2>1, <3>1, <3>2 DEF TakePayload
  <2>2. CASE SharedStep \/ RestartPanics
    BY <2>2 DEF SharedStep, StartedOk, StartedFails, HandlerDone, HandlerPanics, HandlerTimesOut,
       CancelledReturns, StoppedReturns, StoppedPanics, TeardownStep, RestartPanics
  <2>3. ASSUME NEW e \in Elems,
               TakeElement(e) \/ ElementDone(e) \/ ElementPanics(e) \/ ElementTimesOut(e)
        PROVE  FALSE
    BY <2>3 DEF TakeElement, ElementDone, ElementPanics, ElementTimesOut, Leave, vars, loopVars
  <2>4. CASE StreamEnds \/ FinishedReturns \/ FinishedPanics \/ SourceYields \/ SourceEnds
    BY <2>4 DEF StreamEnds, FinishedReturns, FinishedPanics, SourceYields, SourceEnds, Leave,
       vars, loopVars
  <2>5. ASSUME NEW ld \in CtxLoads, StreamCtxPush(ld) PROVE FALSE
    BY <2>5 DEF StreamCtxPush, loopVars
  <2>6. ASSUME NEW c \in Clients,
               (\E o \in OpsOf[c] : Begin(c, o) \/ Upgrade(c, o)) \/ ClientStep(c) \/ HandleStep(c)
        PROVE  FALSE
    <3>1. UNCHANGED loopVars
      BY <2>6, OutsideSteps DEF StreamInv, Inv, Outside
    <3> QED BY <3>1 DEF loopVars
  <2> QED
    BY <2>1, <2>2, <2>3, <2>4, <2>5, <2>6 DEF StreamNext, StreamLoopStep
<1> QED BY StreamInvariance, <1>1, PTL DEF StreamSpec, OutlivesStream
\* Every step of a stream actor is one that Delivery allows.
LEMMA StreamSimulation == StreamInv /\ [StreamNext]_allVars => [D!DeliveryNext]_(D!deliveryVars)
<1> SUFFICES ASSUME StreamInv, [StreamNext]_allVars PROVE [D!DeliveryNext]_(D!deliveryVars)
  OBVIOUS
<1>1. CASE [Next]_vars
  BY <1>1, StepSimulation DEF StreamInv
<1>2. CASE Leaves
  BY <1>2 DEF Leaves, boxVars, D!deliveryVars
<1>3. CASE RestartPanics
  BY <1>3, SettleIsFinish DEF RestartPanics, StreamInv, Serving, D!DeliveryNext
<1>4. ASSUME NEW ld \in CtxLoads, StreamCtxPush(ld) PROVE D!DeliveryNext
  <2>1. ld \in Loads /\ Accept(ld, TRUE) /\ UNCHANGED <<cur, flag, notified>>
    BY <1>4, ActorAssumption DEF StreamCtxPush, Loads, loopVars
  <2> QED BY <2>1, AcceptIsTake DEF StreamInv, Inv, D!DeliveryNext
<1>5. CASE UNCHANGED allVars
  BY <1>1, <1>5 DEF allVars
<1> QED BY <1>1, <1>2, <1>3, <1>4, <1>5, StreamSteps

\* A stream actor delivers like any other: create_on_stream serves its mailbox in
\* order, at most once, one payload at a time, and nothing after the end, whatever
\* the stream and a restart's panic do to the loop.
THEOREM StreamDeliversSafely == StreamSpec => DeliversSafely
<1>1. StreamInit => D!DeliveryInit
  BY DEF StreamInit, Init, D!DeliveryInit, D!Msgs, Ids, OutcomeOf
<1> QED BY <1>1, StreamInvariance, StreamSimulation, PTL DEF StreamSpec, DeliversSafely, D!DeliverySafe

-----------------------------------------------------------------------------
(* It lives as every actor does                                            *)

\* What the proof that Actor implements Lifecycle keeps beside its invariant.
LifeShape == LoadShape /\ ClosedUnlessHeld /\ StartShape /\ UnwindShape

\* What a payload is does not change once it was accepted, nor what was cut short.
LEMMA AcceptKeeps ==
  ASSUME Inv, NEW ld \in Loads, NEW forced \in BOOLEAN, Accept(ld, forced), hooks' = hooks
  PROVE  /\ \A i \in Ids : fate[i] # "unsent" => load'[i] = load[i]
         /\ ~Orderly => ~Orderly'
<1>1. sent + 1 \in Ids /\ fate[sent + 1] = "unsent"
  BY AcceptType DEF Inv, Books, Accounted, TypeInv, TypeOK
<1>2. ASSUME NEW i \in Ids, fate[i] # "unsent" PROVE i # sent + 1 /\ load'[i] = load[i]
  BY <1>1, <1>2 DEF Accept, Inv, TypeInv, TypeOK
<1>3. ASSUME NEW i \in Ids, fate[i] = "aborted" PROVE fate'[i] = "aborted"
  <2>1. ~In(i, queue) /\ queue \in Seq(Nat) /\ Sorted(queue)
    BY <1>3, BooksFacts DEF Inv, Books
  <2>2. Full(queue) => i \notin {Head(queue)}
    BY <2>1, ForcePushedType, TailFacts
  <2> QED BY <1>2, <1>3, <2>2 DEF Accept, Evicted
<1> QED BY <1>2, <1>3 DEF Orderly

\* Without a step of Actor nobody lets go of the actor, and a loop that leaves
\* leaves out of order.
LEMMA OwnStepShape ==
  ASSUME StreamInv, LifeShape,
         Leaves \/ RestartPanics \/ (\E ld \in CtxLoads : StreamCtxPush(ld))
  PROVE  LifeShape' /\ HeldBy(handle)' = HeldBy(handle)
<1>1. UNCHANGED <<hooks, closed, handle>>
  BY DEF Leaves, RestartPanics, StreamCtxPush, loopVars, clientVars
<1>2. ClosedUnlessHeld' /\ HeldBy(handle)' = HeldBy(handle)
  BY <1>1 DEF LifeShape, ClosedUnlessHeld, HeldBy
<1>3. CASE Leaves
  <2>1. LoadShape'
    BY <1>3 DEF Leaves, LifeShape, LoadShape, boxVars
  <2>2. hooks = "up"
    BY <1>3 DEF Leaves, StreamInv, Inv, Life, HooksBracket, Over
  <2>3. StartShape'
    BY <1>3 DEF Leaves, StartShape
  <2>4. UnwindShape'
    BY <1>1, <1>3, <2>2, OrdersDiffer DEF Leaves, UnwindShape, Orderly
  <2> QED BY <1>2, <2>1, <2>3, <2>4 DEF LifeShape
<1>4. CASE RestartPanics
  <2>1. LoadShape'
    <3>1. cur \in Ids /\ load[cur] = "restart" /\ load' = load
      BY <1>4, IdBounds DEF RestartPanics, StreamInv, Inv, Life, CurShape, Serving, TypeInv, TypeOK, Ids
    <3> QED BY <1>4, <3>1 DEF RestartPanics, SettleCur, LifeShape, LoadShape, StreamInv, Inv, TypeInv, TypeOK
  <2>2. hooks = "up" /\ phase' = "teardown" /\ todo' = UnwindOrder
    BY <1>4 DEF RestartPanics, Leave, StreamInv, Inv, Life, HooksBracket, Over
  <2>3. StartShape' /\ UnwindShape'
    BY <1>1, <2>2, OrdersDiffer DEF StartShape, UnwindShape, Orderly
  <2> QED BY <1>2, <2>1, <2>3 DEF LifeShape
<1>5. ASSUME NEW ld \in CtxLoads, StreamCtxPush(ld) PROVE LifeShape'
  <2>1. ld \in Loads /\ Accept(ld, TRUE) /\ UNCHANGED loopVars
    BY <1>5, ActorAssumption DEF StreamCtxPush, Loads
  <2>2. LoadShape'
    BY <2>1, AcceptShape DEF StreamInv, LifeShape
  <2>3. StartShape'
    BY <2>1 DEF LifeShape, StartShape, loopVars
  <2>4. ~Orderly => ~Orderly'
    BY <1>1, <2>1, AcceptKeeps DEF StreamInv
  <2>5. UnwindShape'
    BY <1>1, <2>1, <2>4 DEF LifeShape, UnwindShape, loopVars
  <2> QED BY <1>2, <2>2, <2>3, <2>5 DEF LifeShape
<1> QED BY <1>2, <1>3, <1>4, <1>5

LEMMA LifeShapeStep == StreamInv /\ LifeShape /\ [StreamNext]_allVars => LifeShape'
<1> SUFFICES ASSUME StreamInv, LifeShape, [StreamNext]_allVars PROVE LifeShape'
  OBVIOUS
<1>1. CASE [Next]_vars
  <2>1. LoadShape' /\ ClosedUnlessHeld' /\ StartShape'
    BY <1>1, LoadShapeStep, ClosedUnlessHeldStep, StartStep DEF StreamInv, LifeShape
  <2>2. CASE Next
    BY <2>1, <2>2, UnwindStep DEF StreamInv, LifeShape
  <2>3. CASE UNCHANGED vars
    <3>1. UNCHANGED <<phase, todo, hooks, load, fate, closed>>
      BY <2>3 DEF vars, loopVars, boxVars
    <3> QED BY <2>1, <3>1 DEF LifeShape, UnwindShape, Orderly
  <2> QED BY <1>1, <2>2, <2>3
<1>2. CASE UNCHANGED allVars
  BY <1>1, <1>2 DEF allVars
<1> QED BY <1>1, <1>2, StreamSteps, OwnStepShape

\* What the loop does with its stream is a failure in the actor's life or nothing;
\* what the stream's handlers push is a word to stop or nothing.
LEMMA OwnStepLives ==
  ASSUME StreamInv, LifeShape,
         Leaves \/ RestartPanics \/ (\E ld \in CtxLoads : StreamCtxPush(ld))
  PROVE  L!LifeNext \/ UNCHANGED L!lifeVars
<1>1. LifeShape' /\ HeldBy(handle)' = HeldBy(handle)
  BY OwnStepShape
<1>2. ASSUME phase \in {"waiting", "resetting"}, phase' = "teardown", todo' = UnwindOrder
      PROVE  L!LifeNext
  <2>1. Stage(phase, todo) = "up" /\ Stage(phase, todo)' = "stopping"
    BY <1>2, StageFacts
  <2>2. Told' = TRUE
    BY <1>1, <1>2 DEF LifeShape, UnwindShape, Told, Over
  <2> QED BY <1>1, <2>1, <2>2 DEF L!LifeNext, L!Fail
<1>3. CASE Leaves
  <2>1. CASE phase' \in {"waiting", "cancelling"}
    <3>1. Stage(phase, todo) = "up" /\ Stage(phase, todo)' = "up"
      BY <1>3, <2>1, StageFacts DEF Leaves
    <3>2. Told' = Told
      BY <1>3, <2>1 DEF Leaves, Told, Over, boxVars
    <3> QED BY <1>1, <3>1, <3>2 DEF L!lifeVars
  <2> QED BY <1>2, <1>3, <2>1 DEF Leaves
<1>4. CASE RestartPanics
  BY <1>2, <1>4 DEF RestartPanics, Leave
<1>5. ASSUME NEW ld \in CtxLoads, StreamCtxPush(ld) PROVE L!LifeNext \/ UNCHANGED L!lifeVars
  <2>1. ld \in Loads /\ Accept(ld, TRUE) /\ ~closed /\ phase' = phase /\ todo' = todo
    BY <1>5, ActorAssumption DEF StreamCtxPush, Loads, loopVars
  <2>2. Told => Told'
    <3>1. ASSUME NEW i \in Ids, load[i] = "stop" PROVE load'[i] = "stop"
      <4>1. fate[i] # "unsent"
        BY <3>1 DEF LifeShape, LoadShape
      <4> QED BY <1>5, <2>1, <3>1, <4>1, AcceptKeeps DEF StreamInv, StreamCtxPush, loopVars
    <3>2. Over => Over' /\ (~Orderly => ~Orderly')
      BY <1>5, <2>1, AcceptKeeps DEF Over, StreamInv, LifeShape, StreamCtxPush, loopVars
    <3> QED BY <3>1, <3>2 DEF Told
  <2>3. Told \in BOOLEAN /\ Told' \in BOOLEAN
    BY DEF Told
  <2>4. CASE Told' = Told
    BY <1>1, <2>1, <2>4 DEF L!lifeVars
  <2>5. CASE Told' = TRUE
    BY <1>1, <2>1, <2>5, OpenStage DEF LifeShape, StreamInv, L!LifeNext, L!Tell
  <2> QED BY <2>2, <2>3, <2>4, <2>5
<1> QED BY <1>3, <1>4, <1>5

\* An actor on a stream lives as Lifecycle says too: the stream and its end give it
\* no reason to stop, an element's panic or timeout and a restart end it as a
\* failure does, and what its handlers push reaches it while its receiver is there.
THEOREM StreamImplementsLifecycle == StreamSpec => ImplementsLifecycle
<1>1. StreamInit => L!LifeInit /\ LifeShape
  <2>1. ASSUME StreamInit PROVE Init
    BY <2>1 DEF StreamInit
  <2>2. ASSUME Init PROVE LifeShape
    BY <2>2, ActorAssumption DEF Init, LifeShape, LoadShape, ClosedUnlessHeld, HeldBy, IsStrong,
       StartShape, UnwindShape
  <2> QED BY <2>1, <2>2, LifecycleStarts
<1>2. StreamInv /\ LifeShape /\ [StreamNext]_allVars => [L!LifeNext]_L!lifeVars
  <2> SUFFICES ASSUME StreamInv, LifeShape, [StreamNext]_allVars PROVE [L!LifeNext]_L!lifeVars
    OBVIOUS
  <2>1. CASE [Next]_vars
    BY <2>1, LifecycleStep DEF StreamInv, LifeShape
  <2>2. CASE UNCHANGED allVars
    BY <2>1, <2>2 DEF allVars
  <2> QED BY <2>1, <2>2, StreamSteps, OwnStepLives
<1> QED
  BY <1>1, <1>2, StreamInvariance, LifeShapeStep, PTL
     DEF StreamSpec, ImplementsLifecycle, L!LifecycleSpec
=============================================================================

------------------------- MODULE ActorDeliveryProofs -------------------------
(***************************************************************************)
(* The actor's safety, for any clients, operations, capacity and number of *)
(* payloads, is what Delivery promises.                                    *)
(***************************************************************************)
EXTENDS ActorProofs, ActorDelivery

outcome == [i \in Ids |-> OutcomeOf(fate[i])]

\* A payload is waiting for service exactly while it is in the mailbox.
LEMMA Waiting ==
  ASSUME TypeInv, Books
  PROVE  /\ \A i \in Ids : outcome[i] = "waiting" <=> In(i, queue)
         /\ queue # <<>> => D!Oldest(Head(queue)) /\ Head(queue) \in Ids
<1>1. \A i \in Ids : outcome[i] = "waiting" <=> In(i, queue)
  <2>1. \A i \in Ids : fate[i] = "queued" <=> In(i, queue)
    BY BooksFacts
  <2> QED BY <2>1 DEF outcome, OutcomeOf
<1>2. ASSUME queue # <<>> PROVE D!Oldest(Head(queue)) /\ Head(queue) \in Ids
  <2>1. /\ Head(queue) \in Nat /\ In(Head(queue), queue)
        /\ \A x : In(x, queue) => Head(queue) <= x
    BY <1>2, BooksFacts, TailFacts DEF Books
  <2>2. Head(queue) \in Ids
    BY <2>1, BooksFacts
  <2>3. Ids = D!Msgs
    BY DEF Ids, D!Msgs
  <2> QED BY <1>1, <2>1, <2>2, <2>3 DEF D!Oldest, outcome
<1> QED BY <1>1, <1>2

LEMMA AcceptIsTake ==
  ASSUME TypeInv, Books, NEW ld \in Loads, NEW forced \in BOOLEAN, Accept(ld, forced),
         UNCHANGED <<cur, flag, notified>>
  PROVE  D!Take
<1>1. /\ sent \in Nat /\ sent < MaxMsgs /\ sent' = sent + 1 /\ sent + 1 \in Ids
      /\ fate \in [Ids -> Fates] /\ queue \in Seq(Ids)
  <2>1. sent < MaxMsgs /\ sent' = sent + 1
    BY DEF Accept
  <2>2. sent + 1 \in Ids
    BY AcceptType
  <2> QED BY <2>1, <2>2, BooksFacts DEF TypeInv, TypeOK
<1>2. CASE forced /\ Full(queue)
  <2> DEFINE h == Head(queue)
  <2>1. queue # <<>> /\ Capacity # 0
    BY <1>1, <1>2, ForcePushedType DEF Full
  <2>2. D!Oldest(h) /\ h \in Ids
    BY <2>1, Waiting
  <2>3. h # sent + 1
    <3>1. In(h, queue)
      BY <2>1, BooksFacts, TailFacts DEF Books
    <3> QED BY <1>1, <3>1, BooksFacts
  <2>4. fate' = [i \in Ids |-> IF i = sent + 1 THEN "queued" ELSE IF i = h THEN "evicted" ELSE fate[i]]
    BY <1>2 DEF Accept, Evicted
  <2>5. outcome' = [outcome EXCEPT ![sent + 1] = "waiting", ![h] = "lost"]
    <3>1. outcome' = [i \in Ids |-> OutcomeOf(fate'[i])]
      BY DEF outcome
    <3>2. \A i \in Ids : OutcomeOf(fate'[i]) = IF i = sent + 1 THEN "waiting"
                                              ELSE IF i = h THEN "lost" ELSE OutcomeOf(fate[i])
      BY <2>4 DEF OutcomeOf
    <3> HIDE DEF h
    <3> QED BY <1>1, <2>2, <2>3, <3>1, <3>2 DEF outcome
  <2> QED BY <1>1, <2>1, <2>2, <2>5 DEF D!Take, D!Msgs, Ids, outcome
<1>3. CASE ~(forced /\ Full(queue))
  <2>1. fate' = [i \in Ids |-> IF i = sent + 1 THEN "queued" ELSE fate[i]]
    BY <1>3 DEF Accept, Evicted
  <2>2. outcome' = [outcome EXCEPT ![sent + 1] = "waiting"]
    BY <1>1, <2>1 DEF outcome, OutcomeOf
  <2> QED BY <1>1, <2>2 DEF D!Take, outcome
<1> QED BY <1>2, <1>3

LEMMA ReceiveIsServe ==
  ASSUME Inv, Receive
  PROVE  \E i \in D!Msgs : D!Serve(i)
<1> DEFINE m == Head(queue)
<1>1. queue # <<>> /\ m \in Ids /\ D!Oldest(m)
  BY Waiting DEF Receive, Inv
<1>2. cur = 0 /\ flag /\ UNCHANGED <<flag, notified, sent>>
  BY DEF Receive, Inv, Life, CurShape, TeardownShape, Over, Serving
<1>3. CASE cur' = m /\ fate' = [fate EXCEPT ![m] = "running"]
  <2>1. outcome' = [outcome EXCEPT ![m] = "served"]
    BY <1>1, <1>3 DEF outcome, OutcomeOf, Inv, TypeInv, TypeOK
  <2>2. D!Serve(m)
    BY <1>1, <1>2, <1>3, <2>1 DEF D!Serve, outcome
  <2> QED BY <1>1, <2>2 DEF D!Msgs, Ids
<1>4. CASE cur' = 0 /\ fate' = [fate EXCEPT ![m] = "done"]
  <2>1. outcome' = [outcome EXCEPT ![m] = "done"]
    BY <1>1, <1>4 DEF outcome, OutcomeOf, Inv, TypeInv, TypeOK
  <2>2. D!Serve(m)
    BY <1>1, <1>2, <1>4, <2>1 DEF D!Serve, outcome
  <2> QED BY <1>1, <2>2 DEF D!Msgs, Ids
<1> QED BY <1>3, <1>4 DEF Receive, Dispatch, Begun, Stopping

LEMMA SettleIsFinish ==
  ASSUME Inv, phase \in Serving, NEW f \in {"done", "aborted"}, SettleCur(f),
         UNCHANGED <<flag, notified, sent>>
  PROVE  D!Finish
<1>1. cur # 0 /\ flag
  BY DEF Inv, Life, CurShape, TeardownShape, Over, Serving
<1>2. cur \in Ids
  BY <1>1, IdBounds DEF Inv, TypeInv, TypeOK, Ids
<1>3. \E o \in {"done", "lost"} : outcome' = [outcome EXCEPT ![cur] = o]
  <2>1. outcome' = [outcome EXCEPT ![cur] = OutcomeOf(f)]
    BY <1>2 DEF SettleCur, outcome, Inv, TypeInv, TypeOK
  <2> QED BY <2>1 DEF OutcomeOf
<1> QED BY <1>1, <1>3 DEF D!Finish, SettleCur, outcome

LEMMA TeardownIsEnd ==
  ASSUME Inv, TeardownStep
  PROVE  D!End \/ D!Announce \/ UNCHANGED D!deliveryVars
<1>1. cur = 0 /\ UNCHANGED <<cur, sent, fate>>
  BY DEF TeardownStep, boxVars, Inv, Life, CurShape, Serving
<1>2. outcome' = outcome
  BY <1>1 DEF outcome
<1>3. /\ (flag' <=> flag /\ Head(todo) # "flag")
      /\ (notified' <=> notified \/ Head(todo) = "notify")
      /\ flag \in BOOLEAN /\ notified \in BOOLEAN /\ flag' \in BOOLEAN /\ notified' \in BOOLEAN
  BY DEF TeardownStep, Inv, TypeInv, TypeOK
<1>4. \/ Head(todo) = "flag" /\ flag
      \/ Head(todo) = "notify" /\ ~flag /\ ~notified
      \/ Head(todo) = "close"
  BY TodoFacts DEF TeardownStep, Inv, Life, TeardownShape
<1>5. CASE Head(todo) = "flag" /\ flag
  <2>1. flag' = FALSE /\ notified' = notified
    BY <1>3, <1>5
  <2> QED BY <1>1, <1>2, <1>5, <2>1 DEF D!End, outcome
<1>6. CASE Head(todo) = "notify" /\ ~flag /\ ~notified
  <2>1. flag' = flag /\ notified' = TRUE
    BY <1>3, <1>6
  <2> QED BY <1>1, <1>2, <1>6, <2>1 DEF D!Announce, outcome
<1>7. CASE Head(todo) = "close"
  <2>1. flag' = flag /\ notified' = notified
    BY <1>3, <1>7
  <2> QED BY <1>1, <1>2, <2>1 DEF D!deliveryVars, outcome
<1> QED BY <1>4, <1>5, <1>6, <1>7

LEMMA StepSimulation == Inv /\ [Next]_vars => [D!DeliveryNext]_(D!deliveryVars)
<1> SUFFICES ASSUME Inv, [Next]_vars PROVE [D!DeliveryNext]_(D!deliveryVars)
  OBVIOUS
<1>1. CASE UNCHANGED <<sent, fate, cur, flag, notified>>
  BY <1>1 DEF D!deliveryVars
<1>2. CASE Outside
  BY <1>1, <1>2, AcceptIsTake DEF Outside, loopVars, boxVars, Inv, D!DeliveryNext
<1>3. CASE Receive
  BY <1>3, ReceiveIsServe DEF D!DeliveryNext
<1>4. CASE TeardownStep
  BY <1>4, TeardownIsEnd DEF D!DeliveryNext
<1>5. CASE /\ phase \in Serving /\ \E f \in {"done", "aborted"} : SettleCur(f)
           /\ UNCHANGED <<flag, notified, sent>>
  BY <1>5, SettleIsFinish DEF D!DeliveryNext
<1>6. CASE LoopStep
  BY <1>1, <1>3, <1>4, <1>5, <1>6 DEF LoopStep, StartedOk, StartedFails, ReceiveClosed, HandlerDone,
     HandlerPanics, HandlerTimesOut, CancelledReturns, RefreshStopped, RefreshStarted,
     RefreshFails, StoppedReturns, StoppedPanics, boxVars, Serving
<1>7. CASE UNCHANGED vars
  BY <1>1, <1>7 DEF vars, loopVars, boxVars
<1> QED BY <1>2, <1>6, <1>7, OutsideSteps DEF Inv, Next

\* Every behaviour of the actor is one that Delivery allows: in order, at most
\* once, one at a time, nothing after the end, which is announced after it.
THEOREM DeliversSafelyCorrect == Spec => DeliversSafely
<1>1. Init => D!DeliveryInit
  BY DEF Init, D!DeliveryInit, D!Msgs, Ids, OutcomeOf
<1> QED BY <1>1, Invariance, StepSimulation, PTL DEF Spec, DeliversSafely, D!DeliverySafe
=============================================================================

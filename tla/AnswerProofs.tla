---------------------------- MODULE AnswerProofs ----------------------------
(***************************************************************************)
(* Theorems about what callers, and those who stop an actor, may rely on,  *)
(* for any clients, operations and capacity: who waits for which payload,  *)
(* what can become of a stop, when the end is announced in order, and that *)
(* the actor lives as Lifecycle says.                                      *)
(***************************************************************************)
EXTENDS ActorProofs, ActorDelivery

-----------------------------------------------------------------------------
(* What can become of a payload                                            *)

\* Only what was accepted is something; only tasks and restarts are cut short;
\* only a bounded mailbox pushes payloads out.
LoadShape ==
  \A i \in Ids :
    /\ fate[i] = "unsent" => load[i] = "none"
    /\ fate[i] = "aborted" => load[i] \in {"task", "restart"}
    /\ fate[i] = "evicted" => Capacity # 0

\* A stop that was accepted is still in the mailbox or has been heeded, unless a
\* bounded mailbox has pushed it out: no timeout, panic or restart undoes it.
StopStands ==
  \A i \in Ids : load[i] = "stop" =>
    \/ fate[i] = "queued"
    \/ fate[i] = "done" /\ (phase = "stopping" \/ Over)
    \/ fate[i] = "evicted" /\ Capacity # 0

LEMMA AcceptShape ==
  ASSUME Inv, LoadShape, NEW ld \in Loads, NEW forced \in BOOLEAN, Accept(ld, forced)
  PROVE  LoadShape'
<1> SUFFICES ASSUME NEW i \in Ids
             PROVE  /\ fate'[i] = "unsent" => load'[i] = "none"
                    /\ fate'[i] = "aborted" => load'[i] \in {"task", "restart"}
                    /\ fate'[i] = "evicted" => Capacity # 0
  BY DEF LoadShape
<1> DEFINE lost == IF forced THEN Evicted(queue) ELSE {}
<1>1. /\ fate'[i] = IF i = sent + 1 THEN "queued" ELSE IF i \in lost THEN "evicted" ELSE fate[i]
      /\ i # sent + 1 => load'[i] = load[i]
  BY DEF Accept, Inv, TypeInv, TypeOK
<1>2. i \in lost => Capacity # 0
  BY DEF Evicted, Full
<1> QED BY <1>1, <1>2 DEF LoadShape

LEMMA LoadShapeStep == Inv /\ LoadShape /\ [Next]_vars => LoadShape'
<1> SUFFICES ASSUME Inv, LoadShape, [Next]_vars PROVE LoadShape'
  OBVIOUS
<1>1. CASE UNCHANGED boxVars
  BY <1>1 DEF LoadShape, boxVars
<1>2. CASE Outside
  BY <1>1, <1>2, AcceptShape DEF Outside
<1>3. CASE Receive
  <2>1. load' = load /\ \E f \in {"running", "done"} : fate' = [fate EXCEPT ![Head(queue)] = f]
    BY <1>3 DEF Receive, Dispatch, Begun, Stopping
  <2> QED BY <2>1 DEF LoadShape, Inv, TypeInv, TypeOK
<1>4. ASSUME LoopStep, NEW f \in {"done", "aborted"}, SettleCur(f), phase \in Serving,
             f = "aborted" => load[cur] \in {"task", "restart"}, load' = load
      PROVE  LoadShape'
  BY <1>4 DEF SettleCur, LoadShape, Inv, TypeInv, TypeOK
<1>5. ASSUME LoopStep, ~Receive, ~UNCHANGED boxVars PROVE LoadShape'
  <2>1. load' = load
    BY <1>5 DEF LoopStep, StartedOk, StartedFails, ReceiveClosed, HandlerDone, HandlerPanics,
       HandlerTimesOut, CancelledReturns, RefreshStopped, RefreshStarted, RefreshFails,
       StoppedReturns, StoppedPanics, TeardownStep
  <2>2. CASE HandlerDone \/ RefreshStarted
    BY <1>4, <1>5, <2>1, <2>2 DEF HandlerDone, RefreshStarted, Serving
  <2>3. CASE HandlerPanics \/ HandlerTimesOut
    BY <1>4, <1>5, <2>1, <2>3 DEF HandlerPanics, HandlerTimesOut, Serving
  <2>4. CASE RefreshFails
    <3>1. load[cur] = "restart"
      BY <2>4 DEF RefreshFails, Inv, Life, CurShape
    <3> QED BY <1>4, <1>5, <2>1, <2>4, <3>1 DEF RefreshFails, Serving
  <2> QED
    BY <1>5, <2>2, <2>3, <2>4 DEF LoopStep, StartedOk, StartedFails, ReceiveClosed,
       CancelledReturns, RefreshStopped, StoppedReturns, StoppedPanics, TeardownStep
<1> QED BY <1>1, <1>2, <1>3, <1>5, OutsideSteps DEF Next, vars, Inv

THEOREM LoadShapeCorrect == Spec => []LoadShape
<1>1. Init => LoadShape
  BY DEF Init, LoadShape
<1> QED BY <1>1, Invariance, LoadShapeStep, PTL DEF Spec

\* An accepted stop stands: nothing that happens to the loop takes it back, and on
\* an unbounded mailbox nothing at all does.  This is the safety of StopHonoured.
THEOREM StopStandsCorrect == Spec => []StopStands
<1>1. Inv /\ LoadShape => StopStands
  <2> SUFFICES ASSUME Inv, LoadShape, NEW i \in Ids, load[i] = "stop"
               PROVE  \/ fate[i] = "queued"
                      \/ fate[i] = "done" /\ (phase = "stopping" \/ Over)
                      \/ fate[i] = "evicted" /\ Capacity # 0
    BY DEF StopStands
  <2>1. fate[i] \in {"queued", "running", "done", "evicted"} /\ (fate[i] = "evicted" => Capacity # 0)
    BY DEF LoadShape, Inv, TypeInv, TypeOK, Fates, Settled
  <2>2. fate[i] # "running"
    BY DEF Inv, Books, Accounted, Life, CurShape, Serving, Ids
  <2> QED BY <2>1, <2>2 DEF Inv, Life, StopTaken
<1> QED BY <1>1, Invariance, LoadShapeCorrect, PTL

-----------------------------------------------------------------------------
(* Who waits for what                                                      *)

\* A caller waits for a payload that it sent itself, and nobody else does.
AnswerIsOwn ==
  \A c \in Clients : pc[c] = "reply" =>
    /\ mid[c] \in Ids /\ mid[c] <= sent /\ load[mid[c]] = op[c].load
    /\ \A d \in Clients : pc[d] = "reply" /\ mid[d] = mid[c] => d = c

\* A step changes one client's operation at most, and who begins to wait for an
\* answer waits for what was accepted in that step.
LEMMA WaiterStep ==
  ASSUME Inv, Next
  PROVE  \E c \in Clients :
           /\ \A d \in Clients : d # c => pc'[d] = pc[d] /\ mid'[d] = mid[d] /\ op'[d] = op[d]
           /\ pc'[c] = "reply" =>
                /\ op'[c] = op[c]
                /\ \/ pc[c] = "reply" /\ mid'[c] = mid[c]
                   \/ mid'[c] = sent + 1 /\ Accept(op[c].load, op[c].push = "force")
<1>1. \E c \in Clients : TRUE
  BY ActorAssumption
<1>2. ASSUME NEW c \in Clients, NEW r, Return(c, r) PROVE pc'[c] = "idle"
             /\ \A d \in Clients : d # c => pc'[d] = pc[d] /\ mid'[d] = mid[d] /\ op'[d] = op[d]
  BY <1>2 DEF Return, Inv, TypeInv, TypeOK
<1>3. ASSUME NEW c \in Clients, NEW o \in OpsOf[c], Start(c, o)
      PROVE  /\ pc'[c] # "reply"
             /\ \A d \in Clients : d # c => pc'[d] = pc[d] /\ mid'[d] = mid[d] /\ op'[d] = op[d]
  BY <1>3 DEF Start, Inv, TypeInv, TypeOK
<1>4. ASSUME NEW c \in Clients, NEW o \in OpsOf[c], Begin(c, o) \/ Upgrade(c, o)
      PROVE  UNCHANGED <<pc, mid, op>> \/ Start(c, o)
  BY <1>4 DEF Begin, Upgrade
<1>5. ASSUME NEW c \in Clients, GetReply(c) \/ AwaitStopped(c) PROVE \E r : Return(c, r)
  BY <1>5 DEF GetReply, AwaitStopped
<1>6. ASSUME NEW c \in Clients, Check(c)
      PROVE  \/ \E r : Return(c, r)
             \/ pc' = [pc EXCEPT ![c] = "push"] /\ UNCHANGED <<mid, op>>
  BY <1>6 DEF Check
<1>7. ASSUME NEW c \in Clients, Push(c)
      PROVE  \/ \E r : Return(c, r)
             \/ /\ pc' = [pc EXCEPT ![c] = op[c].then] /\ mid' = [mid EXCEPT ![c] = sent + 1]
                /\ op' = op /\ Accept(op[c].load, op[c].push = "force")
  BY <1>7 DEF Push
<1>8. ASSUME LoopStep \/ (\E ld \in CtxLoads : CtxPush(ld)) \/ \E c \in Clients : HandleStep(c)
      PROVE  UNCHANGED <<pc, mid, op>>
  BY <1>8 DEF LoopStep, StartedOk, StartedFails, Receive, ReceiveClosed, HandlerDone, clientVars,
     HandlerPanics, HandlerTimesOut, CancelledReturns, RefreshStopped, RefreshStarted,
     RefreshFails, StoppedReturns, StoppedPanics, TeardownStep, CtxPush,
     HandleStep, DropHandle, KeepUpgrade, Downgrade, Share
<1>9. ASSUME NEW c \in Clients, pc' = [pc EXCEPT ![c] = "push"], UNCHANGED <<mid, op>>
       PROVE  pc'[c] # "reply"
              /\ \A d \in Clients : d # c => pc'[d] = pc[d] /\ mid'[d] = mid[d] /\ op'[d] = op[d]
  BY <1>9 DEF Inv, TypeInv, TypeOK
<1>10. ASSUME NEW c \in Clients, NEW w, pc' = [pc EXCEPT ![c] = w], mid' = [mid EXCEPT ![c] = sent + 1], op' = op
       PROVE  /\ \A d \in Clients : d # c => pc'[d] = pc[d] /\ mid'[d] = mid[d] /\ op'[d] = op[d]
              /\ mid'[c] = sent + 1
  BY <1>10 DEF Inv, TypeInv, TypeOK
<1>11. ASSUME NEW c \in Clients, NEW o \in OpsOf[c], Begin(c, o) \/ Upgrade(c, o)
       PROVE  \/ UNCHANGED <<pc, mid, op>>
              \/ /\ pc'[c] # "reply"
                 /\ \A d \in Clients : d # c => pc'[d] = pc[d] /\ mid'[d] = mid[d] /\ op'[d] = op[d]
  BY <1>3, <1>4, <1>11
<1>12. ASSUME NEW c \in Clients, Check(c) \/ GetReply(c) \/ AwaitStopped(c)
       PROVE  /\ pc'[c] # "reply"
              /\ \A d \in Clients : d # c => pc'[d] = pc[d] /\ mid'[d] = mid[d] /\ op'[d] = op[d]
  <2>1. CASE \E r : Return(c, r)
    BY <1>2, <2>1
  <2>2. CASE pc' = [pc EXCEPT ![c] = "push"] /\ UNCHANGED <<mid, op>>
    BY <1>9, <2>2
  <2> QED BY <1>5, <1>6, <1>12, <2>1, <2>2
<1>13. ASSUME NEW c \in Clients, Push(c)
       PROVE  \/ \E r : Return(c, r)
              \/ /\ \A d \in Clients : d # c => pc'[d] = pc[d] /\ mid'[d] = mid[d] /\ op'[d] = op[d]
                 /\ mid'[c] = sent + 1 /\ op' = op /\ Accept(op[c].load, op[c].push = "force")
  BY <1>7, <1>10, <1>13
<1> DEFINE Moves(c) ==
             /\ \A d \in Clients : d # c => pc'[d] = pc[d] /\ mid'[d] = mid[d] /\ op'[d] = op[d]
             /\ pc'[c] = "reply" =>
                  /\ op'[c] = op[c]
                  /\ \/ pc[c] = "reply" /\ mid'[c] = mid[c]
                     \/ mid'[c] = sent + 1 /\ Accept(op[c].load, op[c].push = "force")
<1>14. ASSUME NEW c \in Clients, Push(c) PROVE Moves(c)
  <2>1. CASE \E r : Return(c, r)
    <3>1. pc'[c] # "reply"
          /\ \A d \in Clients : d # c => pc'[d] = pc[d] /\ mid'[d] = mid[d] /\ op'[d] = op[d]
      BY <1>2, <2>1
    <3> QED BY <3>1
  <2>2. CASE ~\E r : Return(c, r)
    BY <1>13, <1>14, <2>2
  <2> QED BY <2>1, <2>2
<1>15. ASSUME NEW c \in Clients, NEW o \in OpsOf[c], Begin(c, o) \/ Upgrade(c, o)
       PROVE  UNCHANGED <<pc, mid, op>> \/ Moves(c)
  BY <1>11, <1>15
<1>16. ASSUME NEW c \in Clients, Check(c) \/ GetReply(c) \/ AwaitStopped(c) PROVE Moves(c)
  BY <1>12, <1>16
<1>17. ASSUME UNCHANGED <<pc, mid, op>> PROVE \A c \in Clients : Moves(c)
  BY <1>17
<1> HIDE DEF Moves
<1>18. \E c \in Clients : Moves(c)
  BY <1>1, <1>8, <1>14, <1>15, <1>16, <1>17 DEF Next, ClientStep
<1> QED BY <1>18 DEF Moves

LEMMA SentGrows == Inv /\ [Next]_vars => sent' \in Nat /\ sent' >= sent
<1> SUFFICES ASSUME Inv, [Next]_vars PROVE sent' \in Nat /\ sent' >= sent
  OBVIOUS
<1>0. sent \in Nat
  BY DEF Inv, TypeInv, TypeOK
<1>1. CASE UNCHANGED sent
  BY <1>0, <1>1
<1>2. CASE Outside
  BY <1>0, <1>1, <1>2 DEF Outside, boxVars, Accept
<1>3. CASE LoopStep
  BY <1>1, <1>3 DEF LoopStep, StartedOk, StartedFails, Receive, ReceiveClosed, HandlerDone,
     HandlerPanics, HandlerTimesOut, CancelledReturns, RefreshStopped, RefreshStarted,
     RefreshFails, StoppedReturns, StoppedPanics, TeardownStep, boxVars
<1> QED BY <1>1, <1>2, <1>3, OutsideSteps DEF Next, vars, boxVars, Inv

LEMMA AnswerIsOwnStep == Inv /\ AnswerIsOwn /\ [Next]_vars => AnswerIsOwn'
<1> SUFFICES ASSUME Inv, AnswerIsOwn, [Next]_vars PROVE AnswerIsOwn'
  OBVIOUS
<1>0. /\ sent \in Nat /\ sent' \in Nat /\ sent' >= sent /\ Ids \subseteq Nat
  BY SentGrows DEF Inv, TypeInv, TypeOK, Ids
<1>1. CASE UNCHANGED vars
  BY <1>1 DEF AnswerIsOwn, vars, boxVars, clientVars
<1>2. CASE Next
  <2>1. PICK c \in Clients :
           /\ \A d \in Clients : d # c => pc'[d] = pc[d] /\ mid'[d] = mid[d] /\ op'[d] = op[d]
           /\ pc'[c] = "reply" =>
                /\ op'[c] = op[c]
                /\ \/ pc[c] = "reply" /\ mid'[c] = mid[c]
                   \/ mid'[c] = sent + 1 /\ Accept(op[c].load, op[c].push = "force")
    BY <1>2, WaiterStep
  <2> DEFINE Mine(d) == mid'[d] \in Ids /\ mid'[d] <= sent' /\ load'[mid'[d]] = op'[d].load
  <2>2. ASSUME NEW d \in Clients, pc[d] = "reply", mid'[d] = mid[d], op'[d] = op[d] PROVE Mine(d)
    <3>1. mid[d] \in Ids /\ mid[d] <= sent /\ load[mid[d]] = op[d].load
      BY <2>2 DEF AnswerIsOwn
    <3>2. mid[d] \in Nat /\ ~(mid[d] > sent) /\ mid[d] <= sent'
      <4>1. mid[d] \in Nat
        BY <1>0, <3>1
      <4>2. mid[d] <= sent
        BY <3>1
      <4> QED BY <1>0, <4>1, <4>2
    <3>3. fate[mid[d]] # "unsent"
      BY <3>1, <3>2 DEF Inv, Books, Accounted
    <3>4. load'[mid[d]] = load[mid[d]]
      BY <1>2, <3>1, <3>3, LoadStep
    <3>5. load'[mid'[d]] = op'[d].load
      BY <2>2, <3>1, <3>4
    <3> QED BY <2>2, <3>1, <3>2, <3>5
  <2>3. ASSUME mid'[c] = sent + 1, Accept(op[c].load, op[c].push = "force"), op'[c] = op[c]
        PROVE  Mine(c)
    <3>1. op[c].load \in Loads /\ (op[c].push = "force") \in BOOLEAN
      BY DEF Inv, TypeInv, TypeOK, Operation
    <3>2. sent + 1 \in Ids
      BY <2>3, <3>1, AcceptType DEF Inv
    <3>3. sent' = sent + 1 /\ load'[sent + 1] = op[c].load
      BY <2>3, <3>2 DEF Accept, Inv, TypeInv, TypeOK
    <3> QED BY <1>0, <2>3, <3>2, <3>3
  <2>4. \A d \in Clients : pc'[d] = "reply" => Mine(d)
    BY <2>1, <2>2, <2>3
  <2>5. ASSUME NEW d \in Clients, NEW e \in Clients, pc'[d] = "reply", pc'[e] = "reply",
               mid'[d] = mid'[e], d # e
        PROVE  FALSE
    <3>1. ASSUME NEW f \in Clients, f # c, pc'[f] = "reply", pc'[c] = "reply", mid'[f] = mid'[c]
          PROVE  FALSE
      <4>1. pc[f] = "reply" /\ mid'[f] = mid[f] /\ mid[f] \in Ids /\ mid[f] <= sent
        BY <2>1, <3>1 DEF AnswerIsOwn
      <4>2. mid'[c] # sent + 1
        BY <1>0, <3>1, <4>1
      <4> QED BY <2>1, <3>1, <4>1, <4>2 DEF AnswerIsOwn
    <3>2. d = c \/ e = c
      BY <2>1, <2>5 DEF AnswerIsOwn
    <3> QED BY <2>5, <3>1, <3>2
  <2> HIDE DEF Mine
  <2>6. \A d \in Clients : pc'[d] = "reply" =>
          mid'[d] \in Ids /\ mid'[d] <= sent' /\ load'[mid'[d]] = op'[d].load
    BY <2>4 DEF Mine
  <2> QED BY <2>5, <2>6 DEF AnswerIsOwn
<1> QED BY <1>1, <1>2

\* Answers do not go astray: a caller waits for a payload of its own, of the kind
\* it sent, and shares it with no other caller.
THEOREM AnswerIsOwnCorrect == Spec => []AnswerIsOwn
<1>1. Init => AnswerIsOwn
  BY DEF Init, AnswerIsOwn
<1> QED BY <1>1, Invariance, AnswerIsOwnStep, PTL DEF Spec

\* When an actor that ended in order has announced its end, a caller that has no
\* answer called behind the stop that ended it.
StrandedBehindStop ==
  notified /\ Orderly => \A c \in Clients : pc[c] = "reply" =>
    \/ fate[mid[c]] \in Settled
    \/ \E s \in Ids : s < mid[c] /\ load[s] = "stop" /\ fate[s] = "done"

\* An orderly end leaves a caller without an answer only if its call was accepted
\* behind the stop that ended the actor: CallResolves fails in no other way there.
THEOREM StrandedBehindStopCorrect == Spec => []StrandedBehindStop
<1>1. Inv /\ AnswerIsOwn /\ DrainedBeforeStop => StrandedBehindStop
  <2> SUFFICES ASSUME Inv, AnswerIsOwn, DrainedBeforeStop, notified, Orderly,
                      NEW c \in Clients, pc[c] = "reply"
               PROVE  \/ fate[mid[c]] \in Settled
                      \/ \E s \in Ids : s < mid[c] /\ load[s] = "stop" /\ fate[s] = "done"
    BY DEF StrandedBehindStop
  <2>1. mid[c] \in Ids /\ mid[c] \in Nat /\ mid[c] <= sent /\ sent \in Nat
    BY DEF AnswerIsOwn, Inv, TypeInv, TypeOK, Ids
  <2>2. cur = 0
    BY DEF Inv, Life, CurShape, TeardownShape, Over, Serving
  <2>3. fate[mid[c]] \notin {"unsent", "running"}
    <3>1. ~(mid[c] > sent) /\ mid[c] # 0
      BY <2>1 DEF Ids
    <3> QED BY <2>1, <2>2, <3>1 DEF Inv, Books, Accounted
  <2>4. fate[mid[c]] = "queued" \/ fate[mid[c]] \in Settled
    BY <2>1, <2>3 DEF Inv, TypeInv, TypeOK, Fates
  <2> QED BY <2>1, <2>4 DEF DrainedBeforeStop
<1> QED BY <1>1, Invariance, AnswerIsOwnCorrect, DrainedBeforeStopCorrect, PTL

-----------------------------------------------------------------------------
(* The last handle                                                         *)

\* Also when the loop is gone, a channel that nobody holds strongly is closed.
ClosedUnlessHeld == ~HeldBy(handle) => closed

\* Handles come and go by these steps, and no weak handle is upgraded once the
\* channel is closed.
LEMMA HandlesStep ==
  ASSUME Inv, ClosedUnlessHeld, Next
  PROVE  /\ closed => closed'
         /\ ~HeldBy(handle) => ~HeldBy(handle')
         /\ HeldBy(handle) /\ ~HeldBy(handle') => closed' = ClosedBy(handle')
<1>1. ASSUME closed => closed', handle' = handle
      PROVE  /\ closed => closed'
             /\ ~HeldBy(handle) => ~HeldBy(handle')
             /\ HeldBy(handle) /\ ~HeldBy(handle') => closed' = ClosedBy(handle')
  BY <1>1
<1>2. ASSUME closed' = ClosedBy(handle'), \A c \in Clients : IsStrong(handle'[c]) => IsStrong(handle[c])
      PROVE  /\ closed => closed'
             /\ ~HeldBy(handle) => ~HeldBy(handle')
             /\ HeldBy(handle) /\ ~HeldBy(handle') => closed' = ClosedBy(handle')
  BY <1>2 DEF ClosedBy, HeldBy
<1>3. ASSUME closed' = closed, ~closed \/ HeldBy(handle), HeldBy(handle')
      PROVE  /\ closed => closed'
             /\ ~HeldBy(handle) => ~HeldBy(handle')
             /\ HeldBy(handle) /\ ~HeldBy(handle') => closed' = ClosedBy(handle')
  BY <1>3 DEF ClosedUnlessHeld
<1>4. CASE LoopStep
  <2>1. closed => closed'
    BY <1>4 DEF LoopStep, StartedOk, StartedFails, Receive, ReceiveClosed, HandlerDone,
       HandlerPanics, HandlerTimesOut, CancelledReturns, RefreshStopped, RefreshStarted,
       RefreshFails, StoppedReturns, StoppedPanics, TeardownStep
  <2>2. handle' = handle
    BY <1>4 DEF LoopStep, StartedOk, StartedFails, Receive, ReceiveClosed, HandlerDone, clientVars,
       HandlerPanics, HandlerTimesOut, CancelledReturns, RefreshStopped, RefreshStarted,
       RefreshFails, StoppedReturns, StoppedPanics, TeardownStep
  <2> QED BY <1>1, <2>1, <2>2
<1>5. CASE \E ld \in CtxLoads : CtxPush(ld)
  BY <1>1, <1>5 DEF CtxPush, clientVars
<1>6. ASSUME NEW c \in Clients, NEW o \in OpsOf[c], Begin(c, o) \/ (Upgrade(c, o) /\ closed)
      PROVE  UNCHANGED <<closed, handle>>
  BY <1>6 DEF Begin, Upgrade, Start
<1>7. ASSUME NEW c \in Clients, NEW o \in OpsOf[c], Upgrade(c, o), ~closed
      PROVE  closed' = closed /\ HeldBy(handle')
  BY <1>7 DEF Upgrade, Start, HeldBy, IsStrong, Inv, TypeInv, TypeOK
<1>8. ASSUME NEW c \in Clients, NEW r, Return(c, r)
      PROVE  closed' = ClosedBy(handle') /\ \A d \in Clients : IsStrong(handle'[d]) => IsStrong(handle[d])
  BY <1>8 DEF Return, IsStrong, Inv, TypeInv, TypeOK
<1>9. ASSUME NEW c \in Clients, ClientStep(c)
      PROVE  UNCHANGED <<closed, handle>> \/ \E r : Return(c, r)
  BY <1>9 DEF ClientStep, Check, Push, GetReply, AwaitStopped
<1>10. ASSUME NEW c \in Clients, DropHandle(c) \/ Downgrade(c)
       PROVE  closed' = ClosedBy(handle') /\ \A d \in Clients : IsStrong(handle'[d]) => IsStrong(handle[d])
  BY <1>10 DEF DropHandle, Downgrade, IsStrong, Inv, TypeInv, TypeOK
<1>11. ASSUME NEW c \in Clients, KeepUpgrade(c) PROVE closed' = closed /\ ~closed /\ HeldBy(handle')
  BY <1>11 DEF KeepUpgrade, HeldBy, IsStrong, Inv, TypeInv, TypeOK
<1>12. ASSUME NEW c \in Clients, NEW d \in Clients, NEW h \in {"strong", "weak"}, Share(c, d, h)
       PROVE  closed' = closed /\ (HeldBy(handle') <=> HeldBy(handle))
  <2>1. \A e \in Clients : handle'[e] = IF e = d THEN h ELSE handle[e]
    BY <1>12 DEF Share, Inv, TypeInv, TypeOK
  <2>2. handle[d] = "none" /\ (h = "strong" => handle[c] = "strong") /\ closed' = closed
    BY <1>12 DEF Share
  <2> QED BY <2>1, <2>2 DEF HeldBy, IsStrong
<1>13. CASE \E c \in Clients : HandleStep(c)
  BY <1>2, <1>3, <1>10, <1>11, <1>12, <1>13 DEF HandleStep
<1>14. CASE \E c \in Clients : ClientStep(c)
  BY <1>1, <1>2, <1>8, <1>9, <1>14
<1>15. CASE \E c \in Clients : \E o \in OpsOf[c] : Begin(c, o) \/ Upgrade(c, o)
  BY <1>1, <1>3, <1>6, <1>7, <1>15
<1> QED BY <1>4, <1>5, <1>13, <1>14, <1>15 DEF Next

LEMMA ClosedUnlessHeldStep == Inv /\ ClosedUnlessHeld /\ [Next]_vars => ClosedUnlessHeld'
<1> SUFFICES ASSUME Inv, ClosedUnlessHeld, [Next]_vars PROVE ClosedUnlessHeld'
  OBVIOUS
<1>1. CASE UNCHANGED vars
  BY <1>1 DEF ClosedUnlessHeld, HeldBy, vars, clientVars
<1>2. ASSUME Next, ~HeldBy(handle') PROVE closed'
  BY <1>2, HandlesStep DEF ClosedUnlessHeld, ClosedBy, HeldBy
<1> QED BY <1>1, <1>2 DEF ClosedUnlessHeld, HeldBy

\* An actor whose last strong handle is gone is never held again: no weak handle
\* that is upgraded concurrently with the last drop brings it back.
THEOREM LastDropIsFinal == Spec => [][~HeldBy(handle) => ~HeldBy(handle')]_vars
<1>1. Init => ClosedUnlessHeld
  BY ActorAssumption DEF Init, ClosedUnlessHeld, HeldBy, IsStrong
<1>2. Inv /\ ClosedUnlessHeld /\ [Next]_vars => [~HeldBy(handle) => ~HeldBy(handle')]_vars
  BY HandlesStep
<1> QED BY <1>1, <1>2, Invariance, ClosedUnlessHeldStep, PTL DEF Spec

-----------------------------------------------------------------------------
(* An end in order                                                         *)

\* Nothing can fail, and no timeout ends the loop.
NoFailures == ~UserFails /\ ~(HasTimeout /\ FailOnTimeout)

\* The loop only leaves through stopped().
OrderlyShape == phase # "cancelling" /\ (Over => hooks = "down")

LEMMA OrderlyStep ==
  ASSUME NoFailures, OrderlyShape, [Next]_vars
  PROVE  OrderlyShape'
<1>1. CASE UNCHANGED <<phase, hooks>>
  BY <1>1 DEF OrderlyShape, Over
<1>2. CASE LoopStep
  <2>1. ~StartedFails /\ ~HandlerPanics /\ ~RefreshFails /\ ~StoppedPanics /\ ~CancelledReturns
    BY DEF NoFailures, OrderlyShape, StartedFails, HandlerPanics, RefreshFails, StoppedPanics,
       CancelledReturns
  <2>2. CASE StartedOk \/ Receive \/ ReceiveClosed \/ HandlerDone \/ RefreshStopped \/ RefreshStarted
    BY <2>2 DEF StartedOk, Receive, Dispatch, Begun, Stopping, ReceiveClosed, HandlerDone,
       RefreshStopped, RefreshStarted, OrderlyShape, Over
  <2>3. CASE HandlerTimesOut
    BY <2>3 DEF HandlerTimesOut, NoFailures, OrderlyShape, Over
  <2>4. CASE StoppedReturns
    BY <2>4 DEF StoppedReturns, Leave, OrderlyShape, Over
  <2>5. CASE TeardownStep
    BY <2>5 DEF TeardownStep, OrderlyShape, Over
  <2> QED BY <1>2, <2>1, <2>2, <2>3, <2>4, <2>5 DEF LoopStep
<1>3. ASSUME Next, ~LoopStep PROVE UNCHANGED <<phase, hooks>>
  BY <1>3 DEF Next, Begin, Upgrade, Start, ClientStep, Check, Push, GetReply, AwaitStopped,
     HandleStep, DropHandle, KeepUpgrade, Downgrade, Share, CtxPush, loopVars
<1> QED BY <1>1, <1>2, <1>3 DEF vars, loopVars

\* What the documentation says of the end holds when nothing fails: addresses are
\* only notified after stopped() has completed.  (With fail_on_timeout, or when
\* user code fails, the loop ends without it.)
THEOREM NotifiedAfterStoppedUnlessFailed == NoFailures /\ Spec => []NotifiedAfterStopped
<1>1. Init => OrderlyShape
  BY DEF Init, OrderlyShape, Over
<1>2. Inv /\ OrderlyShape => NotifiedAfterStopped
  BY DEF Inv, Life, TeardownShape, OrderlyShape, NotifiedAfterStopped
<1>3. ASSUME NoFailures PROVE OrderlyShape /\ [Next]_vars => OrderlyShape'
  BY <1>3, OrderlyStep
<1>4. ASSUME NoFailures PROVE Spec => []NotifiedAfterStopped
  BY <1>1, <1>2, <1>3, <1>4, Invariance, PTL DEF Spec
<1> QED BY <1>4

-----------------------------------------------------------------------------
(* The actor implements Lifecycle                                          *)

\* The locals of a loop are only dropped innermost first when it failed, and once
\* the receiver is gone the channel is closed.
UnwindShape ==
  /\ phase = "teardown" /\ todo = UnwindOrder => ~Orderly
  /\ (phase = "teardown" /\ todo \in {<<"flag", "notify">>, <<"notify">>}) \/ phase = "done" => closed

\* What is left of teardown tells how far it is.
LEMMA OrdersDiffer ==
  /\ FinishOrder \notin {<<"notify", "close">>, <<"close">>, <<"flag", "notify">>, <<"notify">>}
  /\ UnwindOrder \notin {<<"notify", "close">>, <<"close">>, <<"flag", "notify">>, <<"notify">>}
  /\ FinishOrder # UnwindOrder
  /\ <<"flag", "notify">> \notin {<<"notify", "close">>, <<"close">>, <<"notify">>}
  /\ <<"notify">> \notin {<<"notify", "close">>, <<"close">>}
<1>1. /\ Len(<<"notify", "close">>) # 3 /\ Len(<<"flag", "notify">>) # 3
      /\ Len(<<"notify">>) # 3 /\ Len(<<"close">>) # 3
  BY TodoFacts
<1>2. ASSUME NEW t \in {<<"notify", "close">>, <<"close">>, <<"flag", "notify">>, <<"notify">>}
      PROVE  t # FinishOrder /\ t # UnwindOrder
  BY <1>1, TodoFacts
<1>3. FinishOrder # UnwindOrder
  BY TodoFacts
<1>4. <<"flag", "notify">> # <<"notify", "close">> /\ <<"notify">> # <<"close">>
  BY TodoFacts
<1>5. /\ <<"flag", "notify">> # <<"close">> /\ <<"flag", "notify">> # <<"notify">>
      /\ <<"notify">> # <<"notify", "close">>
  BY TodoFacts
<1> QED BY <1>2, <1>3, <1>4, <1>5

\* The stage at each phase, and at each point of teardown.
LEMMA StageFacts ==
  /\ \A t : /\ Stage("starting", t) = "starting"
            /\ \A p \in {"waiting", "handling", "resetting", "restarting", "cancelling"} :
                 Stage(p, t) = "up"
            /\ Stage("stopping", t) = "stopping"
            /\ Stage("done", t) = "over"
  /\ \A t \in {FinishOrder, UnwindOrder} : Stage("teardown", t) = "stopping"
  /\ \A t \in {<<"notify", "close">>, <<"close">>} : Stage("teardown", t) = "flagdown"
  /\ Stage("teardown", <<"flag", "notify">>) = "unwound"
  /\ Stage("teardown", <<"notify">>) = "over"
<1>3. ASSUME NEW t
      PROVE  /\ Stage("starting", t) = "starting"
             /\ \A p \in {"waiting", "handling", "resetting", "restarting", "cancelling"} :
                  Stage(p, t) = "up"
             /\ Stage("stopping", t) = "stopping"
             /\ Stage("done", t) = "over"
  BY DEF Stage
<1>4. ASSUME NEW t \in {FinishOrder, UnwindOrder} PROVE Stage("teardown", t) = "stopping"
  <2>1. "teardown" # "starting"
        /\ "teardown" \notin {"waiting", "handling", "resetting", "restarting", "cancelling"}
    OBVIOUS
  <2>2. t \notin {<<"notify", "close">>, <<"close">>} /\ t # <<"flag", "notify">>
    BY OrdersDiffer
  <2> QED BY <2>1, <2>2 DEF Stage
<1>5. \A t \in {<<"notify", "close">>, <<"close">>} : Stage("teardown", t) = "flagdown"
  BY OrdersDiffer DEF Stage
<1>6. Stage("teardown", <<"flag", "notify">>) = "unwound"
  BY OrdersDiffer DEF Stage
<1>7. Stage("teardown", <<"notify">>) = "over"
  BY OrdersDiffer DEF Stage
<1> QED BY <1>3, <1>4, <1>5, <1>6, <1>7

\* What has ended out of order stays so, and nothing outside the loop brings it
\* about.
LEMMA OutOfOrderStays ==
  ASSUME Inv, LoadShape, Next, Over
  PROVE  /\ Over' /\ hooks' = hooks
         /\ ~Orderly <=> ~Orderly'
<1>1. CASE LoopStep
  <2>1. TeardownStep
    BY <1>1 DEF LoopStep, StartedOk, StartedFails, Receive, ReceiveClosed, HandlerDone, Over,
       HandlerPanics, HandlerTimesOut, CancelledReturns, RefreshStopped, RefreshStarted,
       RefreshFails, StoppedReturns, StoppedPanics
  <2> QED BY <2>1 DEF TeardownStep, Over, Orderly, boxVars
<1>2. ASSUME Outside PROVE Over' /\ hooks' = hooks /\ (~Orderly <=> ~Orderly')
  <2>1. Over' /\ hooks' = hooks
    BY <1>2 DEF Outside, loopVars, Over
  <2>2. \A i \in Ids : (fate[i] = "aborted" <=> fate'[i] = "aborted")
    <3>1. ASSUME NEW i \in Ids, fate[i] = "aborted" PROVE fate'[i] = "aborted"
      BY <3>1, FateStep DEF Settled
    <3>2. ASSUME NEW i \in Ids, fate'[i] = "aborted" PROVE fate[i] = "aborted"
      BY <1>2, <3>2 DEF Outside, Accept, boxVars
    <3> QED BY <3>1, <3>2
  <2>3. \A i \in Ids : fate[i] = "aborted" => load'[i] = load[i]
    BY LoadStep
  <2> QED BY <2>1, <2>2, <2>3 DEF Orderly
<1> QED BY <1>1, <1>2, OutsideSteps DEF Next, Inv

\* A stop that was accepted, or a failure, is not forgotten.
LEMMA ToldStays == ASSUME Inv, LoadShape, Next, Told PROVE Told'
<1>1. ASSUME NEW i \in Ids, load[i] = "stop" PROVE load'[i] = "stop"
  BY <1>1, LoadStep DEF LoadShape
<1> QED BY <1>1, OutOfOrderStays DEF Told

LEMMA UnwindStep ==
  ASSUME Inv, LoadShape, ClosedUnlessHeld, UnwindShape, Next
  PROVE  UnwindShape'
<1>0. closed => closed'
  BY HandlesStep
<1>1. CASE UNCHANGED <<phase, todo>>
  BY <1>0, <1>1, OutOfOrderStays DEF UnwindShape, Over
<1>2. ASSUME Leave(UnwindOrder), ~Orderly' PROVE UnwindShape'
  BY <1>2, OrdersDiffer DEF Leave, UnwindShape
<1>3. ASSUME Leave(FinishOrder) PROVE UnwindShape'
  BY <1>3, OrdersDiffer DEF Leave, UnwindShape
<1>4. ASSUME phase' \notin {"teardown", "done"} PROVE UnwindShape'
  BY <1>4 DEF UnwindShape
<1>5. ASSUME TeardownStep PROVE UnwindShape'
  <2>1. Over /\ phase = "teardown"
    BY <1>5 DEF TeardownStep, Over
  <2>2. todo \in {FinishOrder, UnwindOrder, <<"flag", "notify">>, <<"notify", "close">>, <<"notify">>, <<"close">>}
    BY <2>1 DEF Inv, Life, TeardownShape
  <2>3. CASE todo = UnwindOrder
    <3>1. Head(todo) = "close" /\ Len(todo) = 3 /\ Tail(todo) = <<"flag", "notify">>
      BY <2>3, TodoFacts
    <3>2. todo' = <<"flag", "notify">> /\ closed' /\ phase' = "teardown"
      <4>1. closed' = (closed \/ Head(todo) = "close") /\ (closed \/ Head(todo) = "close")
        BY <1>5, <3>1 DEF TeardownStep
      <4>2. todo' = <<"flag", "notify">> /\ phase' = "teardown"
        BY <1>5, <3>1 DEF TeardownStep
      <4> QED BY <4>1, <4>2
    <3> QED BY <3>2, OrdersDiffer DEF UnwindShape
  <2>4. CASE todo = FinishOrder
    <3>1. todo' = <<"notify", "close">> /\ phase' = "teardown"
      BY <1>5, <2>4, TodoFacts DEF TeardownStep
    <3> QED BY <3>1, OrdersDiffer DEF UnwindShape
  <2>5. CASE todo = <<"notify", "close">>
    <3>1. todo' = <<"close">> /\ phase' = "teardown"
      BY <1>5, <2>5, TodoFacts DEF TeardownStep
    <3> QED BY <3>1, OrdersDiffer DEF UnwindShape
  <2>6. CASE todo = <<"flag", "notify">>
    <3>1. todo' = <<"notify">> /\ phase' = "teardown" /\ closed'
      BY <1>0, <1>5, <2>1, <2>6, TodoFacts DEF TeardownStep, UnwindShape
    <3> QED BY <3>1, OrdersDiffer DEF UnwindShape
  <2>7. CASE todo \in {<<"notify">>, <<"close">>}
    <3>1. phase' = "done" /\ closed'
      BY <1>0, <1>5, <2>1, <2>7, TodoFacts DEF TeardownStep, UnwindShape
    <3> QED BY <3>1 DEF UnwindShape
  <2> QED BY <2>2, <2>3, <2>4, <2>5, <2>6, <2>7
<1>6. ASSUME HandlerPanics \/ CancelledReturns \/ StoppedPanics PROVE Leave(UnwindOrder) /\ ~Orderly'
  BY <1>6 DEF HandlerPanics, CancelledReturns, StoppedPanics, Orderly, Inv, Life, HooksBracket
<1>7. ASSUME RefreshFails PROVE Leave(UnwindOrder) /\ ~Orderly'
  <2>1. cur \in Ids /\ load[cur] = "restart" /\ load' = load
    BY <1>7 DEF RefreshFails, Inv, Life, CurShape, Serving, TypeInv, TypeOK, Ids
  <2>2. fate'[cur] = "aborted"
    BY <1>7, <2>1 DEF RefreshFails, SettleCur, Inv, TypeInv, TypeOK
  <2> QED BY <1>7, <2>1, <2>2 DEF RefreshFails, Orderly
<1>8. CASE LoopStep
  <2>1. CASE StartedOk \/ Receive \/ ReceiveClosed \/ HandlerDone \/ HandlerTimesOut
             \/ RefreshStopped \/ RefreshStarted
    BY <1>4, <2>1 DEF StartedOk, Receive, Dispatch, Begun, Stopping, ReceiveClosed, HandlerDone,
       HandlerTimesOut, RefreshStopped, RefreshStarted
  <2>2. CASE StartedFails \/ StoppedReturns
    BY <1>3, <2>2 DEF StartedFails, StoppedReturns
  <2> QED BY <1>2, <1>5, <1>6, <1>7, <1>8, <2>1, <2>2 DEF LoopStep
<1> QED BY <1>1, <1>8, OutsideSteps DEF Next, Outside, loopVars, Inv

\* A payload is only accepted through an open channel.
LEMMA AcceptsOpen == ASSUME Next, ~LoopStep, load' # load PROVE ~closed
<1>1. ASSUME NEW c \in Clients, ~Push(c) PROVE ~ClientStep(c) \/ load' = load
  BY <1>1 DEF ClientStep, Check, GetReply, AwaitStopped, boxVars
<1>2. ASSUME NEW c \in Clients, Push(c), load' # load PROVE ~closed
  BY <1>2 DEF Push, boxVars
<1>3. ASSUME NEW c \in Clients, HandleStep(c) PROVE load' = load
  BY <1>3 DEF HandleStep, DropHandle, KeepUpgrade, Downgrade, Share, boxVars
<1>4. ASSUME NEW c \in Clients, NEW o \in OpsOf[c], Begin(c, o) \/ Upgrade(c, o) PROVE load' = load
  BY <1>4 DEF Begin, Upgrade, Start, boxVars
<1>5. ASSUME NEW ld \in CtxLoads, CtxPush(ld) PROVE ~closed
  BY <1>5 DEF CtxPush
<1> QED BY <1>1, <1>2, <1>3, <1>4, <1>5 DEF Next

\* While the channel is open the receiver is there.
LEMMA OpenStage ==
  ASSUME Inv, UnwindShape, ~closed
  PROVE  Stage(phase, todo) \in {"starting", "up", "stopping", "flagdown"}
<1>1. phase \in Phases
  BY DEF Inv, TypeInv, TypeOK
<1>2. phase # "done"
  BY DEF UnwindShape
<1>3. CASE phase = "teardown"
  <2>1. todo \in {FinishOrder, UnwindOrder, <<"flag", "notify">>, <<"notify", "close">>, <<"notify">>, <<"close">>}
    BY <1>3 DEF Inv, Life, TeardownShape
  <2>2. todo \notin {<<"flag", "notify">>, <<"notify">>}
    BY <1>3 DEF UnwindShape
  <2> QED BY <1>3, <2>1, <2>2, StageFacts
<1> QED BY <1>1, <1>2, <1>3, StageFacts DEF Phases, Hooks

LEMMA ToldType == Told \in BOOLEAN /\ HeldBy(handle) \in BOOLEAN
  BY DEF Told, HeldBy

\* What clients and the Context do to an actor is to tell it to stop or to let go.
LEMMA OutsideLives ==
  ASSUME Inv, LoadShape, UnwindShape, ClosedUnlessHeld, Next, ~LoopStep
  PROVE  L!LifeNext \/ UNCHANGED L!lifeVars
<1>1. /\ phase' = phase /\ todo' = todo
      /\ Stage(phase, todo)' = Stage(phase, todo)
  BY OutsideSteps DEF Next, Outside, loopVars, Inv
<1>2. HeldBy(handle)' => HeldBy(handle)
  BY HandlesStep
<1>3. Told => Told'
  BY ToldStays
<1>4. ASSUME Told', ~Told PROVE ~closed
  <2>1. Over' = Over /\ (Over => (~Orderly <=> ~Orderly'))
    BY <1>1, OutOfOrderStays DEF Over
  <2> QED BY <1>4, <2>1, AcceptsOpen DEF Told
<1>5. CASE Told' /\ ~Told
  BY <1>1, <1>2, <1>4, <1>5, OpenStage DEF L!LifeNext, L!Tell
<1>6. CASE (Told' <=> Told) /\ (HeldBy(handle)' <=> HeldBy(handle))
  <2>1. Told' = Told /\ HeldBy(handle)' = HeldBy(handle)
    BY <1>6, ToldType DEF Told, HeldBy
  <2> QED BY <1>1, <2>1 DEF L!lifeVars
<1>7. CASE (Told' <=> Told) /\ HeldBy(handle) /\ ~HeldBy(handle)'
  <2>1. Told' = Told
    BY <1>7 DEF Told
  <2> QED BY <1>1, <1>7, <2>1 DEF L!LifeNext, L!LetGo
<1> QED BY <1>2, <1>3, <1>5, <1>6, <1>7

\* Every step of the loop is a step of an actor's life or none.
LEMMA LoopLives ==
  ASSUME Inv, LoadShape, StartShape, UnwindShape, ClosedUnlessHeld, LoopStep
  PROVE  L!LifeNext \/ UNCHANGED L!lifeVars
<1> DEFINE Before == Stage(phase, todo)
           After  == Stage(phase, todo)'
<1>0. After = Stage(phase', todo')
  OBVIOUS
<1>1. HeldBy(handle)' = HeldBy(handle) /\ load' = load
  BY DEF LoopStep, StartedOk, StartedFails, Receive, ReceiveClosed, HandlerDone, HandlerPanics,
     HandlerTimesOut, CancelledReturns, RefreshStopped, RefreshStarted, RefreshFails, HeldBy,
     StoppedReturns, StoppedPanics, TeardownStep, clientVars, boxVars
<1>2. Told => Told'
  BY ToldStays DEF Next
<1>3. ASSUME ~Over' PROVE Told' = Told
  <2>1. ~Over
    BY <1>3, OutOfOrderStays DEF Next
  <2> QED BY <1>1, <1>3, <2>1 DEF Told
<1>4. ASSUME Over' , ~Orderly' PROVE Told' = TRUE
  BY <1>4 DEF Told
<1>5. ASSUME Told' = Told, Before = After PROVE UNCHANGED L!lifeVars
  BY <1>1, <1>5 DEF L!lifeVars
<1>6. CASE StartedOk
  <2>1. Before = "starting" /\ After = "up" /\ ~Over'
    BY <1>6, StageFacts DEF StartedOk, Over
  <2> QED BY <1>1, <1>3, <2>1 DEF L!LifeNext, L!Start
<1>7. CASE StartedFails
  <2>1. Before = "starting" /\ After = "stopping" /\ Over' /\ ~Orderly'
    BY <1>7, StageFacts DEF StartedFails, Leave, Over, Orderly, StartShape
  <2> QED BY <1>1, <1>4, <2>1 DEF L!LifeNext, L!Fail
<1>8. CASE Receive
  <2>1. Before = "up" /\ ~Over'
    BY <1>8, StageFacts DEF Receive, Dispatch, Begun, Stopping, Over
  <2>2. CASE After = "up"
    BY <1>3, <1>5, <2>1, <2>2
  <2>3. CASE After # "up"
    <3>1. load[Head(queue)] = "stop" /\ phase' = "stopping"
      BY <1>8, <2>3, StageFacts DEF Receive, Dispatch, Begun, Stopping
    <3>2. Head(queue) \in Ids
      BY <1>8, HeadTailProperties DEF Receive, Inv, TypeInv, TypeOK
    <3>3. Told /\ After = "stopping"
      BY <3>1, <3>2, StageFacts DEF Told
    <3> QED BY <1>1, <1>3, <2>1, <3>3 DEF L!LifeNext, L!Stop
  <2> QED BY <2>2, <2>3
<1>9. CASE ReceiveClosed
  <2>1. Before = "up" /\ After = "stopping" /\ ~Over' /\ ~Over
    BY <1>9, StageFacts DEF ReceiveClosed, Over
  <2>2. ~HeldBy(handle)
    BY <1>9, <2>1 DEF ReceiveClosed, Inv, OpenWhileHeld
  <2> QED BY <1>1, <1>3, <2>1, <2>2 DEF L!LifeNext, L!Stop
<1>10. CASE HandlerDone \/ HandlerTimesOut \/ RefreshStopped \/ RefreshStarted
  <2>1. Before = "up" /\ After = "up" /\ ~Over'
    BY <1>10, StageFacts DEF HandlerDone, HandlerTimesOut, RefreshStopped, RefreshStarted, Over
  <2> QED BY <1>3, <1>5, <2>1
<1>11. CASE HandlerPanics \/ CancelledReturns \/ RefreshFails \/ StoppedPanics
  <2>1. Before \in {"up", "stopping"}
    BY <1>11, StageFacts DEF HandlerPanics, CancelledReturns, RefreshFails, StoppedPanics
  <2>2. phase' = "teardown" /\ todo' = UnwindOrder
    BY <1>11 DEF HandlerPanics, CancelledReturns, RefreshFails, StoppedPanics, Leave
  <2>3. After = "stopping"
    BY <2>2, StageFacts
  <2>4. Over' /\ ~Orderly'
    BY <2>2, UnwindStep DEF Next, UnwindShape, Over
  <2> QED BY <1>1, <1>4, <2>1, <2>3, <2>4 DEF L!LifeNext, L!Fail
<1>12. CASE StoppedReturns
  <2>1. Before = "stopping" /\ After = "stopping"
    BY <1>12, StageFacts DEF StoppedReturns, Leave
  <2>2. Told' \in BOOLEAN /\ Told \in BOOLEAN
    BY DEF Told
  <2>3. Told' = Told \/ Told' = TRUE
    BY <1>2, <2>2
  <2> QED BY <1>1, <1>5, <2>1, <2>3 DEF L!LifeNext, L!Fail
<1>13. CASE TeardownStep
  <2>1. Over /\ Over' /\ phase = "teardown"
    BY <1>13 DEF TeardownStep, Over
  <2>2. Told' = Told
    BY <1>1, <2>1, OutOfOrderStays DEF Told, Next
  <2>3. todo \in {FinishOrder, UnwindOrder, <<"flag", "notify">>, <<"notify", "close">>, <<"notify">>, <<"close">>}
    BY <2>1 DEF Inv, Life, TeardownShape
  <2>4. CASE todo = UnwindOrder
    <3>1. Len(todo) = 3 /\ Tail(todo) = <<"flag", "notify">>
      BY <2>4, TodoFacts
    <3>2. todo' = <<"flag", "notify">> /\ phase' = "teardown"
      BY <1>13, <3>1 DEF TeardownStep
    <3>3. Before = "stopping" /\ After = "unwound" /\ Told
      BY <2>1, <2>4, <3>2, StageFacts DEF UnwindShape, Told
    <3> QED BY <1>1, <2>2, <3>3 DEF L!LifeNext, L!Unwinds
  <2>5. CASE todo = FinishOrder
    <3>1. Len(todo) = 3 /\ Tail(todo) = <<"notify", "close">>
      BY <2>5, TodoFacts
    <3>2. todo' = <<"notify", "close">> /\ phase' = "teardown"
      BY <1>13, <3>1 DEF TeardownStep
    <3>3. Before = "stopping" /\ After = "flagdown"
      BY <2>1, <2>5, <3>2, StageFacts
    <3> QED BY <1>1, <2>2, <3>3 DEF L!LifeNext, L!FlagFalls
  <2>6. CASE todo = <<"notify", "close">>
    <3>1. todo' = <<"close">> /\ phase' = "teardown"
      BY <1>13, <2>6, TodoFacts DEF TeardownStep
    <3>2. Before = "flagdown" /\ After = "flagdown"
      BY <2>1, <2>6, <3>1, StageFacts
    <3> QED BY <1>5, <2>2, <3>2
  <2>7. CASE todo = <<"flag", "notify">>
    <3>1. todo' = <<"notify">> /\ phase' = "teardown"
      BY <1>13, <2>7, TodoFacts DEF TeardownStep
    <3>2. Before = "unwound" /\ After = "over"
      BY <2>1, <2>7, <3>1, StageFacts
    <3> QED BY <1>1, <2>2, <3>2 DEF L!LifeNext, L!End
  <2>8. CASE todo \in {<<"notify">>, <<"close">>}
    <3>1. phase' = "done"
      BY <1>13, <2>8, TodoFacts DEF TeardownStep
    <3>2. After = "over" /\ Before \in {"flagdown", "over"}
      BY <2>1, <2>8, <3>1, StageFacts
    <3> QED BY <1>1, <1>5, <2>2, <3>2 DEF L!LifeNext, L!End
  <2> QED BY <2>3, <2>4, <2>5, <2>6, <2>7, <2>8
<1> QED BY <1>6, <1>7, <1>8, <1>9, <1>10, <1>11, <1>12, <1>13 DEF LoopStep

\* An actor that was just spawned, and every step of it, seen as a life.
LEMMA LifecycleStarts == Init => L!LifeInit
<1>1. ASSUME Init PROVE Told = FALSE
  BY <1>1 DEF Init, Told, Over
<1>2. ASSUME Init PROVE HeldBy(handle) = TRUE
  BY <1>2, ActorAssumption DEF Init, HeldBy, IsStrong
<1>3. ASSUME Init PROVE Stage(phase, todo) = "starting"
  BY <1>3, StageFacts DEF Init
<1> QED BY <1>1, <1>2, <1>3 DEF L!LifeInit

LEMMA LifecycleStep ==
  /\ Inv /\ LoadShape /\ ClosedUnlessHeld /\ StartShape /\ UnwindShape
  /\ [Next]_vars
  => [L!LifeNext]_L!lifeVars
<1>1. ASSUME UNCHANGED vars PROVE UNCHANGED L!lifeVars
  <2>1. UNCHANGED <<phase, todo, hooks, load, fate, handle>>
    BY <1>1 DEF vars, loopVars, boxVars, clientVars
  <2>2. Told' = Told
    BY <2>1 DEF Told, Over, Orderly
  <2>3. HeldBy(handle)' = HeldBy(handle) /\ Stage(phase, todo)' = Stage(phase, todo)
    BY <2>1 DEF HeldBy
  <2> QED BY <2>2, <2>3 DEF L!lifeVars
<1> QED BY <1>1, OutsideLives, LoopLives

\* An actor lives as Lifecycle says: it ends only because it was told to, because
\* nobody holds it any more or because it failed, and it is told nothing more once
\* its receiver is gone.
THEOREM ImplementsLifecycleCorrect == Spec => ImplementsLifecycle
<1>1. Init => ClosedUnlessHeld /\ StartShape /\ UnwindShape
  BY ActorAssumption DEF Init, ClosedUnlessHeld, HeldBy, IsStrong, StartShape, UnwindShape
<1>2. Inv /\ LoadShape /\ ClosedUnlessHeld /\ UnwindShape /\ [Next]_vars => UnwindShape'
  <2>1. ASSUME UNCHANGED vars PROVE UNCHANGED <<phase, todo, hooks, load, fate, closed>>
    BY <2>1 DEF vars, loopVars, boxVars
  <2>2. ASSUME UNCHANGED <<phase, todo, hooks, load, fate, closed>>, UnwindShape PROVE UnwindShape'
    BY <2>2 DEF UnwindShape, Orderly
  <2> QED BY <2>1, <2>2, UnwindStep
<1> QED
  BY LifecycleStarts, LifecycleStep, <1>1, <1>2, Invariance, LoadShapeCorrect, ClosedUnlessHeldStep, StartStep, PTL
     DEF Spec, ImplementsLifecycle, L!LifecycleSpec

=============================================================================

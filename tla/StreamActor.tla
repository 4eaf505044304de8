----------------------------- MODULE StreamActor -----------------------------
(***************************************************************************)
(* An actor attached to a stream: EventLoop::create_on_stream              *)
(* (src/event_loop.rs), spawned by StreamActorBuilder and StreamSpawnable. *)
(* The loop selects between its mailbox and its stream.  Clients, mailbox, *)
(* hooks and teardown are those of Actor; a restart is not: it panics.     *)
(*                                                                         *)
(* Elements are named by the order in which the source yields them.  While *)
(* the loop is with its stream, `phase` remains "waiting" and `side` says  *)
(* what runs.                                                              *)
(***************************************************************************)
EXTENDS ActorDelivery

CONSTANT MaxElems    \* BOUND: elements the source yields in a behaviour

ASSUME StreamAssumption == MaxElems \in Nat

VARIABLES
  made,      \* number of elements the source has yielded
  over,      \* the source has ended
  side,      \* the loop selects, or is in handle() or finished() of its stream
  elem,      \* what became of each element
  finishes   \* how often finished() was called

streamVars == <<made, over, side, elem, finishes>>
allVars    == <<vars, streamVars>>

Elems     == 1 .. MaxElems
ElemFates == {"pending", "running", "done", "aborted"}

StreamTypeOK ==
  /\ made \in 0 .. MaxElems
  /\ over \in BOOLEAN
  /\ side \in {"select", "element", "finished"}
  /\ elem \in [Elems -> ElemFates]
  /\ finishes \in 0 .. 1

StreamInit ==
  /\ Init
  /\ made = 0 /\ over = FALSE
  /\ side = "select"
  /\ elem = [e \in Elems |-> "pending"]
  /\ finishes = 0

-----------------------------------------------------------------------------
(* The stream, polled by the loop and fed by whoever made it               *)

SourceYields ==
  /\ ~over /\ made < MaxElems
  /\ made' = made + 1
  /\ UNCHANGED <<vars, over, side, elem, finishes>>

SourceEnds ==
  /\ ~over
  /\ over' = TRUE
  /\ UNCHANGED <<vars, made, side, elem, finishes>>

\* The elements the source has yielded and the loop has not taken.
Ready == {e \in 1 .. made : elem[e] = "pending"}

\* The oldest of them, which stream.next() hands out.
Oldest(e) == e \in Ready /\ \A d \in Ready : e <= d

Selecting == phase = "waiting" /\ side = "select"

Settles(e, f) == elem' = [elem EXCEPT ![e] = f] /\ side' = "select"

-----------------------------------------------------------------------------
(* The event loop                                                          *)

\* Mutants: the element's handler is only started and the loop goes on to select;
\* both branches are polled and the one that loses is thrown away.
Mut_TakePayload_overlap ==
  /\ phase = "waiting"
  /\ Receive \/ ReceiveClosed
  /\ UNCHANGED streamVars
Mut_TakePayload_discard ==
  /\ Selecting
  /\ Receive \/ ReceiveClosed
  /\ elem' = [e \in Elems |-> IF Oldest(e) THEN "aborted" ELSE elem[e]]
  /\ UNCHANGED <<made, over, side, finishes>>

\* select! picks rx.next(): a payload or None.  The stream is left as it is.
TakePayload ==
  /\ Selecting
  /\ Receive \/ ReceiveClosed
  /\ UNCHANGED streamVars

\* Mutant: the loop is only woken by its mailbox.
Mut_TakeElement(e) ==
  /\ Selecting /\ Oldest(e) /\ queue # <<>>
  /\ elem' = [elem EXCEPT ![e] = "running"] /\ side' = "element"
  /\ UNCHANGED <<vars, made, over, finishes>>

\* select! picks stream.next(), and StreamHandler::handle begins.
TakeElement(e) ==
  /\ Selecting /\ Oldest(e)
  /\ elem' = [elem EXCEPT ![e] = "running"] /\ side' = "element"
  /\ UNCHANGED <<vars, made, over, finishes>>

InElement(e) == phase = "waiting" /\ side = "element" /\ elem[e] = "running"

ElementDone(e) ==
  /\ InElement(e)
  /\ Settles(e, "done")
  /\ UNCHANGED <<vars, made, over, finishes>>

ElementPanics(e) ==
  /\ InElement(e) /\ UserFails
  /\ Settles(e, "aborted") /\ Leave(UnwindOrder)
  /\ UNCHANGED <<hooks, cur, flag, notified, boxVars, closed, clientVars, made, over, finishes>>

\* timeout_fut returned Err: the element's handler is dropped where it is.
ElementTimesOut(e) ==
  /\ InElement(e) /\ HasTimeout
  /\ Settles(e, "aborted")
  /\ phase' = IF FailOnTimeout THEN "cancelling" ELSE "waiting"
  /\ UNCHANGED <<todo, hooks, cur, flag, notified, boxVars, closed, clientVars, made, over, finishes>>

\* Mutants: it counts as ended while elements are left; its end ends the loop.
Mut_StreamEnds_early ==
  /\ Selecting /\ over /\ finishes = 0
  /\ side' = "finished" /\ finishes' = finishes + 1
  /\ UNCHANGED <<vars, made, over, elem>>
Mut_StreamEnds_stops ==
  /\ Selecting /\ over /\ Ready = {} /\ finishes = 0
  /\ phase' = "stopping" /\ finishes' = 1
  /\ UNCHANGED <<todo, hooks, cur, flag, notified, boxVars, closed, clientVars, made, over, side, elem>>

\* stream.next() yields None and finished() is called.  The stream is fused:
\* from then on select! skips it.
StreamEnds ==
  /\ Selecting /\ over /\ Ready = {} /\ finishes = 0
  /\ side' = "finished" /\ finishes' = finishes + 1
  /\ UNCHANGED <<vars, made, over, elem>>

\* `continue`.  finished() is not subject to the timeout.
FinishedReturns ==
  /\ side = "finished"
  /\ side' = "select"
  /\ UNCHANGED <<vars, made, over, elem, finishes>>

FinishedPanics ==
  /\ side = "finished" /\ UserFails
  /\ side' = "select" /\ Leave(UnwindOrder)
  /\ UNCHANGED <<hooks, cur, flag, notified, boxVars, closed, clientVars, made, over, elem, finishes>>

\* Mutant: the restart is taken and forgotten.
Mut_RestartPanics ==
  /\ phase = "resetting"
  /\ phase' = "waiting" /\ cur' = 0
  /\ UNCHANGED <<hooks, todo, flag, notified, boxVars, closed, clientVars, streamVars>>

\* panic!("restart message in stream-handling actor")
RestartPanics ==
  /\ phase = "resetting"
  /\ SettleCur("aborted") /\ Leave(UnwindOrder)
  /\ UNCHANGED <<hooks, flag, notified, queue, sent, load, closed, clientVars, streamVars>>

\* Context::stop and Context::restart from the stream's handlers and from the
\* other hooks.
StreamCtxPush(ld) ==
  /\ side # "select" \/ phase \in Hooks \ {"resetting"}
  /\ phase = "handling" => load[cur] = "task"
  /\ Room /\ ~closed
  /\ Accept(ld, TRUE)
  /\ UNCHANGED <<loopVars, closed, clientVars, streamVars>>

\* What the two loops have in common.
SharedStep ==
  \/ StartedOk \/ StartedFails
  \/ HandlerDone \/ HandlerPanics \/ HandlerTimesOut \/ CancelledReturns
  \/ StoppedReturns \/ StoppedPanics \/ TeardownStep

StreamLoopStep ==
  \/ SharedStep /\ UNCHANGED streamVars
  \/ TakePayload \/ RestartPanics
  \/ \E e \in Elems : TakeElement(e) \/ ElementDone(e) \/ ElementPanics(e) \/ ElementTimesOut(e)
  \/ StreamEnds \/ FinishedReturns \/ FinishedPanics

StreamNext ==
  \/ StreamLoopStep
  \/ SourceYields \/ SourceEnds
  \/ \E ld \in CtxLoads : StreamCtxPush(ld)
  \/ \E c \in Clients :
       /\ \/ \E o \in OpsOf[c] : Begin(c, o) \/ Upgrade(c, o)
          \/ ClientStep(c)
          \/ HandleStep(c)
       /\ UNCHANGED streamVars

\* As in Actor: the runtime polls a loop that is ready, and user code returns.
\* The source may yield nothing for ever and never end.
StreamFairness ==
  /\ WF_allVars(StreamLoopStep)
  /\ \A c \in Clients : WF_allVars(ClientStep(c) /\ UNCHANGED streamVars)

StreamSpec == StreamInit /\ [][StreamNext]_allVars /\ StreamFairness

-----------------------------------------------------------------------------
(* What the stream adds to the promises of Actor                           *)

\* select! drops the future that loses on every turn, but never an element with
\* it: elements are handled one at a time, in the order of the source, none is
\* skipped while a later one is taken, and no handler of the stream overlaps
\* with one of the mailbox or with any other hook.
ElementsInOrder ==
  /\ \A e \in Elems : elem[e] # "pending" => e <= made
  /\ \A d, e \in Elems : d < e /\ elem[e] # "pending" => elem[d] \in {"done", "aborted"}
  /\ \A e \in Elems : elem[e] = "running" => side = "element"
  /\ side # "select" => phase = "waiting" /\ cur = 0

\* No element vanishes unhandled and none is handled twice: whichever branch of
\* the select! wins, an element leaves the stream only into its handler, which
\* returns or is cut short by a panic or a timeout.
SelectLosesNothing ==
  [][\A e \in Elems : elem'[e] # elem[e] =>
       <<elem[e], elem'[e]>> \in {<<"pending", "running">>, <<"running", "done">>, <<"running", "aborted">>}
     ]_allVars

\* finished() is called at most once, when the source has ended and every
\* element it yielded has been handled.
FinishedOnceAtEnd ==
  /\ finishes <= 1
  /\ finishes = 1 => over /\ \A e \in 1 .. made : elem[e] \in {"done", "aborted"}

\* The end of the stream does not end the actor: it goes on to serve its mailbox
\* until a stop is taken or the mailbox is closed and empty.
OutlivesStream ==
  [][phase = "waiting" /\ phase' = "stopping" =>
       \/ closed /\ queue = <<>>
       \/ queue # <<>> /\ load[Head(queue)] = "stop"]_allVars

\* Every element the source yields is handled, and its end is reported, unless
\* the actor stops first.
StreamServed ==
  /\ \A e \in Elems : (e <= made) ~> (elem[e] \in {"done", "aborted"} \/ notified)
  /\ over ~> (finishes > 0 \/ notified)
=============================================================================

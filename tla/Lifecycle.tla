------------------------------ MODULE Lifecycle ------------------------------
(***************************************************************************)
(* The life of one actor as those see it who hold handles to it, without   *)
(* its mailbox and its handlers.  It ends for a reason: somebody told it   *)
(* to stop, nobody holds it any more, or it failed.  When it has ended in  *)
(* order the running flag falls before the receiver goes, otherwise after  *)
(* it, and whoever let go of it last has let go for good.                  *)
(***************************************************************************)

VARIABLES
  life,   \* "free", "starting", "up", "stopping", "flagdown", "unwound" or "over"
  told,   \* it was told to stop, or has failed
  held    \* somebody holds a strong handle

lifeVars == <<life, told, held>>

LifeInit ==
  /\ life \in {"free", "starting"}
  /\ told = FALSE
  /\ held = (life = "starting")

Create == life = "free" /\ life' = "starting" /\ held' /\ UNCHANGED told

Start == life = "starting" /\ life' = "up" /\ UNCHANGED <<told, held>>

\* Whoever tells it to stop may let go of it in the same step.
Tell ==
  /\ life \in {"starting", "up", "stopping", "flagdown"}
  /\ told' = TRUE
  /\ held' => held
  /\ UNCHANGED life

LetGo == held /\ ~held' /\ UNCHANGED <<life, told>>

\* It leaves its loop, to serve nothing any more.
Stop == life = "up" /\ (told \/ ~held) /\ life' = "stopping" /\ UNCHANGED <<told, held>>

\* It fails; a failure is not always noticed at once.
Fail ==
  /\ \/ life = "starting" /\ life' \in {"stopping", "flagdown"}
     \/ life \in {"up", "stopping"} /\ life' \in {"stopping", "unwound"}
  /\ told' = TRUE
  /\ UNCHANGED held

FlagFalls == life = "stopping" /\ life' = "flagdown" /\ UNCHANGED <<told, held>>

\* The receiver goes first in a loop that has failed.
Unwinds == life = "stopping" /\ told /\ life' = "unwound" /\ UNCHANGED <<told, held>>

End == life \in {"flagdown", "unwound"} /\ life' = "over" /\ UNCHANGED <<told, held>>

LifeNext ==
  Create \/ Start \/ Tell \/ LetGo \/ Stop \/ Fail \/ FlagFalls \/ Unwinds \/ End

LifecycleSpec == LifeInit /\ [][LifeNext]_lifeVars
=============================================================================

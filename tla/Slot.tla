-------------------------------- MODULE Slot --------------------------------
(***************************************************************************)
(* What the registry promises to the users of one service, without its     *)
(* lock, its map and the steps its operations take: a slot that lists one  *)
(* instance at a time.  Looking the service up, registering, replacing and *)
(* unregistering happen at one point each; what is listed is only given up *)
(* for another instance when it has stopped or somebody asks for it, and a *)
(* listed or held instance only stops when it was told to or has failed.   *)
(***************************************************************************)
EXTENDS Naturals

CONSTANTS
  Users,    \* the tasks that use the service
  MaxInst   \* BOUND: instances spawned in a behaviour

VARIABLES
  listed,    \* the instance the slot names, 0 for none
  spawned,   \* the instances there have been
  running,   \* those of them whose running flag is up
  told,      \* those that were told to stop or failed
  holds      \* the instance each user has an address of, 0 for none

slotVars == <<listed, spawned, running, told, holds>>

Services == 1 .. MaxInst

SlotInit ==
  /\ listed = 0
  /\ spawned = {} /\ running = {} /\ told = {}
  /\ holds = [u \in Users |-> 0]

\* A lookup finds the listed service running.
Find(u) ==
  /\ listed \in running
  /\ holds' = [holds EXCEPT ![u] = listed]
  /\ UNCHANGED <<listed, spawned, running, told>>

\* A lookup that finds none running lists a new one in the same step.
Create(u) ==
  /\ listed \notin running
  /\ \E i \in Services \ spawned :
       /\ spawned' = spawned \cup {i} /\ running' = running \cup {i}
       /\ listed' = i
       /\ holds' = [holds EXCEPT ![u] = i]
  /\ UNCHANGED told

\* An instance is spawned beside the slot.
SpawnPrivate(u) ==
  /\ holds[u] = 0
  /\ \E i \in Services \ spawned :
       /\ spawned' = spawned \cup {i} /\ running' = running \cup {i}
       /\ holds' = [holds EXCEPT ![u] = i]
  /\ UNCHANGED <<listed, told>>

\* A registration is refused while the listed service runs.
Offer(u) ==
  /\ holds[u] # 0
  /\ \/ listed \in running /\ holds' = [holds EXCEPT ![u] = 0] /\ UNCHANGED listed
     \/ listed \notin running /\ listed' = holds[u] /\ UNCHANGED holds
  /\ UNCHANGED <<spawned, running, told>>

\* A replacement hands out what was listed.
Swap(u) ==
  /\ holds[u] # 0
  /\ listed' = holds[u]
  /\ holds' = [holds EXCEPT ![u] = listed]
  /\ UNCHANGED <<spawned, running, told>>

\* So does taking the service out.
TakeOut(u) ==
  /\ listed' = 0
  /\ holds' = [holds EXCEPT ![u] = listed]
  /\ UNCHANGED <<spawned, running, told>>

Release(u) ==
  /\ holds' = [holds EXCEPT ![u] = 0]
  /\ UNCHANGED <<listed, spawned, running, told>>

Tell(u) ==
  /\ holds[u] \in running
  /\ told' = told \cup {holds[u]}
  /\ UNCHANGED <<listed, spawned, running, holds>>

\* An instance fails, and may go on for a while.
Fail(i) ==
  /\ i \in running
  /\ told' = told \cup {i}
  /\ running' \in {running, running \ {i}}
  /\ UNCHANGED <<listed, spawned, holds>>

\* An instance ends: it was told to, or nobody can reach it.
End(i) ==
  /\ i \in running
  /\ i \in told \/ (i # listed /\ \A u \in Users : holds[u] # i)
  /\ running' = running \ {i}
  /\ UNCHANGED <<listed, spawned, told, holds>>

SlotNext ==
  \/ \E u \in Users : \/ Find(u) \/ Create(u) \/ SpawnPrivate(u)
                      \/ Offer(u) \/ Swap(u) \/ TakeOut(u) \/ Release(u) \/ Tell(u)
  \/ \E i \in Services : Fail(i) \/ End(i)

SlotSpec == SlotInit /\ [][SlotNext]_slotVars
=============================================================================

----------------------------- MODULE Scheduler -----------------------------
(***************************************************************************)
(* What the task manager of the kernel promises, without its queues: a     *)
(* set of ready tasks, a priority for each task, and one processor.        *)
(* Whenever the processor is given away it goes to a ready task that no    *)
(* ready task outranks.  A task that is made ready never takes the         *)
(* processor by itself: it waits for the next time it is given away.       *)
(***************************************************************************)
EXTENDS Integers

CONSTANTS Task, Level

VARIABLES live,     \* the tasks that exist
          ready,    \* those that may run
          prio,     \* the priority of each task
          cpu       \* the task that runs

svars == <<live, ready, prio, cpu>>

Best(R) == { p \in R : \A q \in R : prio[q] <= prio[p] }

SInit ==
  /\ live \in SUBSET Task /\ ready \in SUBSET live
  /\ prio \in [Task -> Level]
  /\ cpu \in Best(ready)

\* A task is created; it is not ready yet.
Create ==
  \E p \in Task \ live, l \in Level :
     /\ live' = live \cup {p} /\ prio' = [prio EXCEPT ![p] = l]
     /\ UNCHANGED <<ready, cpu>>

\* A task is made ready, with a new priority or its own.
MakeReady ==
  \E p \in live, l \in Level :
     /\ ready' = ready \cup {p} /\ prio' = [prio EXCEPT ![p] = l]
     /\ UNCHANGED <<live, cpu>>

\* A task that does not run is suspended by the one that does.
Suspend ==
  \E p \in ready \ {cpu} :
     /\ ready' = ready \ {p}
     /\ UNCHANGED <<live, prio, cpu>>

\* The task that runs gives the processor up and stays ready ...
Yield ==
  /\ cpu' \in Best(ready)
  /\ UNCHANGED <<live, ready, prio>>

\* ... or waits ...
Block ==
  /\ ready' = ready \ {cpu}
  /\ cpu' \in Best(ready')
  /\ UNCHANGED <<live, prio>>

\* ... or ends, which may make one task ready that waited for it.
End ==
  /\ live' = live \ {cpu}
  /\ cpu' \in Best(ready \ {cpu})
  /\ \/ ready' = ready \ {cpu}
     \/ \E w \in live' : ready' = (ready \ {cpu}) \cup {w}
  /\ UNCHANGED prio

\* One of the first three and then Yield: what a timer interrupt does when
\* it wakes a task and rotates the queue in the same handler.
WakeAndYield ==
  \E p \in live :
     /\ ready' = ready \cup {p}
     /\ cpu' \in Best(ready')
     /\ UNCHANGED <<live, prio>>

SNext == Create \/ MakeReady \/ Suspend \/ Yield \/ Block \/ End \/ WakeAndYield

SSpec == SInit /\ [][SNext]_svars
=============================================================================

------------------------------- MODULE Kernel -------------------------------
(***************************************************************************)
(* The tasks of the kernel as they use the task manager: the loop of the   *)
(* main task (main.cpp), the loop of a terminal task (TaskTerminal of      *)
(* terminal.cpp), which is also what the system calls of an application do *)
(* with messages, and the interrupt handlers.  What is between a cli and   *)
(* the next sti is one action; interrupts come between any two actions,    *)
(* except where a task goes on inside WaitFinish, with interrupts off.     *)
(*                                                                         *)
(* What a message says is left out: handling one may have any of the       *)
(* effects that some message has.                                          *)
(***************************************************************************)
EXTENDS TaskManager

\* No caller of Wakeup gives a level; only the main task is at the highest one
\* (task.hpp: kMaxLevel is 3 and kDefaultLevel is 1).
ASSUME KernelAssumption == -1 \in WakeLevels /\ kDefaultLevel < kMaxLevel /\ Message # {}

VARIABLES pc,       \* where each task is in its code
          child     \* the task that each task made last

vars == <<tm, pc, child>>

\* "new": made, not started.  "loop": at the top of its loop.  "handle":
\* busy with a message, or running a command.  "start": has made a task and
\* not yet woken it.  "await": about to call WaitFinish.  "wait": in it.
\* "start&await": as "start", and then "await".

KernelInit ==
  /\ Init
  /\ pc = [p \in TaskId |-> IF p <= IdleTask THEN "loop" ELSE "new"]
  /\ child = [p \in TaskId |-> IdleTask]

Runs(p) == tm.cpu = p /\ p # IdleTask
At(p, place) == Runs(p) /\ pc[p] = place
Goto(p, place) == pc' = [pc EXCEPT ![p] = place]

\* Ids that a layer, a timer or a message can name: of tasks started once.
Known == { p \in TaskId : pc[p] # "new" }

\* cli; ReceiveMessage; sti of a message loop.
Take(p) ==
  /\ At(p, "loop") /\ tm.msgs[p] # <<>>
  /\ tm' = ReceiveMessage(tm, p)
  /\ Goto(p, "handle") /\ UNCHANGED child

\* Mutant: the mailbox is tested before the cli.
BlockStale(p) ==
  /\ At(p, "loop")
  /\ tm' = Sleep(tm, p)
  /\ UNCHANGED <<pc, child>>

\* cli; ReceiveMessage; Sleep when there is no message.
Block(p) ==
  /\ At(p, "loop") /\ tm.msgs[p] = <<>>
  /\ tm' = Sleep(tm, p)
  /\ UNCHANGED <<pc, child>>

\* The handling ends, or a nested loop (ReadEvent, Read) asks for the next.
Done(p) == At(p, "handle") /\ Goto(p, "loop") /\ UNCHANGED <<tm, child>>

\* cli; SendMessage; sti: the main task to any task (keys, kLayerFinish, the
\* mouse), a terminal to the main task (kLayer).
Post(p) ==
  /\ At(p, "handle")
  /\ \E id \in Known \ {IdleTask}, m \in Message :
       /\ p # MainTask => id = MainTask
       /\ Room(id)
       /\ tm' = SendMessage(tm, id, m)
  /\ UNCHANGED <<pc, child>>

\* NewTask, with interrupts on, then Wakeup: the F2 key and ksfnerfe
\* ("start"), a pipe, whose writer then waits ("start&await").
New(p) ==
  /\ At(p, "handle") /\ tm.latest_id < MaxTask
  /\ tm' = NewTask(tm)
  /\ child' = [child EXCEPT ![p] = tm'.latest_id]
  /\ \/ Goto(p, "start")
     \/ p # MainTask /\ Goto(p, "start&await")

Start(p) ==
  /\ At(p, "start") \/ At(p, "start&await")
  /\ tm' = Wakeup(tm, child[p], -1)
  /\ pc' = [pc EXCEPT ![p] = IF pc[p] = "start" THEN "handle" ELSE "await",
                      ![child[p]] = "handle"]
  /\ UNCHANGED child

\* Mutant: the task's own id instead of the subtask's.
WaitSelf(p) ==
  /\ At(p, "await") \/ At(p, "wait")
  /\ tm' = WaitFinish(tm, p)
  /\ Goto(p, IF p \in tm.finish_tasks THEN "handle" ELSE "wait")
  /\ UNCHANGED child

\* cli; WaitFinish, and each turn of its loop after a wakeup.
Wait(p) ==
  /\ At(p, "await") \/ At(p, "wait")
  /\ tm' = WaitFinish(tm, child[p])
  /\ Goto(p, IF child[p] \in tm.finish_tasks THEN "handle" ELSE "wait")
  /\ UNCHANGED child

\* cli; Finish: the window is closed or the one command is over.
Exit(p) ==
  /\ At(p, "handle") /\ p # MainTask
  /\ tm' = Finish(tm)
  /\ UNCHANGED <<pc, child>>

\* A task goes on after Sleep inside WaitFinish with interrupts disabled.
InterruptsOn == pc[tm.cpu] # "wait"

TaskTimer ==
  /\ InterruptsOn
  /\ tm' = SwitchTask(tm)
  /\ UNCHANGED <<pc, child>>

\* A timer of any task, and the USB controller's interrupt to the main task.
TimerMessage ==
  /\ InterruptsOn
  /\ \E id \in Known \ {IdleTask}, m \in Message :
       Room(id) /\ tm' = SendMessage(tm, id, m)
  /\ UNCHANGED <<pc, child>>

TaskStep(p) ==
  \/ Take(p) \/ Block(p) \/ Done(p) \/ Post(p) \/ New(p) \/ Start(p)
  \/ Wait(p) \/ Exit(p)

KernelNext == (\E p \in TaskId : TaskStep(p)) \/ TaskTimer \/ TimerMessage

\* The local APIC timer is periodic and re-arms the task timer on each of its
\* time-outs.  A task that gets the processor again and again makes progress
\* in its loop; the main task, which runs no command, also ends each handling.
\* Nothing is assumed of what a terminal does with a message or a command.
Fairness ==
  /\ WF_vars(TaskTimer)
  /\ \A p \in TaskId : SF_vars(Take(p) \/ Block(p) \/ Start(p) \/ Wait(p))
  /\ SF_vars(Done(MainTask))

KernelSpec == KernelInit /\ [][KernelNext]_vars
LiveSpec == KernelSpec /\ Fairness

-----------------------------------------------------------------------------
(* Properties *)

\* No message waits for a task that sleeps: testing the mailbox and going to
\* sleep is one step for everybody who sends (the cli around both).
NoLostWakeup ==
  \A p \in tm.tasks : pc[p] = "loop" /\ ~tm.awake[p] => tm.msgs[p] = <<>>

\* The main task gives the processor up only by going to sleep at the top of
\* its loop: all else that it does, cli or not, no other task interleaves.
MainRunsToSleep ==
  [][tm.cpu = MainTask /\ tm'.cpu # MainTask
       => pc[MainTask] = "loop" /\ ~tm'.awake[MainTask]]_vars

\* The tasks use the task manager as its own specification says.
UsesTaskManager == Spec

\* Whatever the others do, the main task runs soon after a message arrives.
MainServed == tm.msgs[MainTask] # <<>> ~> tm.msgs[MainTask] = <<>> \/ tm.cpu = MainTask

MainSleepsAgain == []<>(~tm.awake[MainTask])

\* As long as the main task keeps going back to sleep, every task that may
\* run does run, even beside tasks that never give the processor up ...
EveryoneRuns ==
  MainSleepsAgain =>
    \A p \in TaskId : (p # IdleTask /\ p \in tm.tasks /\ tm.awake[p])
                           ~> (tm.cpu = p \/ p \notin tm.tasks)

\* ... and who waits for a task that has finished returns from WaitFinish.
WaitReturns ==
  MainSleepsAgain =>
    \A p \in TaskId : (pc[p] = "wait" /\ child[p] \notin tm.tasks) ~> pc[p] # "wait"
=============================================================================

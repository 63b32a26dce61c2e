---------------------------- MODULE TaskManager ----------------------------
(***************************************************************************)
(* class TaskManager of src/kernel/task.cpp: the tasks, the run queue of   *)
(* each level, and the context switches between them.                      *)
(*                                                                         *)
(* All the state is one record, `tm', whose fields are the members of      *)
(* TaskManager and, indexed by task id, of Task; each method of the class  *)
(* is an operator from a state to the next.  A method runs with interrupts *)
(* disabled, so that each of them is one action.  The caller of a method   *)
(* is the task whose context is loaded in the processor, `tm.cpu', or an   *)
(* interrupt handler that runs on top of it.                               *)
(*                                                                         *)
(* A pointer to a Task is its id: ids are never used again and a Task      *)
(* never changes its own.                                                  *)
(***************************************************************************)
EXTENDS Integers, Sequences, Functions

CONSTANTS MaxTask,        \* bound: tasks ever created
          MaxMsgs,        \* bound: messages waiting in one mailbox
          Message,        \* the messages
          WakeLevels,     \* the levels that callers pass to Wakeup; -1 in src/
          kMaxLevel, kDefaultLevel

ASSUME BoundsAssumption == MaxTask \in Nat /\ MaxTask >= 2 /\ MaxMsgs \in Nat
ASSUME LevelAssumption == /\ kMaxLevel \in Nat \ {0}
                          /\ kDefaultLevel \in 0..kMaxLevel
                          /\ WakeLevels \subseteq (0..kMaxLevel) \cup {-1}

VARIABLE tm

TaskId == 1..MaxTask
Level == 0..kMaxLevel

\* The task of the kernel's main loop, and the one that only halts.
MainTask == 1
IdleTask == 2

-----------------------------------------------------------------------------
(* The methods *)

\* TaskManager::CurrentTask: the front of the current level's queue.
CurrentTask(s) == Head(s.running[s.current_level])

\* RestoreContext of asmfunc.asm: the processor goes on with the context
\* that is saved in the current task.
RestoreContext(s) == [s EXCEPT !.cpu = s.context[CurrentTask(s)]]

\* SwitchContext: the same, after saving what runs into task p.
SwitchContext(s, p) ==
  RestoreContext([s EXCEPT !.context = [s.context EXCEPT ![p] = s.cpu]])

\* The highest level with a task to run, if there is one.
HighestLevel(running, otherwise) ==
  IF \E lv \in Level : running[lv] # <<>>
  THEN CHOOSE lv \in Level : /\ running[lv] # <<>>
                             /\ \A h \in Level : h > lv => running[h] = <<>>
  ELSE otherwise

\* Mutant: level_changed_ is cleared but not obeyed.
RotateSameLevel(s, current_sleep) ==
  LET lv == s.current_level
      rest == Tail(s.running[lv])
      queue == IF current_sleep THEN rest ELSE Append(rest, CurrentTask(s))
      running == [s.running EXCEPT ![lv] = queue]
  IN [s EXCEPT !.running = running, !.level_changed = FALSE,
               !.current_level = IF queue = <<>> THEN HighestLevel(running, lv) ELSE lv]

\* TaskManager::RotateCurrentRunQueue: what was the front of the current
\* queue goes to its back, or out of it, and the level is chosen again when
\* that queue is empty or another method asked for it.
Rotate(s, current_sleep) ==
  LET lv == s.current_level
      rest == Tail(s.running[lv])
      queue == IF current_sleep THEN rest ELSE Append(rest, CurrentTask(s))
      running == [s.running EXCEPT ![lv] = queue]
  IN [s EXCEPT !.running = running,
               !.level_changed = FALSE,
               !.current_level = IF s.level_changed \/ queue = <<>>
                                 THEN HighestLevel(running, lv)
                                 ELSE lv]

\* The function Erase of task.cpp.  A task is at most once in a queue (see
\* RunQueues), so that removing every occurrence is removing the only one.
Erase(q, p) ==
  IF \E i \in 1..Len(q) : q[i] = p
  THEN LET k == CHOOSE i \in 1..Len(q) : q[i] = p
       IN SubSeq(q, 1, k - 1) \o SubSeq(q, k + 1, Len(q))
  ELSE q

\* TaskManager::Sleep
Sleep(s, p) ==
  LET asleep == [s EXCEPT !.awake = [s.awake EXCEPT ![p] = FALSE]]
      lv == s.level[p]
  IN CASE ~s.awake[p] -> s
       [] s.awake[p] /\ p = CurrentTask(s) -> SwitchContext(Rotate(asleep, TRUE), p)
       [] OTHER -> [asleep EXCEPT !.running = [s.running EXCEPT ![lv] = Erase(s.running[lv], p)]]

\* Mutant: another task stays in its old queue.
ChangeLevelTwice(s, p, lv) ==
  IF lv < 0 \/ lv = s.level[p] \/ p = CurrentTask(s) THEN s
  ELSE [s EXCEPT !.running = [s.running EXCEPT ![lv] = Append(s.running[lv], p)],
                 !.level = [s.level EXCEPT ![p] = lv],
                 !.level_changed = s.level_changed \/ lv > s.current_level]

\* TaskManager::ChangeLevelRunning
ChangeLevelRunning(s, p, lv) ==
  LET old == s.level[p]
      cur == s.current_level
      level == [s.level EXCEPT ![p] = lv]
  IN CASE lv < 0 \/ lv = old -> s
       [] ~(lv < 0 \/ lv = old) /\ p # CurrentTask(s) ->
            [s EXCEPT !.running = [s.running EXCEPT ![old] = Erase(s.running[old], p),
                                                    ![lv] = Append(s.running[lv], p)],
                      !.level = level,
                      !.level_changed = s.level_changed \/ lv > cur]
       [] OTHER ->
            [s EXCEPT !.running = [s.running EXCEPT ![cur] = Tail(s.running[cur]),
                                                    ![lv] = <<p>> \o s.running[lv]],
                      !.level = level,
                      !.current_level = lv,
                      !.level_changed = s.level_changed \/ lv < cur]

\* Mutants: a level of -1 is taken as it is; level_changed_ is not set.
WakeupNegative(s, p, level) ==
  IF s.awake[p] THEN s
  ELSE [s EXCEPT !.level = [s.level EXCEPT ![p] = level],
                 !.awake = [s.awake EXCEPT ![p] = TRUE]]

WakeupSilent(s, p, level) ==
  LET lv == IF level < 0 THEN s.level[p] ELSE level
  IN IF s.awake[p]
     THEN ChangeLevelRunning(s, p, level)
     ELSE [s EXCEPT !.level = [s.level EXCEPT ![p] = lv],
                    !.awake = [s.awake EXCEPT ![p] = TRUE],
                    !.running = [s.running EXCEPT ![lv] = Append(s.running[lv], p)]]

\* TaskManager::Wakeup.  A level of -1 keeps the task's own.
Wakeup(s, p, level) ==
  LET lv == IF level < 0 THEN s.level[p] ELSE level
  IN IF s.awake[p]
     THEN ChangeLevelRunning(s, p, level)
     ELSE [s EXCEPT !.level = [s.level EXCEPT ![p] = lv],
                    !.awake = [s.awake EXCEPT ![p] = TRUE],
                    !.running = [s.running EXCEPT ![lv] = Append(s.running[lv], p)],
                    !.level_changed = s.level_changed \/ lv > s.current_level]

\* TaskManager::SendMessage; an id that no task has is an error that changes
\* nothing.
SendMessage(s, id, m) ==
  IF id \notin s.tasks THEN s
  ELSE Wakeup([s EXCEPT !.msgs = [s.msgs EXCEPT ![id] = Append(s.msgs[id], m)]], id, -1)

\* Task::ReceiveMessage, when the mailbox is not empty.
ReceiveMessage(s, p) == [s EXCEPT !.msgs = [s.msgs EXCEPT ![p] = Tail(s.msgs[p])]]

\* Mutant: the lowest id that is free is used again.
NewTaskReusing(s) ==
  LET p == CHOOSE i \in TaskId \ s.tasks : \A j \in TaskId \ s.tasks : i <= j
  IN [s EXCEPT !.latest_id = s.latest_id + 1,
               !.tasks = s.tasks \cup {p},
               !.context = [s.context EXCEPT ![p] = p]]

\* TaskManager::NewTask and Task::InitContext: the new task's context is its
\* own, it is at the default level and it does not run yet.
NewTask(s) ==
  LET p == s.latest_id + 1
  IN [s EXCEPT !.latest_id = p,
               !.tasks = s.tasks \cup {p},
               !.context = [s.context EXCEPT ![p] = p]]

\* The tail of Finish and of WaitFinish: the entry of id in a map is erased.
EraseKey(map, id) == [k \in DOMAIN map \ {id} |-> map[k]]

\* Mutant: the waiter is not woken.
FinishSilent(s) ==
  LET p == CurrentTask(s)
  IN RestoreContext([Rotate(s, TRUE) EXCEPT
                       !.tasks = s.tasks \ {p},
                       !.finish_tasks = s.finish_tasks \cup {p},
                       !.finish_waiter = EraseKey(s.finish_waiter, p)])

\* TaskManager::Finish: the task is deleted and the one that waits for it,
\* if any, is woken after the next one to run was chosen.
Finish(s) ==
  LET p == CurrentTask(s)
      gone == [Rotate(s, TRUE) EXCEPT !.tasks = s.tasks \ {p},
                                      !.finish_tasks = s.finish_tasks \cup {p}]
  IN RestoreContext(
       IF p \in DOMAIN s.finish_waiter
       THEN Wakeup([gone EXCEPT !.finish_waiter = EraseKey(s.finish_waiter, p)],
                   s.finish_waiter[p], -1)
       ELSE gone)

\* One turn of the loop of TaskManager::WaitFinish by the task that runs:
\* the exit code is taken, or the task is entered as waiting and sleeps.
WaitFinish(s, id) ==
  LET p == CurrentTask(s)
      waiter == [k \in DOMAIN s.finish_waiter \cup {id} |->
                   IF k = id THEN p ELSE s.finish_waiter[k]]
  IN IF id \in s.finish_tasks
     THEN [s EXCEPT !.finish_tasks = s.finish_tasks \ {id}]
     ELSE Sleep([s EXCEPT !.finish_waiter = waiter], p)

\* Mutants: the context is saved into the task that is current after the
\* rotation; only a change of level takes the processor away; the rotation
\* is asked to drop the task.
SwitchTaskSavesLate(s) ==
  LET next == Rotate(s, FALSE)
      p == CurrentTask(next)
  IN IF p # CurrentTask(s)
     THEN RestoreContext([next EXCEPT !.context = [s.context EXCEPT ![p] = s.cpu]])
     ELSE next

SwitchTaskStays(s) ==
  LET p == CurrentTask(s)
      saved == [s EXCEPT !.context = [s.context EXCEPT ![p] = s.cpu]]
  IN IF s.level_changed THEN RestoreContext(Rotate(saved, FALSE)) ELSE saved

SwitchTaskDrops(s) ==
  LET p == CurrentTask(s)
      saved == [s EXCEPT !.context = [s.context EXCEPT ![p] = s.cpu]]
      next == Rotate(saved, TRUE)
  IN IF CurrentTask(next) # p THEN RestoreContext(next) ELSE next

\* TaskManager::SwitchTask, called by the timer interrupt with the context
\* that it interrupted.
SwitchTask(s) ==
  LET p == CurrentTask(s)
      saved == [s EXCEPT !.context = [s.context EXCEPT ![p] = s.cpu]]
      next == Rotate(saved, FALSE)
  IN IF CurrentTask(next) # p THEN RestoreContext(next) ELSE next

-----------------------------------------------------------------------------
(* The state machine: any use of the public methods *)

\* The constructor makes the main task out of what runs at boot, at the
\* highest level, and the idle task at the lowest.
Init ==
  tm = [tasks |-> {MainTask, IdleTask}, latest_id |-> IdleTask,
        level |-> [p \in TaskId |-> CASE p = MainTask -> kMaxLevel
                                     [] p = IdleTask -> 0
                                     [] OTHER -> kDefaultLevel],
        awake |-> [p \in TaskId |-> p \in {MainTask, IdleTask}],
        msgs |-> [p \in TaskId |-> <<>>],
        context |-> [p \in TaskId |-> p],
        running |-> [lv \in Level |-> CASE lv = kMaxLevel -> <<MainTask>>
                                        [] lv = 0 -> <<IdleTask>>
                                        [] OTHER -> <<>>],
        current_level |-> kMaxLevel, level_changed |-> FALSE,
        finish_tasks |-> {}, finish_waiter |-> [p \in {} |-> p],
        cpu |-> MainTask]

\* The task is in the loop of WaitFinish.
Waiting(p) == \E id \in DOMAIN tm.finish_waiter : tm.finish_waiter[id] = p

\* Kernel code calls a method: any task but the idle one, which halts, that
\* is not in that loop.
Calls == tm.cpu # IdleTask /\ ~Waiting(tm.cpu)

Room(id) == id \in tm.tasks => Len(tm.msgs[id]) < MaxMsgs

Create == Calls /\ tm.latest_id < MaxTask /\ tm' = NewTask(tm)

Wake == Calls /\ \E p \in tm.tasks, lv \in WakeLevels : tm' = Wakeup(tm, p, lv)

\* No caller puts the idle task to sleep: some queue is never empty.
Suspend == Calls /\ \E p \in tm.tasks \ {IdleTask} : tm' = Sleep(tm, p)

Send ==
  /\ Calls
  /\ \E id \in TaskId, m \in Message : Room(id) /\ tm' = SendMessage(tm, id, m)

Receive == Calls /\ tm.msgs[tm.cpu] # <<>> /\ tm' = ReceiveMessage(tm, tm.cpu)

End == Calls /\ tm' = Finish(tm)

\* A task waits for one that it has made and nobody else waits for; woken
\* before that one has finished, it is still in the loop.
Await ==
  \E id \in (tm.tasks \cup tm.finish_tasks) \ {MainTask, IdleTask, tm.cpu} :
     /\ \/ Calls /\ id \notin DOMAIN tm.finish_waiter
        \/ id \in DOMAIN tm.finish_waiter /\ tm.finish_waiter[id] = tm.cpu
     /\ tm' = WaitFinish(tm, id)

\* LAPICTimerOnInterrupt: the tick may send the message of a timer that ran
\* out, to a task that may be gone (0: none ran out), and rotates the queue
\* when the task timer is due.  A tick with several timers is the same as
\* several ticks.
TimerInterrupt ==
  \E id \in TaskId \cup {0}, m \in Message, task_timer_timeout \in BOOLEAN :
     /\ Room(id)
     /\ LET sent == SendMessage(tm, id, m)
        IN tm' = IF task_timer_timeout THEN SwitchTask(sent) ELSE sent

\* IntHandlerXHCI
XHCIInterrupt == \E m \in Message : Room(MainTask) /\ tm' = SendMessage(tm, MainTask, m)

Next ==
  \/ Create \/ Wake \/ Suspend \/ Send \/ Receive \/ End \/ Await
  \/ TimerInterrupt \/ XHCIInterrupt

Spec == Init /\ [][Next]_tm

-----------------------------------------------------------------------------
(* Properties *)

\* The types of the members of TaskManager and Task (task.hpp).
State ==
  [tasks : SUBSET TaskId, latest_id : TaskId,
   level : [TaskId -> Level], awake : [TaskId -> BOOLEAN],
   msgs : [TaskId -> Seq(Message)], context : [TaskId -> TaskId],
   running : [Level -> Seq(TaskId)], current_level : Level,
   level_changed : BOOLEAN,
   finish_tasks : SUBSET TaskId,
   finish_waiter : UNION {[D -> TaskId] : D \in SUBSET TaskId},
   cpu : TaskId]

TypeOK == tm \in State

\* The queues hold the tasks of R, each once, in the queue of its level.
Queues(s, R) ==
  \A lv \in Level : /\ Range(s.running[lv]) = { p \in R : s.level[p] = lv }
                    /\ IsInjective(s.running[lv])

Ready(s) == { p \in s.tasks : s.awake[p] }

\* The flag running_ of a task, its level and the queues agree: a task whose
\* flag is set is queued once, in the queue of its level, and nothing else is
\* queued anywhere, in particular no deleted task; there is a current task.
\* Every method changes two or three of these by hand.
RunQueuesOf(s) == Queues(s, Ready(s)) /\ s.running[s.current_level] # <<>>
RunQueues == RunQueuesOf(tm)

\* No task that may run outranks the current one, unless level_changed_ says
\* that the level is to be chosen anew: the flag is never lost.
TopLevelOf(s) ==
  s.level_changed \/ \A lv \in Level : lv > s.current_level => s.running[lv] = <<>>
TopLevel == TopLevelOf(tm)

\* The context in the processor is the current task's own, and every other
\* task has its own saved: no task ever goes on with another one's registers.
ContextsOf(s) ==
  /\ s.cpu = CurrentTask(s)
  /\ \A p \in s.tasks : p # s.cpu => s.context[p] = p
Contexts == ContextsOf(tm)

\* A task that could go on loses the processor only to one of its own level
\* or higher: the main task, alone at the top, runs until it sleeps, which
\* main.cpp relies on where it uses what it looked up before an sti.
PreemptedByPeer ==
  [][(tm'.cpu # tm.cpu /\ tm.cpu \in tm'.tasks /\ tm'.awake[tm.cpu])
       => tm'.level[tm'.cpu] >= tm'.level[tm.cpu]]_tm

\* A deleted task stays deleted and never runs or is queued again, whatever
\* messages, timers and waiters still name its id.
GoneForGood ==
  [][\A p \in TaskId : p <= tm.latest_id /\ p \notin tm.tasks
        => p \notin tm'.tasks /\ tm'.cpu # p]_tm

\* The queues implement the scheduler of module Scheduler.
Sched == INSTANCE Scheduler WITH
           Task <- TaskId, Level <- Level, live <- tm.tasks,
           ready <- Ready(tm), prio <- tm.level, cpu <- tm.cpu
ImplementsScheduler == Sched!SSpec
=============================================================================

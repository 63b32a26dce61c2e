------------------------------- MODULE Timers -------------------------------
(***************************************************************************)
(* The timers of the kernel: TimerManager of timer.cpp, the interrupt that *)
(* moves its clock, and those who set timers.  The main task blinks the    *)
(* cursors of its text boxes and a terminal that of its window, each by    *)
(* setting the next timer when the message of the last one comes; an       *)
(* application sets timers of its own and takes, while it runs, the        *)
(* messages of the terminal it runs in.                                    *)
(*                                                                         *)
(* AddTimer is called with interrupts disabled, except by TaskTerminal:    *)
(* its push is a step that begins and one that ends.  The timer that never *)
(* runs out, which keeps the queue from being empty, is left out.          *)
(***************************************************************************)
EXTENDS Integers, Sequences

CONSTANTS Main, Terminal,   \* the main task, the tasks of the terminals
          Box,              \* the timer values of the main task's text boxes
          AppValue, Millis, \* what applications pass to CreateTimer
          kTimerFreq, kTaskTimerPeriod, kBlink, kTaskTimerValue,
          MaxTick, MaxReach, MaxCreated  \* bounds of the clock, of timeouts, of CreateTimer

Task == {Main} \cup Terminal

ASSUME TimerAssumption ==
  /\ Main \notin Terminal /\ Box \subseteq Nat /\ AppValue \subseteq Nat \ {0}
  /\ Millis \subseteq Nat /\ kTimerFreq \in Nat
  /\ kTaskTimerPeriod \in 1..MaxReach /\ kBlink \in 1..MaxReach
  /\ kTaskTimerValue \in Nat \ (Box \cup {1})
  /\ MaxTick \in Nat /\ MaxReach \in Nat /\ MaxCreated \in Nat

VARIABLES tick_,      \* the clock
          timers_,    \* the priority queue: how many there are of each timer
          ticking,    \* whether the interrupt is in the loop of Tick
          task_timer_timeout,
          inbox,      \* the kTimerTimeout messages of each task
          pc, hand,   \* where each task is, the timer it is about to add
          start,      \* the clock when a blinker set its first timer
          ran,        \* the terminals that have run an application
          created,    \* number of calls of CreateTimer
          hit, torn   \* pushes that another one ran into, and whether one ended so

clock == <<tick_, ticking, task_timer_timeout>>
vars == <<clock, timers_, inbox, pc, hand, start, ran, created, hit, torn>>

Time == 0..(MaxTick + MaxReach)

Timer == [timeout : Time, value : {kTaskTimerValue} \cup Box, task_id : {Main}]
           \cup [timeout : Time, value : {1} \cup {-v : v \in AppValue}, task_id : Terminal]

TimerOf(timeout, value, task_id) == [timeout |-> timeout, value |-> value, task_id |-> task_id]

\* A cursor: the task that moves it, and the value of its timers.
Blinker == ({Main} \X Box) \cup (Terminal \X {1})

Init ==
  /\ tick_ = 0 /\ ticking = FALSE /\ task_timer_timeout = FALSE
  /\ timers_ = [x \in Timer |->
       IF \/ x = TimerOf(kTaskTimerPeriod, kTaskTimerValue, Main)
          \/ \E b \in Box : x = TimerOf(kBlink, b, Main)
       THEN 1 ELSE 0]
  /\ inbox = [t \in Task |-> <<>>]
  /\ pc = [t \in Task |-> IF t = Main THEN "loop" ELSE "new"]
  /\ hand = [t \in Task |-> TimerOf(0, kTaskTimerValue, Main)]
  /\ start = [b \in Blinker |-> 0]
  /\ ran = {} /\ created = 0 /\ hit = {} /\ torn = FALSE

Queued(x) == timers_[x] > 0

\* operator< of Timer: on top is one whose timeout is not after any other's.
Top(x) == Queued(x) /\ \A y \in Timer : Queued(y) => x.timeout <= y.timeout

Push(q, x) == [q EXCEPT ![x] = q[x] + 1]
Pop(q, x) == [q EXCEPT ![x] = q[x] - 1]

\* Whoever changes the queue runs into the pushes that have not ended.
RunsInto(t) == hit' = hit \cup { u \in Terminal \ {t} : pc[u] = "push" }

-----------------------------------------------------------------------------
(* LAPICTimerOnInterrupt *)

Tick ==
  /\ ~ticking /\ tick_ < MaxTick
  /\ tick_' = tick_ + 1 /\ ticking' = TRUE /\ task_timer_timeout' = FALSE
  /\ UNCHANGED <<timers_, inbox, pc, hand, start, ran, created, hit, torn>>

\* Mutant: the task timer is set again without a pop.
TaskTimerKept ==
  /\ ticking
  /\ \E x \in Timer :
       /\ Top(x) /\ x.timeout <= tick_ /\ x.value = kTaskTimerValue
       /\ timers_' = Push(timers_, TimerOf(tick_ + kTaskTimerPeriod, kTaskTimerValue, Main))
  /\ task_timer_timeout' = TRUE
  /\ RunsInto(Main)
  /\ UNCHANGED <<tick_, ticking, inbox, pc, hand, start, ran, created, torn>>

\* The task timer sets itself again ...
TaskTimer ==
  /\ ticking
  /\ \E x \in Timer :
       /\ Top(x) /\ x.timeout <= tick_ /\ x.value = kTaskTimerValue
       /\ timers_' = Push(Pop(timers_, x),
                          TimerOf(tick_ + kTaskTimerPeriod, kTaskTimerValue, Main))
  /\ task_timer_timeout' = TRUE
  /\ RunsInto(Main)
  /\ UNCHANGED <<tick_, ticking, inbox, pc, hand, start, ran, created, torn>>

\* ... and any other timer becomes a message.
Expire ==
  /\ ticking
  /\ \E x \in Timer :
       /\ Top(x) /\ x.timeout <= tick_ /\ x.value # kTaskTimerValue
       /\ inbox' = [inbox EXCEPT ![x.task_id] = Append(@, x)]
       /\ timers_' = Pop(timers_, x)
  /\ RunsInto(Main)
  /\ UNCHANGED <<clock, pc, hand, start, ran, created, torn>>

\* The loop ends; SwitchTask is called when task_timer_timeout says so.
TickEnd ==
  /\ ticking /\ (\A x \in Timer : Top(x) => x.timeout > tick_)
  /\ ticking' = FALSE
  /\ UNCHANGED <<tick_, task_timer_timeout, timers_, inbox, pc, hand, start, ran, created, hit, torn>>

-----------------------------------------------------------------------------
(* The tasks *)

Goto(t, place) == pc' = [pc EXCEPT ![t] = place]

\* TaskTerminal, before its loop: the first timer of the cursor.
Start(t) ==
  /\ ~ticking /\ pc[t] = "new"
  /\ start' = [start EXCEPT ![<<t, 1>>] = tick_]
  /\ hand' = [hand EXCEPT ![t] = TimerOf(tick_ + kBlink, 1, t)]
  /\ Goto(t, "blink")
  /\ UNCHANGED <<clock, timers_, inbox, ran, created, hit, torn>>

\* Mutant: the next timer counts from the clock.
TakeDrifting(t) ==
  /\ ~ticking /\ pc[t] = "loop" /\ inbox[t] # <<>>
  /\ LET m == Head(inbox[t])
     IN hand' = [hand EXCEPT ![t] = TimerOf(tick_ + kBlink, IF t = Main THEN m.value ELSE 1, t)]
  /\ inbox' = [inbox EXCEPT ![t] = Tail(@)]
  /\ Goto(t, IF t = Main THEN "add" ELSE "blink")
  /\ UNCHANGED <<clock, timers_, start, ran, created, hit, torn>>

\* The loops take a message.  The main task asks whose cursor it is, a
\* terminal does not ask whose timer it was; each sets its next timer from
\* the time-out of the last.
Take(t) ==
  /\ ~ticking /\ pc[t] = "loop" /\ inbox[t] # <<>>
  /\ LET m == Head(inbox[t])
     IN hand' = [hand EXCEPT ![t] = TimerOf(m.timeout + kBlink, IF t = Main THEN m.value ELSE 1, t)]
  /\ inbox' = [inbox EXCEPT ![t] = Tail(@)]
  /\ Goto(t, IF t = Main THEN "add" ELSE "blink")
  /\ UNCHANGED <<clock, timers_, start, ran, created, hit, torn>>

\* cli; AddTimer; sti: by the main task, or in CreateTimer.
AddTimer(t) ==
  /\ ~ticking /\ pc[t] \in {"add", "create"}
  /\ timers_' = Push(timers_, hand[t])
  /\ RunsInto(t)
  /\ Goto(t, IF pc[t] = "add" THEN "loop" ELSE "app")
  /\ UNCHANGED <<clock, inbox, hand, start, ran, created, torn>>

\* AddTimer of a terminal, with interrupts enabled.
BeginPush(t) ==
  /\ ~ticking /\ pc[t] = "blink"
  /\ Goto(t, "push") /\ hit' = hit \ {t}
  /\ UNCHANGED <<clock, timers_, inbox, hand, start, ran, created, torn>>

\* A push that nothing ran into adds its timer.  One that others ran into
\* stores it at a place that is no longer its own, over another timer or
\* behind the end; what becomes of the timers then is not followed.
EndPush(t) ==
  /\ ~ticking /\ pc[t] = "push"
  /\ torn' = (t \in hit)
  /\ timers_' = Push(timers_, hand[t])
  /\ RunsInto(t)
  /\ Goto(t, "loop")
  /\ UNCHANGED <<clock, inbox, hand, start, ran, created>>

\* A command that runs in the terminal's task begins, and ends.
RunApp(t) ==
  /\ ~ticking /\ t # Main /\ pc[t] = "loop"
  /\ ran' = ran \cup {t} /\ Goto(t, "app")
  /\ UNCHANGED <<clock, timers_, inbox, hand, start, created, hit, torn>>

EndApp(t) ==
  /\ ~ticking /\ pc[t] = "app"
  /\ Goto(t, "loop")
  /\ UNCHANGED <<clock, timers_, inbox, hand, start, ran, created, hit, torn>>

\* CreateTimer, as far as its cli: the clock is read before.
CreateTimer(t) ==
  /\ ~ticking /\ pc[t] = "app" /\ created < MaxCreated
  /\ \E value \in AppValue, ms \in Millis, relative \in BOOLEAN :
       LET timeout == (ms * kTimerFreq) \div 1000 + (IF relative THEN tick_ ELSE 0)
       IN timeout \in Time /\ hand' = [hand EXCEPT ![t] = TimerOf(timeout, -value, t)]
  /\ created' = created + 1
  /\ Goto(t, "create")
  /\ UNCHANGED <<clock, timers_, inbox, start, ran, hit, torn>>

\* ReadEvent, or a Read of standard input: timers of the terminal are
\* dropped, those of the application reported.
ReadEvent(t) ==
  /\ ~ticking /\ pc[t] = "app" /\ inbox[t] # <<>>
  /\ inbox' = [inbox EXCEPT ![t] = Tail(@)]
  /\ UNCHANGED <<clock, timers_, pc, hand, start, ran, created, hit, torn>>

TaskStep(t) ==
  \/ Take(t) \/ AddTimer(t) \/ RunApp(t) \/ EndApp(t) \/ CreateTimer(t) \/ ReadEvent(t)
  \/ t \in Terminal /\ (Start(t) \/ BeginPush(t) \/ EndPush(t))

Next == ~torn /\ (Tick \/ TaskTimer \/ Expire \/ TickEnd \/ \E t \in Task : TaskStep(t))

Spec == Init /\ [][Next]_vars

-----------------------------------------------------------------------------
(* Properties *)

TypeOK ==
  /\ tick_ \in 0..MaxTick /\ ticking \in BOOLEAN /\ task_timer_timeout \in BOOLEAN
  /\ timers_ \in [Timer -> Nat]
  /\ inbox \in [Task -> Seq(Timer)]
  /\ pc \in [Task -> {"new", "loop", "add", "blink", "push", "app", "create"}]
  /\ hand \in [Task -> Timer]
  /\ start \in [Blinker -> 0..MaxTick]
  /\ ran \subseteq Terminal /\ created \in 0..MaxCreated
  /\ hit \subseteq Terminal /\ torn \in BOOLEAN

\* There is always exactly one task timer, due within a period, and the
\* interrupt asks for a switch exactly in the ticks that set it: no task runs
\* longer than that before the next one's turn (timer.cpp:67-71).
PreemptsOnTime ==
  ~torn =>
    \E x \in Timer :
      /\ x.value = kTaskTimerValue /\ timers_[x] = 1
      /\ \A y \in Timer : y.value = kTaskTimerValue /\ y # x => timers_[y] = 0
      /\ x.timeout <= tick_ + kTaskTimerPeriod
      /\ ~ticking => /\ x.timeout > tick_
                     /\ tick_ > 0 =>
                          (task_timer_timeout <=> x.timeout = tick_ + kTaskTimerPeriod)

\* Where the one timer of a cursor is: in the queue, in a message, or in the
\* hands of its task.
IsFor(x, b) == x.task_id = b[1] /\ x.value = b[2]
InHand(t) == pc[t] \in {"add", "blink", "push"}
Messages(b) == { i \in DOMAIN inbox[b[1]] : IsFor(inbox[b[1]][i], b) }
Waiting(b) == { x \in Timer : Queued(x) /\ IsFor(x, b) }
Held(b) == InHand(b[1]) /\ IsFor(hand[b[1]], b)

OnBeat(x, b) == x.timeout >= start[b] /\ (x.timeout - start[b]) % kBlink = 0

\* Each cursor that is in use has exactly one timer, set again and again: it
\* blinks on, at its own rate, and does not drift however late its task is
\* (terminal.cpp:874-877, cursored_textbox.cpp:46-50).  This holds of the text
\* boxes, and of the terminals that have run no application.
OneBlink ==
  ~torn =>
    \A b \in Blinker :
      b[1] \notin ran /\ pc[b[1]] # "new" =>
        /\ \A x \in Waiting(b) : timers_[x] = 1 /\ OnBeat(x, b)
        /\ \A i \in Messages(b) : OnBeat(inbox[b[1]][i], b)
        /\ Held(b) => OnBeat(hand[b[1]], b)
        /\ \/ /\ Held(b) /\ Waiting(b) = {} /\ Messages(b) = {}
           \/ /\ ~Held(b) /\ Messages(b) = {} /\ \E x \in Waiting(b) : Waiting(b) = {x}
           \/ /\ ~Held(b) /\ Waiting(b) = {} /\ \E i \in Messages(b) : Messages(b) = {i}
=============================================================================

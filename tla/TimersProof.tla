---------------------------- MODULE TimersProof ----------------------------
(***************************************************************************)
(* Proofs about Timers, for any number of terminals, text boxes and timers *)
(* of applications, any period and any length of a blink: there is always  *)
(* one task timer, and a switch of tasks is asked for in every period; and *)
(* each cursor has exactly one timer, on its own beat.                     *)
(***************************************************************************)
EXTENDS Timers, SequenceTheorems, WellFoundedInduction, TLAPS

\* What may be in the mailbox of t.
Sent(t) ==
  { x \in Timer : x.task_id = t /\ x.value # kTaskTimerValue /\ x.timeout <= MaxTick }

Posted == \A t \in Task : inbox[t] \in Seq(Sent(t))

\* Nobody but the interrupt adds a task timer, and the main task has no application.
Hands ==
  /\ \A t \in Task : pc[t] \in {"add", "create", "blink", "push"} => hand[t].value # kTaskTimerValue
  /\ pc[Main] \in {"loop", "add"}

\* x is the one task timer; while the interrupt is in its loop it may be due.
TheTaskTimer(x) ==
  /\ x.value = kTaskTimerValue /\ timers_[x] = 1
  /\ \A y \in Timer : y.value = kTaskTimerValue /\ y # x => timers_[y] = 0
  /\ x.timeout <= tick_ + kTaskTimerPeriod /\ x.timeout >= tick_
  /\ ~ticking => x.timeout > tick_
  /\ ticking \/ tick_ > 0 => (task_timer_timeout <=> x.timeout = tick_ + kTaskTimerPeriod)

OneTaskTimer == \E x \in Timer : TheTaskTimer(x)

IInv == TypeOK /\ Posted /\ Hands /\ OneTaskTimer

-----------------------------------------------------------------------------
(* Numbers and timers *)

LEMMA Constants ==
  /\ MaxTick \in Nat /\ MaxReach \in Nat /\ MaxCreated \in Nat /\ kTaskTimerValue \in Nat
  /\ kTaskTimerPeriod \in Nat /\ kTaskTimerPeriod > 0 /\ kTaskTimerPeriod <= MaxReach
  /\ kBlink \in Nat /\ kBlink > 0 /\ kBlink <= MaxReach
  /\ Main \notin Terminal /\ kTaskTimerValue # 1 /\ kTaskTimerValue \notin Box
  /\ \A v \in AppValue : -v # kTaskTimerValue
  /\ \A v \in AppValue : v \in Nat /\ v # 0
  BY TimerAssumption

\* A set of numbers has a least one.
LEMMA LeastOf ==
  ASSUME NEW T \in SUBSET Nat, T # {}
  PROVE  \E x \in T : \A y \in T : x <= y
<1> DEFINE R == OpToRel(<, Nat)
<1>1. IsWellFoundedOn(R, Nat)
  BY NatLessThanWellFounded
<1>2. \A a, b \in Nat : a < b => <<a, b>> \in R
  BY SMT DEF R, OpToRel
<1> HIDE DEF R
<1>3. PICK x \in T : \A y \in T : ~(<<y, x>> \in R)
  BY <1>1, WFMin
<1>4. ASSUME NEW y \in T PROVE x <= y
  <2>1. x \in Nat /\ y \in Nat /\ ~(y < x)
    BY <1>2, <1>3
  <2> QED
    BY <2>1
<1> QED
  BY <1>4

\* What a timer is.
LEMMA TimerFields ==
  /\ \A x \in Timer : x.timeout \in Nat /\ x.timeout <= MaxTick + MaxReach
                      /\ x = TimerOf(x.timeout, x.value, x.task_id)
  /\ \A a, v, t : LET x == TimerOf(a, v, t) IN x.timeout = a /\ x.value = v /\ x.task_id = t
  /\ \A x \in Timer : x.value = kTaskTimerValue => x.task_id = Main
  /\ \A x \in Timer : x.task_id \in Task
  /\ \A x \in Timer : x.task_id = Main => x.value = kTaskTimerValue \/ x.value \in Box
  /\ \A a \in Time : /\ TimerOf(a, kTaskTimerValue, Main) \in Timer
                     /\ \A b \in Box : TimerOf(a, b, Main) \in Timer
                     /\ \A t \in Terminal : /\ TimerOf(a, 1, t) \in Timer
                                            /\ \A v \in AppValue : TimerOf(a, -v, t) \in Timer
<1>1. \A a, v, t : LET x == TimerOf(a, v, t) IN x.timeout = a /\ x.value = v /\ x.task_id = t
  BY DEF TimerOf
<1>2. ASSUME NEW x \in Timer
      PROVE  /\ x.timeout \in Nat /\ x.timeout <= MaxTick + MaxReach
             /\ x = TimerOf(x.timeout, x.value, x.task_id)
             /\ x.value = kTaskTimerValue => x.task_id = Main
             /\ x.task_id \in Task
             /\ x.task_id = Main => x.value = kTaskTimerValue \/ x.value \in Box
  <2>1. CASE x \in [timeout : Time, value : {kTaskTimerValue} \cup Box, task_id : {Main}]
    BY <2>1, Constants DEF Time, TimerOf, Task
  <2>2. CASE x \in [timeout : Time, value : {1} \cup {-v : v \in AppValue}, task_id : Terminal]
    BY <2>2, Constants DEF Time, TimerOf, Task
  <2> QED
    BY <2>1, <2>2 DEF Timer
<1>3. ASSUME NEW a \in Time
      PROVE  /\ TimerOf(a, kTaskTimerValue, Main) \in Timer
             /\ \A b \in Box : TimerOf(a, b, Main) \in Timer
             /\ \A t \in Terminal : /\ TimerOf(a, 1, t) \in Timer
                                    /\ \A v \in AppValue : TimerOf(a, -v, t) \in Timer
  BY DEF Timer, TimerOf
<1> QED
  BY <1>1, <1>2, <1>3

\* Adding or taking another timer leaves the task timer alone.
LEMMA OthersAdded ==
  ASSUME TypeOK, OneTaskTimer, NEW h, h.value # kTaskTimerValue,
         timers_' = Push(timers_, h) \/ timers_' = Pop(timers_, h) \/ timers_' = timers_,
         UNCHANGED <<tick_, ticking, task_timer_timeout>>
  PROVE  OneTaskTimer'
<1>1. PICK x \in Timer : TheTaskTimer(x)
  BY DEF OneTaskTimer
<1>2. \A y \in Timer : y.value = kTaskTimerValue => timers_'[y] = timers_[y]
  BY DEF TypeOK, Push, Pop
<1>3. TheTaskTimer(x)'
  BY <1>1, <1>2 DEF TheTaskTimer
<1> QED
  BY <1>3 DEF OneTaskTimer

LEMMA Pushed ==
  ASSUME TypeOK, NEW h
  PROVE  Push(timers_, h) \in [Timer -> Nat]
<1>1. \A x \in Timer : timers_[x] + 1 \in Nat
  BY DEF TypeOK
<1> QED
  BY <1>1 DEF TypeOK, Push

LEMMA Popped ==
  ASSUME TypeOK, NEW h \in Timer, timers_[h] > 0
  PROVE  Pop(timers_, h) \in [Timer -> Nat]
<1>1. timers_[h] - 1 \in Nat
  BY DEF TypeOK
<1> QED
  BY <1>1 DEF TypeOK, Pop

-----------------------------------------------------------------------------
(* The invariant *)

LEMMA InitHolds == Init => IInv
<1> SUFFICES ASSUME Init PROVE IInv
  OBVIOUS
<1> DEFINE first == TimerOf(kTaskTimerPeriod, kTaskTimerValue, Main)
<1>1. kTaskTimerPeriod \in Time /\ 0 \in Time /\ 0 \in 0..MaxTick /\ 0 \in 0..MaxCreated
  BY Constants DEF Time
<1>2. first \in Timer /\ first.value = kTaskTimerValue /\ first.timeout = kTaskTimerPeriod
  BY <1>1, TimerFields
<1>3. \A y \in Timer : y.value = kTaskTimerValue /\ y # first => timers_[y] = 0
  BY Constants, TimerFields DEF Init
<1>4. timers_[first] = 1
  BY <1>2 DEF Init
<1>5. timers_ \in [Timer -> Nat]
  BY DEF Init
<1>6. TheTaskTimer(first)
  <2> HIDE DEF first
  <2> QED
    BY <1>2, <1>3, <1>4, Constants DEF Init, TheTaskTimer
<1>7. \A S : <<>> \in Seq(S)
  BY EmptySeq
<1>8. TimerOf(0, kTaskTimerValue, Main) \in Timer
  BY <1>1, TimerFields
<1>9. TypeOK
  BY <1>1, <1>5, <1>7, <1>8 DEF Init, TypeOK
<1>10. Posted /\ Hands
  BY <1>7 DEF Init, Posted, Hands, Task
<1> QED
  BY <1>2, <1>6, <1>9, <1>10 DEF IInv, OneTaskTimer

\* The mailboxes and the hands stay as they are.
LEMMA SameMail ==
  ASSUME Posted, Hands, UNCHANGED inbox,
         \A t \in Task : \/ UNCHANGED <<pc[t], hand[t]>>
                         \/ pc'[t] \notin {"add", "create", "blink", "push"}
                         \/ hand'[t].value # kTaskTimerValue,
         pc'[Main] \in {"loop", "add"}
  PROVE  Posted' /\ Hands'
  BY DEF Posted, Hands

LEMMA TickStep ==
  ASSUME IInv, Tick
  PROVE  IInv'
<1>1. PICK x \in Timer : TheTaskTimer(x)
  BY DEF IInv, OneTaskTimer
<1>2. tick_ \in Nat /\ x.timeout \in Nat
  BY TimerFields DEF IInv, TypeOK
<1>3. /\ ~ticking /\ tick_' = tick_ + 1 /\ ticking' = TRUE /\ task_timer_timeout' = FALSE
      /\ tick_ < MaxTick
      /\ UNCHANGED <<timers_, inbox, pc, hand, start, ran, created, hit, torn>>
  BY DEF Tick
<1>4. TheTaskTimer(x)'
  <2>1. /\ x.value = kTaskTimerValue /\ timers_'[x] = 1
        /\ \A y \in Timer : y.value = kTaskTimerValue /\ y # x => timers_'[y] = 0
    BY <1>1, <1>3 DEF TheTaskTimer
  <2>2. /\ x.timeout < tick_' + kTaskTimerPeriod /\ x.timeout >= tick_'
    BY <1>1, <1>2, <1>3, Constants DEF TheTaskTimer
  <2> QED
    BY <1>2, <1>3, <2>1, <2>2, Constants DEF TheTaskTimer
<1>5. TypeOK'
  <2>1. tick_' \in 0..MaxTick
    BY <1>2, <1>3, Constants
  <2>2. TypeOK
    BY DEF IInv
  <2> QED
    BY <1>3, <2>1, <2>2 DEF TypeOK
<1>6. Posted' /\ Hands'
  BY <1>3 DEF IInv, Posted, Hands
<1> QED
  BY <1>4, <1>5, <1>6 DEF IInv, OneTaskTimer

LEMMA TaskTimerStep ==
  ASSUME IInv, TaskTimer
  PROVE  IInv'
<1>1. PICK x \in Timer : TheTaskTimer(x)
  BY DEF IInv, OneTaskTimer
<1>0. PICK n : n = TimerOf(tick_ + kTaskTimerPeriod, kTaskTimerValue, Main)
  OBVIOUS
<1>2. tick_ \in Nat /\ tick_ <= MaxTick /\ x.timeout \in Nat
  BY TimerFields, Constants DEF IInv, TypeOK
<1>3. PICK z \in Timer : /\ Top(z) /\ z.timeout <= tick_ /\ z.value = kTaskTimerValue
                         /\ timers_' = Push(Pop(timers_, z), n)
  BY <1>0 DEF TaskTimer
<1>4. z = x
  BY <1>1, <1>3 DEF TheTaskTimer, Top, Queued
<1>5. n \in Timer /\ n.timeout = tick_ + kTaskTimerPeriod /\ n.value = kTaskTimerValue
  <2>1. tick_ + kTaskTimerPeriod \in Time
    BY <1>2, Constants DEF Time
  <2> QED
    BY <1>0, <2>1, TimerFields
<1>6. n # x
  BY <1>2, <1>3, <1>4, <1>5, Constants
<1>7. timers_ \in [Timer -> Nat] /\ timers_[x] = 1 /\ timers_[n] = 0
  BY <1>1, <1>5, <1>6 DEF IInv, TypeOK, TheTaskTimer
<1>8. /\ timers_' \in [Timer -> Nat] /\ timers_'[x] = 0 /\ timers_'[n] = 1
      /\ \A y \in Timer \ {x, n} : timers_'[y] = timers_[y]
  <2>1. Pop(timers_, x) \in [Timer -> Nat]
    BY <1>7, Popped DEF IInv
  <2>2. /\ Pop(timers_, x)[x] = 0 /\ Pop(timers_, x)[n] = 0
        /\ \A y \in Timer \ {x} : Pop(timers_, x)[y] = timers_[y]
    BY <1>5, <1>6, <1>7 DEF Pop
  <2>3. timers_' = Push(Pop(timers_, x), n)
    BY <1>3, <1>4
  <2> DEFINE q == Pop(timers_, x)
  <2> HIDE DEF q
  <2>4. q \in [Timer -> Nat] /\ q[x] = 0 /\ q[n] = 0 /\ timers_' = Push(q, n)
        /\ \A y \in Timer \ {x} : q[y] = timers_[y]
    BY <2>1, <2>2, <2>3 DEF q
  <2>5. q[n] + 1 \in Nat /\ q[n] + 1 = 1
    BY <2>4
  <2> QED
    BY <1>5, <1>6, <2>4, <2>5 DEF Push
<1>9. /\ ticking /\ task_timer_timeout' = TRUE
      /\ UNCHANGED <<tick_, ticking, inbox, pc, hand, start, ran, created, torn>>
      /\ hit' = hit \cup {u \in Terminal \ {Main} : pc[u] = "push"}
  BY DEF TaskTimer, RunsInto
<1>10. TheTaskTimer(n)'
  <2>1. \A y \in Timer : y.value = kTaskTimerValue /\ y # n => timers_'[y] = 0
    BY <1>1, <1>8 DEF TheTaskTimer
  <2>2. n.timeout \in Nat /\ n.timeout <= tick_ + kTaskTimerPeriod /\ n.timeout >= tick_
    BY <1>2, <1>5, Constants
  <2> QED
    BY <1>5, <1>8, <1>9, <2>1, <2>2 DEF TheTaskTimer
<1>11. TypeOK'
  BY <1>8, <1>9 DEF IInv, TypeOK
<1>12. Posted' /\ Hands'
  BY <1>9 DEF IInv, Posted, Hands
<1>13. OneTaskTimer'
  BY <1>5, <1>10 DEF OneTaskTimer
<1> QED
  BY <1>11, <1>12, <1>13 DEF IInv

LEMMA ExpireStep ==
  ASSUME IInv, Expire
  PROVE  IInv'
<1>1. PICK z \in Timer :
        /\ Top(z) /\ z.timeout <= tick_ /\ z.value # kTaskTimerValue
        /\ inbox' = [inbox EXCEPT ![z.task_id] = Append(@, z)]
        /\ timers_' = Pop(timers_, z)
  BY DEF Expire
<1>2. /\ UNCHANGED <<tick_, ticking, task_timer_timeout, pc, hand, start, ran, created, torn>>
      /\ hit' = hit \cup {u \in Terminal \ {Main} : pc[u] = "push"}
  BY DEF Expire, RunsInto, clock
<1>3. z \in Sent(z.task_id) /\ z.task_id \in Task
  <2>1. tick_ \in Nat /\ tick_ <= MaxTick /\ z.timeout \in Nat
    BY TimerFields, Constants DEF IInv, TypeOK
  <2>2. z.timeout <= MaxTick
    BY <1>1, <2>1, Constants
  <2> QED
    BY <1>1, <2>2, TimerFields DEF Sent
<1>4. timers_' \in [Timer -> Nat]
  BY <1>1, Popped DEF IInv, Top, Queued
<1>5. Append(inbox[z.task_id], z) \in Seq(Sent(z.task_id))
      /\ Append(inbox[z.task_id], z) \in Seq(Timer)
  BY <1>3, AppendProperties DEF IInv, TypeOK, Posted
<1>6. Posted' /\ inbox' \in [Task -> Seq(Timer)]
  BY <1>1, <1>3, <1>5 DEF IInv, TypeOK, Posted
<1>7. OneTaskTimer'
  BY <1>1, <1>2, OthersAdded DEF IInv
<1>8. TypeOK'
  BY <1>2, <1>4, <1>6 DEF IInv, TypeOK
<1>9. Hands'
  BY <1>2 DEF IInv, Hands
<1> QED
  BY <1>6, <1>7, <1>8, <1>9 DEF IInv

LEMMA TickEndStep ==
  ASSUME IInv, TickEnd
  PROVE  IInv'
<1>1. PICK x \in Timer : TheTaskTimer(x)
  BY DEF IInv, OneTaskTimer
<1>2. /\ ticking /\ ticking' = FALSE /\ \A y \in Timer : Top(y) => y.timeout > tick_
      /\ UNCHANGED <<tick_, task_timer_timeout, timers_, inbox, pc, hand, start, ran, created, hit,
                     torn>>
  BY DEF TickEnd
<1>3. x.timeout > tick_
  <2> DEFINE T == { y.timeout : y \in { w \in Timer : Queued(w) } }
  <2>1. T \subseteq Nat /\ x.timeout \in T
    BY <1>1, TimerFields DEF TheTaskTimer, Queued
  <2>2. PICK m \in T : \A k \in T : m <= k
    <3> HIDE DEF T
    <3> QED
      BY <2>1, LeastOf
  <2>3. PICK y \in Timer : Queued(y) /\ y.timeout = m
    OBVIOUS
  <2>4. Top(y)
    BY <2>2, <2>3 DEF Top
  <2>5. m > tick_ /\ m <= x.timeout
    BY <1>2, <2>1, <2>2, <2>3, <2>4
  <2>6. m \in Nat /\ x.timeout \in Nat /\ tick_ \in Nat
    <3>1. x.timeout \in Nat /\ tick_ \in Nat
      BY TimerFields DEF IInv, TypeOK
    <3> HIDE DEF T
    <3> QED
      BY <2>1, <2>2, <3>1
  <2> HIDE DEF T
  <2> QED
    BY <2>5, <2>6
<1>4. TheTaskTimer(x)'
  BY <1>1, <1>2, <1>3 DEF TheTaskTimer
<1>5. TypeOK'
  BY <1>2 DEF IInv, TypeOK
<1>6. Posted' /\ Hands'
  BY <1>2 DEF IInv, Posted, Hands
<1> QED
  BY <1>4, <1>5, <1>6 DEF IInv, OneTaskTimer
\* t has h in its hand.
Takes(t, h) == hand' = [hand EXCEPT ![t] = h] \/ (hand' = hand /\ h = hand[t])

\* A task goes to another place, and its hand may have changed.
LEMMA TaskMoves ==
  ASSUME IInv, NEW t \in Task, NEW place, NEW h,
         place \in {"new", "loop", "add", "blink", "push", "app", "create"},
         Goto(t, place), Takes(t, h), h \in Timer,
         place \in {"add", "create", "blink", "push"} => h.value # kTaskTimerValue,
         t = Main => place \in {"loop", "add"}
  PROVE  /\ Hands'
         /\ pc' \in [Task -> {"new", "loop", "add", "blink", "push", "app", "create"}]
         /\ hand' \in [Task -> Timer]
<1>1. /\ pc \in [Task -> {"new", "loop", "add", "blink", "push", "app", "create"}]
      /\ hand \in [Task -> Timer] /\ Hands /\ Main \in Task
  BY DEF IInv, TypeOK, Task
<1>2. /\ pc' = [pc EXCEPT ![t] = place]
      /\ hand' \in [Task -> Timer] /\ hand'[t] = h /\ \A u \in Task \ {t} : hand'[u] = hand[u]
  BY <1>1 DEF Goto, Takes
<1>3. pc'[t] = place /\ \A u \in Task \ {t} : pc'[u] = pc[u]
  BY <1>1, <1>2
<1> QED
  BY <1>1, <1>2, <1>3 DEF Hands

LEMMA AppValues == \A v \in AppValue : -v # kTaskTimerValue
  BY Constants

LEMMA TaskStepKeeps ==
  ASSUME IInv, NEW t \in Task, TaskStep(t)
  PROVE  IInv'
<1>1. /\ TypeOK /\ Posted /\ Hands /\ OneTaskTimer
      /\ tick_ \in Nat /\ tick_ <= MaxTick /\ hand[t] \in Timer
      /\ pc \in [Task -> {"new", "loop", "add", "blink", "push", "app", "create"}]
      /\ (t # Main => t \in Terminal)
  BY Constants DEF IInv, TypeOK, Task
<1>2. CASE Take(t)
  <2>1. inbox[t] # <<>> /\ inbox[t] \in Seq(Sent(t)) /\ inbox[t] \in Seq(Timer)
    BY <1>1, <1>2 DEF Take, Posted, TypeOK
  <2>2. PICK m : m = Head(inbox[t])
    OBVIOUS
  <2>3. m \in Sent(t) /\ Tail(inbox[t]) \in Seq(Sent(t)) /\ Tail(inbox[t]) \in Seq(Timer)
    BY <2>1, <2>2, HeadTailProperties
  <2>4. m \in Timer /\ m.task_id = t /\ m.value # kTaskTimerValue /\ m.timeout + kBlink \in Time
    BY <2>3, TimerFields, Constants DEF Sent, Time
  <2>5. PICK h : h = TimerOf(m.timeout + kBlink, IF t = Main THEN m.value ELSE 1, t)
    OBVIOUS
  <2>6. h \in Timer /\ h.value # kTaskTimerValue
    <3>1. CASE t = Main
      <4>1. m.value \in Box
        BY <2>4, <3>1, TimerFields
      <4> QED
        BY <2>4, <2>5, <3>1, <4>1, TimerFields
    <3>2. CASE t # Main
      BY <1>1, <2>4, <2>5, <3>2, TimerFields, Constants
    <3> QED
      BY <3>1, <3>2
  <2>7. PICK p : /\ p = IF t = Main THEN "add" ELSE "blink"
                 /\ p \in {"add", "blink"} /\ (t = Main => p \in {"loop", "add"})
    OBVIOUS
  <2>8. /\ Goto(t, p) /\ inbox' = [inbox EXCEPT ![t] = Tail(@)]
        /\ UNCHANGED <<clock, timers_, start, ran, created, hit, torn>>
    BY <1>2, <2>7 DEF Take
  <2>9. /\ Hands' /\ hand' \in [Task -> Timer]
        /\ pc' \in [Task -> {"new", "loop", "add", "blink", "push", "app", "create"}]
    <3>1. Takes(t, h)
      <4>1. hand' = [hand EXCEPT ![t] = TimerOf(m.timeout + kBlink, IF t = Main THEN m.value ELSE 1, t)]
        BY <1>2, <2>2 DEF Take
      <4> QED
        BY <2>5, <4>1 DEF Takes
    <3>2. /\ p \in {"new", "loop", "add", "blink", "push", "app", "create"} /\ Goto(t, p)
          /\ h \in Timer /\ h.value # kTaskTimerValue /\ (t = Main => p \in {"loop", "add"})
      BY <2>6, <2>7, <2>8
    <3> QED
      BY <3>1, <3>2, TaskMoves
  <2>10. Posted' /\ inbox' \in [Task -> Seq(Timer)]
    BY <1>1, <2>3, <2>8 DEF Posted, TypeOK
  <2>11. TypeOK'
    BY <1>1, <2>8, <2>9, <2>10 DEF TypeOK, clock
  <2>12. OneTaskTimer'
    BY <1>1, <2>8 DEF OneTaskTimer, TheTaskTimer, clock
  <2> QED
    BY <2>9, <2>10, <2>11, <2>12 DEF IInv
<1>3. ASSUME pc[t] \in {"add", "create", "push"}, NEW p \in {"loop", "app"}, Goto(t, p),
             t = Main => p = "loop",
             timers_' = Push(timers_, hand[t]), torn' \in BOOLEAN, RunsInto(t),
             UNCHANGED <<clock, inbox, hand, start, ran, created>>
      PROVE  IInv'
  <2>1. hand[t].value # kTaskTimerValue
    BY <1>1, <1>3 DEF Hands
  <2>2. PICK h \in Timer : h = hand[t]
    BY <1>1
  <2>3. timers_' \in [Timer -> Nat]
    BY <1>1, <1>3, Pushed
  <2>4. OneTaskTimer'
    BY <1>1, <1>3, <2>1, <2>2, OthersAdded DEF clock
  <2>5. /\ Hands' /\ hand' \in [Task -> Timer]
        /\ pc' \in [Task -> {"new", "loop", "add", "blink", "push", "app", "create"}]
    <3>1. Takes(t, h)
      BY <1>3, <2>2 DEF Takes
    <3> QED
      BY <1>3, <2>2, <3>1, TaskMoves
  <2>6. TypeOK'
    BY <1>1, <1>3, <2>3, <2>5 DEF TypeOK, clock, RunsInto
  <2>7. Posted'
    BY <1>1, <1>3 DEF Posted
  <2> QED
    BY <2>4, <2>5, <2>6, <2>7 DEF IInv
<1>4. CASE AddTimer(t)
  <2>1. PICK p : p = IF pc[t] = "add" THEN "loop" ELSE "app"
    OBVIOUS
  <2>2. t = Main => p = "loop"
    BY <1>1, <1>4, <2>1 DEF AddTimer, Hands
  <2> QED
    BY <1>1, <1>3, <1>4, <2>1, <2>2 DEF AddTimer, TypeOK
<1>5. CASE t \in Terminal /\ EndPush(t)
  <2>1. pc[t] = "push" /\ Goto(t, "loop") /\ torn' \in BOOLEAN
    BY <1>5 DEF EndPush
  <2> QED
    BY <1>3, <1>5, <2>1 DEF EndPush
<1>6. ASSUME NEW p \in {"blink", "create", "push", "app", "loop"}, NEW h \in Timer, Goto(t, p),
             Takes(t, h), t = Main => p = "loop",
             p \in {"blink", "create", "push"} => h.value # kTaskTimerValue,
             UNCHANGED <<clock, timers_, inbox, torn>>,
             start' \in [Blinker -> 0..MaxTick], ran' \subseteq Terminal, created' \in 0..MaxCreated,
             hit' \subseteq Terminal
      PROVE  IInv'
  <2>1. /\ Hands' /\ hand' \in [Task -> Timer]
        /\ pc' \in [Task -> {"new", "loop", "add", "blink", "push", "app", "create"}]
    BY <1>6, TaskMoves
  <2>2. TypeOK'
    BY <1>1, <1>6, <2>1 DEF TypeOK, clock
  <2>3. Posted' /\ OneTaskTimer'
    BY <1>1, <1>6 DEF Posted, OneTaskTimer, TheTaskTimer, clock
  <2> QED
    BY <2>1, <2>2, <2>3 DEF IInv
<1>7. /\ start \in [Blinker -> 0..MaxTick] /\ ran \subseteq Terminal /\ created \in 0..MaxCreated
      /\ hit \subseteq Terminal /\ tick_ \in 0..MaxTick
  BY <1>1 DEF TypeOK
<1>8. CASE t \in Terminal /\ Start(t)
  <2>1. PICK h : h = TimerOf(tick_ + kBlink, 1, t)
    OBVIOUS
  <2>2. h \in Timer /\ h.value # kTaskTimerValue
    <3>1. tick_ + kBlink \in Time
      BY <1>1, Constants DEF Time
    <3> QED
      BY <1>8, <2>1, <3>1, TimerFields, Constants
  <2>3. start' \in [Blinker -> 0..MaxTick]
    BY <1>7, <1>8 DEF Start
  <2>4. t # Main
    BY <1>8, Constants
  <2> QED
    <3>1. /\ Goto(t, "blink") /\ Takes(t, h)
          /\ UNCHANGED <<clock, timers_, inbox, torn, ran, created, hit>>
      BY <1>8, <2>1 DEF Start, Takes
    <3> QED
      BY <1>6, <1>7, <2>2, <2>3, <2>4, <3>1
<1>9. CASE t \in Terminal /\ BeginPush(t)
  <2>1. t # Main /\ hand[t].value # kTaskTimerValue
    BY <1>1, <1>9, Constants DEF BeginPush, Hands
  <2> QED
    BY <1>1, <1>6, <1>7, <1>9, <2>1 DEF BeginPush, Takes
<1>10. CASE RunApp(t)
  <2>1. ran' \subseteq Terminal /\ t # Main
    BY <1>1, <1>7, <1>10 DEF RunApp
  <2> QED
    BY <1>1, <1>6, <1>7, <1>10, <2>1 DEF RunApp, Takes
<1>11. CASE EndApp(t)
  BY <1>1, <1>6, <1>7, <1>11 DEF EndApp, Takes
<1>12. CASE CreateTimer(t)
  <2>1. t \in Terminal /\ t # Main
    BY <1>1, <1>12 DEF CreateTimer, Hands
  <2>2. PICK v \in AppValue, a \in Time : hand' = [hand EXCEPT ![t] = TimerOf(a, -v, t)]
    <3>1. PICK v \in AppValue, ms \in Millis, relative \in BOOLEAN :
            LET a == (ms * kTimerFreq) \div 1000 + (IF relative THEN tick_ ELSE 0)
            IN a \in Time /\ hand' = [hand EXCEPT ![t] = TimerOf(a, -v, t)]
      BY <1>12 DEF CreateTimer
    <3>2. PICK a : a = (ms * kTimerFreq) \div 1000 + (IF relative THEN tick_ ELSE 0)
      OBVIOUS
    <3> HIDE DEF TimerOf
    <3>3. a \in Time /\ hand' = [hand EXCEPT ![t] = TimerOf(a, -v, t)]
      BY <3>1, <3>2
    <3> QED
      BY <3>3, Zenon
  <2>3. PICK h : h = TimerOf(a, -v, t)
    OBVIOUS
  <2>4. h \in Timer /\ h.value # kTaskTimerValue
    BY <2>1, <2>3, TimerFields, AppValues
  <2>5. created' \in 0..MaxCreated
    BY <1>7, <1>12, Constants DEF CreateTimer
  <2> QED
    <3>1. Goto(t, "create") /\ UNCHANGED <<clock, timers_, inbox, torn, start, ran, hit>>
      BY <1>12 DEF CreateTimer
    <3>2. Takes(t, h)
      BY <2>2, <2>3 DEF Takes
    <3> QED
      BY <1>6, <1>7, <2>1, <2>4, <2>5, <3>1, <3>2
<1>13. CASE ReadEvent(t)
  <2>1. inbox[t] # <<>> /\ inbox[t] \in Seq(Sent(t)) /\ inbox[t] \in Seq(Timer)
    BY <1>1, <1>13 DEF ReadEvent, Posted, TypeOK
  <2>2. Tail(inbox[t]) \in Seq(Sent(t)) /\ Tail(inbox[t]) \in Seq(Timer)
    BY <2>1, HeadTailProperties
  <2>3. Posted' /\ inbox' \in [Task -> Seq(Timer)]
    BY <1>1, <1>13, <2>2 DEF ReadEvent, Posted, TypeOK
  <2>4. UNCHANGED <<clock, timers_, pc, hand, start, ran, created, hit, torn>>
    BY <1>13 DEF ReadEvent
  <2> QED
    BY <1>1, <2>3, <2>4 DEF IInv, TypeOK, Hands, OneTaskTimer, TheTaskTimer, clock
<1> QED
  BY <1>2, <1>4, <1>5, <1>8, <1>9, <1>10, <1>11, <1>12, <1>13 DEF TaskStep

LEMMA Invariant == Spec => []IInv
<1>1. ASSUME IInv, [Next]_vars PROVE IInv'
  <2>1. CASE UNCHANGED vars
    BY <1>1, <2>1 DEF IInv, TypeOK, Posted, Hands, OneTaskTimer, TheTaskTimer, vars, clock
  <2>2. CASE Next
    BY <1>1, <2>2, TickStep, TaskTimerStep, ExpireStep, TickEndStep, TaskStepKeeps DEF Next
  <2> QED
    BY <1>1, <2>1, <2>2
<1> QED
  BY <1>1, InitHolds, PTL DEF Spec

-----------------------------------------------------------------------------
(* The timer of a cursor *)

\* None of the queue's timers is that of b; x is the only one and on the beat.
NoneQueued(b) == \A x \in Timer : IsFor(x, b) => timers_[x] = 0

IsQueued(x, b) ==
  /\ IsFor(x, b) /\ timers_[x] = 1 /\ OnBeat(x, b)
  /\ \A y \in Timer : IsFor(y, b) /\ y # x => timers_[y] = 0

OneQueued(b) == \E x \in Timer : IsQueued(x, b)

\* The same of the messages.
NonePosted(b) == \A i \in DOMAIN inbox[b[1]] : ~IsFor(inbox[b[1]][i], b)

IsPosted(i, b) ==
  /\ IsFor(inbox[b[1]][i], b) /\ OnBeat(inbox[b[1]][i], b)
  /\ \A j \in DOMAIN inbox[b[1]] : j # i => ~IsFor(inbox[b[1]][j], b)

OnePosted(b) == \E i \in DOMAIN inbox[b[1]] : IsPosted(i, b)

\* The timer of b is in one of three places.
OneTimer(b) ==
  \/ Held(b) /\ OnBeat(hand[b[1]], b) /\ NoneQueued(b) /\ NonePosted(b)
  \/ ~Held(b) /\ OneQueued(b) /\ NonePosted(b)
  \/ ~Held(b) /\ NoneQueued(b) /\ OnePosted(b)

Cursors == \A b \in Blinker : b[1] \notin ran /\ pc[b[1]] # "new" => OneTimer(b)

\* A task adds its own timers only.
OwnHands ==
  \A t \in Task : pc[t] \in {"add", "create", "blink", "push"} => hand[t].task_id = t

\* A terminal that has run no application has no timers but those of its
\* cursor, and none before it starts.
Quiet(t) ==
  /\ pc[t] \in {"new", "loop", "blink", "push"}
  /\ pc[t] \in {"blink", "push"} => hand[t].value = 1
  /\ \A i \in DOMAIN inbox[t] : inbox[t][i].value = 1
  /\ \A x \in Timer : x.task_id = t /\ timers_[x] > 0 => x.value = 1
  /\ pc[t] = "new" => inbox[t] = <<>> /\ \A x \in Timer : x.task_id = t => timers_[x] = 0

QuietOnes == \A t \in Terminal \ ran : Quiet(t)

BInv == OwnHands /\ QuietOnes /\ Cursors

LEMMA BlinkerParts ==
  ASSUME NEW b \in Blinker
  PROVE  /\ b[1] \in Task /\ b[2] # kTaskTimerValue
         /\ b[1] = Main => b[2] \in Box
         /\ b[1] \in Terminal => b[2] = 1 /\ b = <<b[1], 1>>
         /\ b[1] = Main \/ b[1] \in Terminal
  BY Constants DEF Blinker, Task

LEMMA ExactQuotient ==
  ASSUME NEW a \in Nat, NEW k \in Nat, k > 0, a % k = 0
  PROVE  a = k * (a \div k)
  OBVIOUS

LEMMA QuotientIsInt ==
  ASSUME NEW a \in Nat, NEW k \in Nat, k > 0
  PROVE  a \div k \in Int
  OBVIOUS

LEMMA RestOf ==
  ASSUME NEW a \in Nat, NEW k \in Nat, k > 0, NEW q \in Int, NEW r \in Int,
         0 <= r, r < k, a = k * q + r
  PROVE  a % k = r
  OBVIOUS

\* One beat later is on the beat.
LEMMA NextMultiple ==
  ASSUME NEW a \in Nat, NEW k \in Nat, k > 0, a % k = 0
  PROVE  (a + k) % k = 0
<1>1. PICK q \in Int : q = a \div k
  BY QuotientIsInt
<1>2. a = k * q
  BY <1>1, ExactQuotient
<1>3. a + k = k * (q + 1) /\ q + 1 \in Int /\ a + k \in Nat
  BY <1>1, <1>2
<1> QED
  BY <1>3, RestOf

LEMMA NextBeat ==
  ASSUME TypeOK, NEW b \in Blinker, NEW x, x.timeout \in Nat, OnBeat(x, b),
         NEW h, h.timeout = x.timeout + kBlink
  PROVE  OnBeat(h, b)
<1>1. start[b] \in Nat
  BY Constants DEF TypeOK
<1>2. PICK a \in Nat : a = x.timeout - start[b] /\ a % kBlink = 0
  BY <1>1 DEF OnBeat
<1>3. (a + kBlink) % kBlink = 0
  BY <1>2, NextMultiple, Constants
<1>4. h.timeout - start[b] = a + kBlink /\ h.timeout >= start[b]
  BY <1>1, <1>2, Constants DEF OnBeat
<1> QED
  BY <1>3, <1>4 DEF OnBeat

\* The queue, seen by b: another's timer comes or goes, ...
LEMMA QueueSame ==
  ASSUME NEW b \in Blinker, start'[b] = start[b],
         \A y \in Timer : IsFor(y, b) => timers_'[y] = timers_[y]
  PROVE  (NoneQueued(b) => NoneQueued(b)') /\ (OneQueued(b) => OneQueued(b)')
<1>1. ASSUME OneQueued(b) PROVE OneQueued(b)'
  <2>1. PICK x \in Timer : IsQueued(x, b)
    BY <1>1 DEF OneQueued
  <2>2. IsQueued(x, b)'
    BY <2>1 DEF IsQueued, OnBeat, IsFor
  <2> QED
    BY <2>2 DEF OneQueued
<1>2. NoneQueued(b) => NoneQueued(b)'
  BY DEF NoneQueued, IsFor
<1> QED
  BY <1>1, <1>2

LEMMA PushElse ==
  ASSUME TypeOK, NEW b, NEW h, ~IsFor(h, b), timers_' = Push(timers_, h) \/ timers_' = Pop(timers_, h)
  PROVE  \A y \in Timer : IsFor(y, b) => timers_'[y] = timers_[y]
  BY DEF TypeOK, Push, Pop

\* ... its own comes, ...
LEMMA PushOwn ==
  ASSUME TypeOK, NEW b \in Blinker, start'[b] = start[b], NEW h \in Timer,
         IsFor(h, b), OnBeat(h, b), NoneQueued(b), timers_' = Push(timers_, h)
  PROVE  OneQueued(b)'
<1>1. timers_[h] = 0 /\ \A y \in Timer : IsFor(y, b) => timers_[y] = 0
  BY DEF NoneQueued
<1>2. timers_'[h] = 1 /\ \A y \in Timer \ {h} : timers_'[y] = timers_[y]
  BY <1>1 DEF TypeOK, Push
<1>3. IsQueued(h, b)'
  BY <1>1, <1>2 DEF IsQueued, OnBeat, IsFor
<1> QED
  BY <1>3 DEF OneQueued

\* ... or goes.
LEMMA PopOwn ==
  ASSUME TypeOK, NEW b \in Blinker, NEW h \in Timer, IsFor(h, b), timers_[h] > 0,
         timers_' = Pop(timers_, h)
  PROVE  ~NoneQueued(b) /\ (OneQueued(b) => OnBeat(h, b) /\ NoneQueued(b)')
<1>1. ~NoneQueued(b)
  BY DEF NoneQueued, TypeOK
<1>2. ASSUME OneQueued(b) PROVE OnBeat(h, b) /\ NoneQueued(b)'
  <2>1. PICK x \in Timer : IsQueued(x, b)
    BY <1>2 DEF OneQueued
  <2>2. x = h
    BY <2>1 DEF IsQueued, TypeOK
  <2>3. timers_[h] = 1 /\ OnBeat(h, b) /\ \A y \in Timer : IsFor(y, b) /\ y # h => timers_[y] = 0
    BY <2>1, <2>2 DEF IsQueued
  <2>4. timers_'[h] = 0 /\ \A y \in Timer \ {h} : timers_'[y] = timers_[y]
    BY <2>3 DEF TypeOK, Pop
  <2> QED
    BY <2>3, <2>4 DEF NoneQueued, IsFor
<1> QED
  BY <1>1, <1>2

\* The messages, seen by b: none comes or goes, ...
LEMMA MailSame ==
  ASSUME NEW b \in Blinker, start'[b] = start[b], inbox'[b[1]] = inbox[b[1]]
  PROVE  (NonePosted(b) => NonePosted(b)') /\ (OnePosted(b) => OnePosted(b)')
  BY DEF NonePosted, OnePosted, IsPosted, IsFor, OnBeat

\* ... one comes, ...
LEMMA MailComes ==
  ASSUME TypeOK, NEW b \in Blinker, start'[b] = start[b], NEW m \in Timer,
         inbox'[b[1]] = Append(inbox[b[1]], m)
  PROVE  /\ ~IsFor(m, b) => (NonePosted(b) => NonePosted(b)') /\ (OnePosted(b) => OnePosted(b)')
         /\ IsFor(m, b) /\ OnBeat(m, b) => (NonePosted(b) => OnePosted(b)')
<1>1. PICK s \in Seq(Timer) : s = inbox[b[1]] /\ inbox'[b[1]] = Append(s, m)
  BY BlinkerParts DEF TypeOK
<1>2. PICK n \in Nat : n = Len(s)
  OBVIOUS
<1>3. /\ DOMAIN s = 1..n /\ DOMAIN Append(s, m) = 1..(n + 1) /\ Append(s, m)[n + 1] = m
      /\ \A i \in 1..n : Append(s, m)[i] = s[i]
  BY <1>2, AppendProperties
<1>4. PICK r : r = Append(s, m)
  OBVIOUS
<1>5. /\ DOMAIN s = 1..n /\ DOMAIN r = 1..(n + 1) /\ r[n + 1] = m /\ inbox'[b[1]] = r
      /\ \A i \in 1..n : r[i] = s[i]
  BY <1>1, <1>3, <1>4
<1>6. ASSUME ~IsFor(m, b), NonePosted(b) PROVE NonePosted(b)'
  <2>1. \A i \in 1..(n + 1) : ~IsFor(r[i], b)
    <3>1. \A i \in 1..n : ~IsFor(s[i], b)
      BY <1>1, <1>5, <1>6 DEF NonePosted
    <3>2. \A i \in 1..(n + 1) : i \in 1..n \/ i = n + 1
      OBVIOUS
    <3> QED
      BY <1>5, <1>6, <3>1, <3>2
  <2> QED
    BY <1>5, <2>1 DEF NonePosted, IsFor
<1>7. ASSUME ~IsFor(m, b), OnePosted(b) PROVE OnePosted(b)'
  <2>1. PICK i \in 1..n : IsPosted(i, b)
    BY <1>1, <1>5, <1>7 DEF OnePosted
  <2>2. /\ IsFor(s[i], b) /\ OnBeat(s[i], b)
        /\ \A j \in 1..n : j # i => ~IsFor(s[j], b)
    BY <1>1, <1>5, <2>1 DEF IsPosted
  <2>3. i \in 1..(n + 1) /\ i # n + 1 /\ \A j \in 1..(n + 1) : j \in 1..n \/ j = n + 1
    OBVIOUS
  <2>4. \A j \in 1..(n + 1) : j # i => ~IsFor(r[j], b)
    BY <1>5, <1>7, <2>2, <2>3
  <2>5. IsPosted(i, b)'
    BY <1>5, <2>2, <2>4 DEF IsPosted, IsFor, OnBeat
  <2> QED
    BY <1>5, <2>3, <2>5 DEF OnePosted
<1>8. ASSUME IsFor(m, b), OnBeat(m, b), NonePosted(b) PROVE OnePosted(b)'
  <2>1. \A j \in 1..n : ~IsFor(s[j], b)
    BY <1>1, <1>5, <1>8 DEF NonePosted
  <2>2. n + 1 \in 1..(n + 1) /\ \A j \in 1..(n + 1) : j # n + 1 => j \in 1..n
    OBVIOUS
  <2>3. IsPosted(n + 1, b)'
    BY <1>5, <1>8, <2>1, <2>2 DEF IsPosted, IsFor, OnBeat
  <2> QED
    BY <1>5, <2>2, <2>3 DEF OnePosted
<1> QED
  BY <1>6, <1>7, <1>8

\* ... or the first is taken.
LEMMA MailGoes ==
  ASSUME TypeOK, NEW b \in Blinker, start'[b] = start[b], inbox[b[1]] # <<>>, NEW m,
         m = Head(inbox[b[1]]), inbox'[b[1]] = Tail(inbox[b[1]])
  PROVE  /\ ~IsFor(m, b) => (NonePosted(b) => NonePosted(b)') /\ (OnePosted(b) => OnePosted(b)')
         /\ IsFor(m, b) => ~NonePosted(b) /\ (OnePosted(b) => OnBeat(m, b) /\ NonePosted(b)')
<1>1. PICK s \in Seq(Timer) : s = inbox[b[1]] /\ inbox'[b[1]] = Tail(s) /\ s # <<>>
  BY BlinkerParts DEF TypeOK
<1>2. PICK n \in Nat : n = Len(s)
  OBVIOUS
<1>3. n >= 1 /\ s[1] = m /\ Tail(s) \in Seq(Timer) /\ Len(Tail(s)) = n - 1
      /\ \A i \in 1..(n - 1) : Tail(s)[i] = s[i + 1]
  BY <1>1, <1>2, HeadTailProperties, EmptySeq
<1>4. PICK r : r = Tail(s)
  OBVIOUS
<1>5. /\ DOMAIN s = 1..n /\ DOMAIN r = 1..(n - 1) /\ s[1] = m /\ inbox'[b[1]] = r /\ n >= 1
      /\ \A i \in 1..(n - 1) : r[i] = s[i + 1]
  BY <1>1, <1>2, <1>3, <1>4
<1>6. ASSUME NonePosted(b) PROVE NonePosted(b)' /\ ~IsFor(m, b)
  <2>1. \A i \in 1..n : ~IsFor(s[i], b)
    BY <1>1, <1>5, <1>6 DEF NonePosted
  <2>2. 1 \in 1..n /\ \A i \in 1..(n - 1) : i + 1 \in 1..n
    BY <1>5
  <2>3. \A i \in 1..(n - 1) : ~IsFor(r[i], b)
    BY <1>5, <2>1, <2>2
  <2> QED
    BY <1>5, <2>1, <2>2, <2>3 DEF NonePosted, IsFor
<1>7. ASSUME ~IsFor(m, b), OnePosted(b) PROVE OnePosted(b)'
  <2>1. PICK i \in 1..n : IsPosted(i, b)
    BY <1>1, <1>5, <1>7 DEF OnePosted
  <2>2. /\ IsFor(s[i], b) /\ OnBeat(s[i], b)
        /\ \A j \in 1..n : j # i => ~IsFor(s[j], b)
    BY <1>1, <1>5, <2>1 DEF IsPosted
  <2>3. i # 1
    BY <1>5, <1>7, <2>2
  <2>4. PICK k \in 1..(n - 1) : i = k + 1
    <3>1. i - 1 \in 1..(n - 1) /\ i = (i - 1) + 1
      BY <2>3
    <3> QED
      BY <3>1
  <2>5. \A j \in 1..(n - 1) : j # k => j + 1 \in 1..n /\ j + 1 # i
    BY <2>4
  <2>6. r[k] = s[i] /\ \A j \in 1..(n - 1) : j # k => ~IsFor(r[j], b)
    BY <1>5, <2>2, <2>4, <2>5
  <2>7. IsPosted(k, b)'
    BY <1>5, <2>2, <2>6 DEF IsPosted, IsFor, OnBeat
  <2> QED
    BY <1>5, <2>7 DEF OnePosted
<1>8. ASSUME IsFor(m, b), OnePosted(b) PROVE OnBeat(m, b) /\ NonePosted(b)'
  <2>1. PICK i \in 1..n : IsPosted(i, b)
    BY <1>1, <1>5, <1>8 DEF OnePosted
  <2>2. /\ OnBeat(s[i], b) /\ \A j \in 1..n : j # i => ~IsFor(s[j], b)
    BY <1>1, <1>5, <2>1 DEF IsPosted
  <2>3. 1 \in 1..n /\ \A j \in 1..(n - 1) : j + 1 \in 1..n /\ j + 1 # 1
    BY <1>5
  <2>4. i = 1
    BY <1>5, <1>8, <2>2, <2>3
  <2>5. \A j \in 1..(n - 1) : ~IsFor(r[j], b)
    BY <1>5, <2>2, <2>3, <2>4
  <2> QED
    BY <1>5, <2>2, <2>4, <2>5 DEF NonePosted, IsFor
<1> QED
  BY <1>6, <1>7, <1>8

LEMMA HandSame ==
  ASSUME NEW b \in Blinker, start'[b] = start[b], hand'[b[1]] = hand[b[1]],
         InHand(b[1])' <=> InHand(b[1])
  PROVE  (Held(b)' <=> Held(b)) /\ (OnBeat(hand[b[1]], b) => OnBeat(hand[b[1]], b)')
  BY DEF Held, IsFor, OnBeat

\* A step in which b has no part.
LEMMA NoPart ==
  ASSUME NEW b \in Blinker, OneTimer(b), start'[b] = start[b], hand'[b[1]] = hand[b[1]],
         InHand(b[1])' <=> InHand(b[1]), inbox'[b[1]] = inbox[b[1]],
         \A y \in Timer : IsFor(y, b) => timers_'[y] = timers_[y]
  PROVE  OneTimer(b)'
<1>1. (NoneQueued(b) => NoneQueued(b)') /\ (OneQueued(b) => OneQueued(b)')
  BY QueueSame
<1>2. (NonePosted(b) => NonePosted(b)') /\ (OnePosted(b) => OnePosted(b)')
  BY MailSame
<1>3. (Held(b)' <=> Held(b)) /\ (OnBeat(hand[b[1]], b) => OnBeat(hand[b[1]], b)')
  BY HandSame
<1> QED
  BY <1>1, <1>2, <1>3 DEF OneTimer

\* A step of t, or for t, leaves the others their places, messages and timers.
Leaves(t) ==
  /\ \A u \in Task \ {t} : pc'[u] = pc[u] /\ hand'[u] = hand[u] /\ inbox'[u] = inbox[u]
  /\ \A b \in Blinker : b[1] # t => start'[b] = start[b]
  /\ \A y \in Timer : y.task_id # t => timers_'[y] = timers_[y]
  /\ ran \subseteq ran'

LEMMA OthersBlinkOn ==
  ASSUME BInv, NEW t \in Task, Leaves(t),
         pc'[t] \in {"add", "create", "blink", "push"} => hand'[t].task_id = t,
         t \in Terminal \ ran' => Quiet(t)',
         \A b \in Blinker : b[1] = t /\ t \notin ran' /\ pc'[t] # "new" => OneTimer(b)'
  PROVE  BInv'
<1>1. OwnHands'
  BY DEF BInv, OwnHands, Leaves
<1>2. ASSUME NEW u \in Terminal \ ran', u # t PROVE Quiet(u)'
  <2>1. Quiet(u) /\ u \in Task
    BY <1>2 DEF BInv, QuietOnes, Leaves, Task
  <2>2. pc'[u] = pc[u] /\ hand'[u] = hand[u] /\ inbox'[u] = inbox[u]
        /\ \A y \in Timer : y.task_id = u => timers_'[y] = timers_[y]
    BY <1>2, <2>1 DEF Leaves
  <2> QED
    BY <2>1, <2>2 DEF Quiet
<1>3. ASSUME NEW b \in Blinker, b[1] # t, b[1] \notin ran', pc'[b[1]] # "new" PROVE OneTimer(b)'
  <2>1. b[1] \in Task
    BY BlinkerParts
  <2>2. /\ pc'[b[1]] = pc[b[1]] /\ hand'[b[1]] = hand[b[1]] /\ inbox'[b[1]] = inbox[b[1]]
        /\ start'[b] = start[b] /\ b[1] \notin ran
        /\ \A y \in Timer : IsFor(y, b) => timers_'[y] = timers_[y]
    BY <1>3, <2>1 DEF Leaves, IsFor
  <2>3. OneTimer(b)
    BY <1>3, <2>2 DEF BInv, Cursors
  <2>4. InHand(b[1])' <=> InHand(b[1])
    BY <2>2 DEF InHand
  <2> QED
    BY <2>2, <2>3, <2>4, NoPart
<1> QED
  BY <1>1, <1>2, <1>3 DEF BInv, QuietOnes, Cursors

LEMMA IdleBlink ==
  ASSUME BInv, UNCHANGED <<timers_, inbox, pc, hand, start, ran>>
  PROVE  BInv'
<1>1. Leaves(Main) /\ Main \in Task /\ Main \notin Terminal
  BY Constants DEF Leaves, Task
<1>2. pc'[Main] \in {"add", "create", "blink", "push"} => hand'[Main].task_id = Main
  BY <1>1 DEF BInv, OwnHands
<1>3. ASSUME NEW b \in Blinker, b[1] = Main, Main \notin ran', pc'[Main] # "new"
      PROVE  OneTimer(b)'
  <2>1. OneTimer(b)
    BY <1>3 DEF BInv, Cursors
  <2> QED
    BY <2>1, NoPart DEF InHand
<1> QED
  BY <1>1, <1>2, <1>3, OthersBlinkOn

\* The task timer is nobody's.
LEMMA TaskTimerBlink ==
  ASSUME IInv, BInv, TaskTimer
  PROVE  BInv'
<1>1. \E x \in Timer : \E n : /\ n.value = kTaskTimerValue /\ x.value = kTaskTimerValue
                             /\ timers_' = Push(Pop(timers_, x), n)
  <2>1. TimerOf(tick_ + kTaskTimerPeriod, kTaskTimerValue, Main).value = kTaskTimerValue
    BY TimerFields
  <2> QED
    BY <2>1 DEF TaskTimer
<1>2. UNCHANGED <<inbox, pc, hand, start, ran>>
  BY DEF TaskTimer
<1>3. timers_ \in [Timer -> Nat]
  BY DEF IInv, TypeOK
<1>4. \A y \in Timer : y.value # kTaskTimerValue => timers_'[y] = timers_[y]
  BY <1>1, <1>3 DEF Push, Pop
<1>5. \A y \in Timer : y.task_id # Main => y.value # kTaskTimerValue
  BY TimerFields
<1>6. Leaves(Main) /\ Main \in Task /\ Main \notin Terminal
  BY <1>2, <1>4, <1>5, Constants DEF Leaves, Task
<1>7. pc'[Main] \in {"add", "create", "blink", "push"} => hand'[Main].task_id = Main
  BY <1>2, <1>6 DEF BInv, OwnHands
<1>8. ASSUME NEW b \in Blinker, b[1] = Main, Main \notin ran', pc'[Main] # "new"
      PROVE  OneTimer(b)'
  <2>1. OneTimer(b)
    BY <1>2, <1>8 DEF BInv, Cursors
  <2>2. \A y \in Timer : IsFor(y, b) => timers_'[y] = timers_[y]
    BY <1>4, BlinkerParts DEF IsFor
  <2>3. InHand(b[1])' <=> InHand(b[1])
    BY <1>2 DEF InHand
  <2> QED
    BY <1>2, <2>1, <2>2, <2>3, NoPart
<1> QED
  BY <1>6, <1>7, <1>8, OthersBlinkOn

\* The timer that runs out becomes the message.
LEMMA ExpireBlink ==
  ASSUME IInv, BInv, Expire
  PROVE  BInv'
<1>1. PICK x \in Timer :
        /\ Top(x)
        /\ inbox' = [inbox EXCEPT ![x.task_id] = Append(@, x)]
        /\ timers_' = Pop(timers_, x)
  BY DEF Expire
<1>2. UNCHANGED <<pc, hand, start, ran>>
  BY DEF Expire
<1>3. PICK t \in Task : t = x.task_id
  BY TimerFields
<1>4. /\ TypeOK /\ timers_ \in [Timer -> Nat] /\ inbox \in [Task -> Seq(Timer)]
      /\ timers_[x] > 0
  BY <1>1 DEF IInv, TypeOK, Top, Queued
<1>5. /\ inbox'[t] = Append(inbox[t], x) /\ \A u \in Task \ {t} : inbox'[u] = inbox[u]
      /\ \A y \in Timer \ {x} : timers_'[y] = timers_[y]
      /\ timers_'[x] = timers_[x] - 1
  BY <1>1, <1>3, <1>4 DEF Pop
<1>6. Leaves(t)
  BY <1>2, <1>3, <1>5 DEF Leaves
<1>7. pc'[t] \in {"add", "create", "blink", "push"} => hand'[t].task_id = t
  BY <1>2 DEF BInv, OwnHands
<1>8. ASSUME t \in Terminal \ ran' PROVE Quiet(t)'
  <2>1. Quiet(t)
    BY <1>2, <1>8 DEF BInv, QuietOnes
  <2>2. x.value = 1 /\ pc[t] # "new"
    BY <1>3, <1>4, <2>1 DEF Quiet
  <2>3. \A i \in DOMAIN inbox'[t] : inbox'[t][i].value = 1
    <3>1. PICK s \in Seq(Timer) : s = inbox[t]
      BY <1>4
    <3>2. /\ DOMAIN s = 1..Len(s) /\ DOMAIN Append(s, x) = 1..(Len(s) + 1) /\ Len(s) \in Nat
          /\ Append(s, x)[Len(s) + 1] = x /\ \A i \in 1..Len(s) : Append(s, x)[i] = s[i]
      BY AppendProperties
    <3>3. \A i \in 1..(Len(s) + 1) : i \in 1..Len(s) \/ i = Len(s) + 1
      BY <3>2
    <3>4. \A i \in 1..Len(s) : s[i].value = 1
      BY <2>1, <3>1, <3>2 DEF Quiet
    <3>5. inbox'[t] = Append(s, x)
      BY <1>5, <3>1
    <3> QED
      BY <2>2, <3>2, <3>3, <3>4, <3>5
  <2>4. \A y \in Timer : y.task_id = t /\ timers_'[y] > 0 => y.value = 1
    BY <1>5, <2>1, <2>2 DEF Quiet
  <2> QED
    BY <1>2, <2>1, <2>2, <2>3, <2>4 DEF Quiet
<1>9. ASSUME NEW b \in Blinker, b[1] = t, t \notin ran', pc'[t] # "new"
      PROVE  OneTimer(b)'
  <2>1. OneTimer(b)
    BY <1>2, <1>9 DEF BInv, Cursors
  <2>2. inbox'[b[1]] = Append(inbox[b[1]], x) /\ start'[b] = start[b]
    BY <1>2, <1>5, <1>9
  <2>3. (Held(b)' <=> Held(b)) /\ (OnBeat(hand[b[1]], b) => OnBeat(hand[b[1]], b)')
    BY <1>2, HandSame DEF InHand
  <2>4. CASE IsFor(x, b)
    <3>1. ~NoneQueued(b) /\ (OneQueued(b) => OnBeat(x, b) /\ NoneQueued(b)')
      BY <1>1, <1>4, <2>4, PopOwn
    <3>2. OnBeat(x, b) => (NonePosted(b) => OnePosted(b)')
      BY <1>4, <2>2, <2>4, MailComes
    <3> QED
      BY <2>1, <2>3, <3>1, <3>2 DEF OneTimer
  <2>5. CASE ~IsFor(x, b)
    <3>1. \A y \in Timer : IsFor(y, b) => timers_'[y] = timers_[y]
      BY <1>1, <1>4, <2>5, PushElse
    <3>2. (NoneQueued(b) => NoneQueued(b)') /\ (OneQueued(b) => OneQueued(b)')
      BY <2>2, <3>1, QueueSame
    <3>3. (NonePosted(b) => NonePosted(b)') /\ (OnePosted(b) => OnePosted(b)')
      BY <1>4, <2>2, <2>5, MailComes
    <3> QED
      BY <2>1, <2>3, <3>2, <3>3 DEF OneTimer
  <2> QED
    BY <2>4, <2>5
<1> QED
  BY <1>6, <1>7, <1>8, <1>9, OthersBlinkOn

LEMMA TakeBlink ==
  ASSUME IInv, BInv, NEW t \in Task, Take(t)
  PROVE  BInv'
<1>1. /\ TypeOK /\ inbox[t] \in Seq(Sent(t)) /\ inbox[t] \in Seq(Timer) /\ inbox[t] # <<>>
      /\ inbox \in [Task -> Seq(Timer)] /\ pc[t] = "loop"
      /\ pc \in [Task -> {"new", "loop", "add", "blink", "push", "app", "create"}]
      /\ hand \in [Task -> Timer]
  BY DEF IInv, TypeOK, Posted, Take
<1>2. PICK m : m = Head(inbox[t])
  OBVIOUS
<1>3. m \in Timer /\ m.timeout \in Nat /\ (t = Main => m.task_id = Main /\ m.value # kTaskTimerValue)
  <2>1. m \in Sent(t)
    BY <1>1, <1>2, HeadTailProperties
  <2> QED
    BY <2>1, TimerFields DEF Sent
<1>4. PICK h : h = TimerOf(m.timeout + kBlink, IF t = Main THEN m.value ELSE 1, t)
  OBVIOUS
<1>5. /\ h.timeout = m.timeout + kBlink /\ h.value = (IF t = Main THEN m.value ELSE 1)
      /\ h.task_id = t
  BY <1>4, TimerFields
<1>6. PICK p : p = IF t = Main THEN "add" ELSE "blink"
  OBVIOUS
<1>7. /\ pc' = [pc EXCEPT ![t] = p] /\ inbox' = [inbox EXCEPT ![t] = Tail(@)]
      /\ hand' = [hand EXCEPT ![t] = h]
      /\ UNCHANGED <<timers_, start, ran>>
  BY <1>2, <1>4, <1>6 DEF Take, Goto
<1>8. pc'[t] = p /\ hand'[t] = h /\ inbox'[t] = Tail(inbox[t]) /\ Leaves(t)
  BY <1>1, <1>7 DEF Leaves
<1>9. ASSUME t \in Terminal \ ran' PROVE Quiet(t)'
  <2>1. Quiet(t) /\ t # Main
    BY <1>7, <1>9, Constants DEF BInv, QuietOnes
  <2>2. pc'[t] = "blink" /\ hand'[t].value = 1
    BY <1>5, <1>6, <1>8, <2>1
  <2>3. \A i \in DOMAIN inbox'[t] : inbox'[t][i].value = 1
    <3>1. PICK s \in Seq(Timer) : s = inbox[t] /\ s # <<>>
      BY <1>1
    <3>2. /\ Len(s) \in Nat /\ DOMAIN s = 1..Len(s) /\ DOMAIN Tail(s) = 1..(Len(s) - 1)
          /\ \A i \in 1..(Len(s) - 1) : Tail(s)[i] = s[i + 1]
      BY <3>1, HeadTailProperties
    <3>3. \A i \in 1..(Len(s) - 1) : i + 1 \in 1..Len(s)
      BY <3>2
    <3>4. \A i \in 1..Len(s) : s[i].value = 1
      BY <2>1, <3>1, <3>2 DEF Quiet
    <3>5. inbox'[t] = Tail(s)
      BY <1>8, <3>1
    <3> QED
      BY <3>2, <3>3, <3>4, <3>5
  <2> QED
    BY <1>7, <2>1, <2>2, <2>3 DEF Quiet
<1>10. ASSUME NEW b \in Blinker, b[1] = t, t \notin ran', pc'[t] # "new"
       PROVE  OneTimer(b)'
  <2>1. OneTimer(b) /\ ~Held(b)
    BY <1>1, <1>7, <1>10 DEF BInv, Cursors, Held, InHand
  <2>2. inbox'[b[1]] = Tail(inbox[b[1]]) /\ start'[b] = start[b] /\ m = Head(inbox[b[1]])
        /\ inbox[b[1]] # <<>>
    BY <1>1, <1>2, <1>7, <1>8, <1>10
  <2>3. (NoneQueued(b) => NoneQueued(b)') /\ (OneQueued(b) => OneQueued(b)')
    BY <1>7, <2>2, QueueSame
  <2>4. IsFor(m, b) <=> IsFor(h, b)
    <3>1. CASE t = Main
      BY <1>3, <1>5, <1>10, <3>1 DEF IsFor
    <3>2. CASE t # Main
      <4>1. t \in Terminal /\ b[2] = 1 /\ Quiet(t)
        BY <1>7, <1>10, <3>2, BlinkerParts DEF Task, BInv, QuietOnes
      <4>2. m.value = 1
        <5>1. 1 \in DOMAIN inbox[t] /\ m = inbox[t][1]
          BY <1>1, <1>2, HeadTailProperties, EmptySeq
        <5> QED
          BY <4>1, <5>1 DEF Quiet
      <4>3. m.task_id = t
        <5>1. m \in Sent(t)
          BY <1>1, <1>2, HeadTailProperties
        <5> QED
          BY <5>1 DEF Sent
      <4> QED
        BY <1>5, <1>10, <3>2, <4>1, <4>2, <4>3 DEF IsFor
    <3> QED
      BY <3>1, <3>2
  <2>5. Held(b)' <=> IsFor(h, b)
    <3>1. InHand(t)'
      BY <1>6, <1>8 DEF InHand
    <3> QED
      BY <1>8, <1>10, <3>1 DEF Held, IsFor
  <2>6. CASE IsFor(m, b)
    <3>1. ~NonePosted(b) /\ (OnePosted(b) => OnBeat(m, b) /\ NonePosted(b)')
      BY <1>1, <2>2, <2>6, MailGoes
    <3>2. OnBeat(m, b) => OnBeat(h, b)
      BY <1>1, <1>3, <1>5, NextBeat
    <3>3. OnBeat(h, b) => OnBeat(hand[b[1]], b)'
      BY <1>8, <1>10, <2>2 DEF OnBeat
    <3> QED
      BY <2>1, <2>3, <2>4, <2>5, <2>6, <3>1, <3>2, <3>3 DEF OneTimer
  <2>7. CASE ~IsFor(m, b)
    <3>1. (NonePosted(b) => NonePosted(b)') /\ (OnePosted(b) => OnePosted(b)')
      BY <1>1, <2>2, <2>7, MailGoes
    <3> QED
      BY <2>1, <2>3, <2>4, <2>5, <2>7, <3>1 DEF OneTimer
  <2> QED
    BY <2>6, <2>7
<1> QED
  BY <1>5, <1>8, <1>9, <1>10, OthersBlinkOn

\* The timer in the hand goes to the queue.
LEMMA PushBlink ==
  ASSUME IInv, BInv, NEW t \in Task, NEW p \in {"loop", "app"}, Goto(t, p),
         \/ pc[t] \in {"add", "push"} /\ p = "loop"
         \/ pc[t] = "create" /\ p = "app",
         timers_' = Push(timers_, hand[t]), UNCHANGED <<inbox, hand, start, ran>>
  PROVE  BInv'
<1>1. /\ TypeOK /\ timers_ \in [Timer -> Nat] /\ hand[t] \in Timer
      /\ pc \in [Task -> {"new", "loop", "add", "blink", "push", "app", "create"}]
      /\ (t # Main => t \in Terminal) /\ (t = Main => pc[t] = "add")
  BY DEF IInv, TypeOK, Task, Hands
<1>2. PICK h \in Timer : h = hand[t]
  BY <1>1
<1>3. h.task_id = t
  BY <1>2 DEF BInv, OwnHands
<1>4. timers_' = Push(timers_, h) /\ \A y \in Timer \ {h} : timers_'[y] = timers_[y]
  BY <1>1, <1>2 DEF Push
<1>5. pc'[t] = p /\ Leaves(t)
  BY <1>1, <1>3, <1>4 DEF Leaves, Goto
<1>6. ASSUME t \in Terminal \ ran' PROVE Quiet(t)'
  <2>1. Quiet(t)
    BY <1>6 DEF BInv, QuietOnes
  <2>2. h.value = 1 /\ p = "loop"
    BY <1>2, <1>6, <2>1 DEF Quiet
  <2>3. \A y \in Timer : y.task_id = t /\ timers_'[y] > 0 => y.value = 1
    BY <1>4, <2>1, <2>2 DEF Quiet
  <2> QED
    BY <1>5, <2>1, <2>2, <2>3 DEF Quiet
<1>7. ASSUME NEW b \in Blinker, b[1] = t, t \notin ran', pc'[t] # "new"
      PROVE  OneTimer(b)'
  <2>1. OneTimer(b) /\ InHand(t) /\ ~InHand(t)'
    <3>1. pc[t] \in {"add", "push"} /\ p = "loop"
      <4>1. CASE t = Main
        BY <1>1, <4>1
      <4>2. CASE t # Main
        <5>1. Quiet(t)
          BY <1>1, <1>7, <4>2 DEF BInv, QuietOnes
        <5> QED
          BY <5>1 DEF Quiet
      <4> QED
        BY <4>1, <4>2
    <3> QED
      BY <1>5, <1>7, <3>1 DEF BInv, Cursors, InHand
  <2>2. start'[b] = start[b] /\ ~Held(b)' /\ (Held(b) <=> IsFor(h, b))
    BY <1>2, <1>7, <2>1 DEF Held
  <2>3. (NonePosted(b) => NonePosted(b)') /\ (OnePosted(b) => OnePosted(b)')
    BY <2>2, MailSame
  <2>4. CASE IsFor(h, b)
    <3>1. OnBeat(h, b) => (NoneQueued(b) => OneQueued(b)')
      BY <1>1, <1>4, <2>2, <2>4, PushOwn
    <3> QED
      BY <1>2, <1>7, <2>1, <2>2, <2>3, <2>4, <3>1 DEF OneTimer
  <2>5. CASE ~IsFor(h, b)
    <3>1. \A y \in Timer : IsFor(y, b) => timers_'[y] = timers_[y]
      BY <1>1, <1>4, <2>5, PushElse
    <3>2. (NoneQueued(b) => NoneQueued(b)') /\ (OneQueued(b) => OneQueued(b)')
      BY <2>2, <3>1, QueueSame
    <3> QED
      BY <2>1, <2>2, <2>3, <2>5, <3>2 DEF OneTimer
  <2> QED
    BY <2>4, <2>5
<1> QED
  BY <1>5, <1>6, <1>7, OthersBlinkOn

\* The first timer of a terminal's cursor.
LEMMA StartBlink ==
  ASSUME IInv, BInv, NEW t \in Terminal, Start(t)
  PROVE  BInv'
<1>1. /\ TypeOK /\ tick_ \in Nat /\ t \in Task /\ hand \in [Task -> Timer] /\ pc[t] = "new"
      /\ pc \in [Task -> {"new", "loop", "add", "blink", "push", "app", "create"}]
      /\ start \in [Blinker -> 0..MaxTick] /\ t # Main
  BY Constants DEF IInv, TypeOK, Task, Start
<1>2. PICK h : h = TimerOf(tick_ + kBlink, 1, t)
  OBVIOUS
<1>3. h.timeout = tick_ + kBlink /\ h.value = 1 /\ h.task_id = t
  BY <1>2, TimerFields
<1>4. /\ pc' = [pc EXCEPT ![t] = "blink"] /\ hand' = [hand EXCEPT ![t] = h]
      /\ start' = [start EXCEPT ![<<t, 1>>] = tick_]
      /\ UNCHANGED <<timers_, inbox, ran>>
  BY <1>2 DEF Start, Goto
<1>5. pc'[t] = "blink" /\ hand'[t] = h /\ Leaves(t)
  BY <1>1, <1>4 DEF Leaves
<1>6. ASSUME t \in Terminal \ ran' PROVE Quiet(t)'
  BY <1>3, <1>4, <1>5, <1>6 DEF BInv, QuietOnes, Quiet
<1>7. ASSUME NEW b \in Blinker, b[1] = t, t \notin ran' PROVE OneTimer(b)'
  <2>1. b = <<t, 1>> /\ b[2] = 1 /\ start'[b] = tick_
    <3>1. b = <<t, 1>> /\ b[2] = 1
      BY <1>7, BlinkerParts
    <3> QED
      BY <1>1, <1>4, <3>1
  <2>2. Quiet(t)
    BY <1>4, <1>7 DEF BInv, QuietOnes
  <2>3. Held(b)'
    BY <1>3, <1>5, <1>7, <2>1 DEF Held, InHand, IsFor
  <2>4. OnBeat(hand[b[1]], b)'
    <3>1. h.timeout - tick_ = 0 + kBlink /\ h.timeout >= tick_
      BY <1>1, <1>3, Constants
    <3>2. kBlink % kBlink = 0
      BY Constants, RestOf
    <3>3. (h.timeout - tick_) % kBlink = 0
      BY <3>1, <3>2, Constants
    <3> QED
      BY <1>5, <1>7, <2>1, <3>1, <3>3 DEF OnBeat
  <2>5. NoneQueued(b)'
    BY <1>1, <1>4, <1>7, <2>2 DEF Quiet, NoneQueued, IsFor
  <2>6. NonePosted(b)'
    BY <1>1, <1>4, <1>7, <2>2 DEF Quiet, NonePosted
  <2> QED
    BY <2>3, <2>4, <2>5, <2>6 DEF OneTimer
<1>8. pc'[t] \in {"add", "create", "blink", "push"} => hand'[t].task_id = t
  BY <1>3, <1>5
<1> QED
  BY <1>1, <1>5, <1>6, <1>7, <1>8, OthersBlinkOn

\* A terminal begins its push with the timer in its hand.
LEMMA BeginPushBlink ==
  ASSUME IInv, BInv, NEW t \in Terminal, BeginPush(t)
  PROVE  BInv'
<1>1. /\ t \in Task /\ pc[t] = "blink"
      /\ pc \in [Task -> {"new", "loop", "add", "blink", "push", "app", "create"}]
  BY DEF IInv, TypeOK, Task, BeginPush
<1>2. /\ pc' = [pc EXCEPT ![t] = "push"] /\ UNCHANGED <<timers_, inbox, hand, start, ran>>
  BY DEF BeginPush, Goto
<1>3. pc'[t] = "push" /\ Leaves(t)
  BY <1>1, <1>2 DEF Leaves
<1>4. pc'[t] \in {"add", "create", "blink", "push"} => hand'[t].task_id = t
  BY <1>1, <1>2 DEF BInv, OwnHands
<1>5. ASSUME t \in Terminal \ ran' PROVE Quiet(t)'
  BY <1>1, <1>2, <1>3, <1>5 DEF BInv, QuietOnes, Quiet
<1>6. ASSUME NEW b \in Blinker, b[1] = t, t \notin ran' PROVE OneTimer(b)'
  <2>1. OneTimer(b)
    BY <1>1, <1>2, <1>6 DEF BInv, Cursors
  <2>2. InHand(b[1])' <=> InHand(b[1])
    BY <1>1, <1>3, <1>6 DEF InHand
  <2> QED
    BY <1>2, <2>1, <2>2, NoPart
<1> QED
  BY <1>1, <1>3, <1>4, <1>5, <1>6, OthersBlinkOn

\* The timer that CreateTimer makes is its task's.
LEMMA NewTimer ==
  ASSUME NEW t, CreateTimer(t)
  PROVE  \E h : h.task_id = t /\ hand' = [hand EXCEPT ![t] = h]
<1>1. PICK v \in AppValue, ms \in Millis, relative \in BOOLEAN :
        LET a == (ms * kTimerFreq) \div 1000 + (IF relative THEN tick_ ELSE 0)
        IN a \in Time /\ hand' = [hand EXCEPT ![t] = TimerOf(a, -v, t)]
  BY DEF CreateTimer
<1>2. PICK a : a = (ms * kTimerFreq) \div 1000 + (IF relative THEN tick_ ELSE 0)
  OBVIOUS
<1>3. PICK h : h = TimerOf(a, -v, t)
  OBVIOUS
<1>4. h.task_id = t
  BY <1>3, TimerFields
<1>5. hand' = [hand EXCEPT ![t] = h]
  BY <1>1, <1>2, <1>3
<1> QED
  BY <1>4, <1>5

\* Steps of the terminals that run applications.
LEMMA AppBlink ==
  ASSUME IInv, BInv, NEW t \in Task,
         RunApp(t) \/ EndApp(t) \/ CreateTimer(t) \/ ReadEvent(t)
  PROVE  BInv'
<1>1. /\ TypeOK /\ (t # Main => t \in Terminal) /\ hand \in [Task -> Timer]
      /\ pc \in [Task -> {"new", "loop", "add", "blink", "push", "app", "create"}]
      /\ inbox \in [Task -> Seq(Timer)]
      /\ pc[Main] \in {"loop", "add"} /\ Main \notin Terminal
  BY Constants DEF IInv, TypeOK, Task, Hands
<1>2. t # Main /\ t \in ran'
  <2>1. CASE RunApp(t)
    BY <2>1 DEF RunApp
  <2>2. CASE pc[t] = "app" /\ ran' = ran
    <3>1. t \in Terminal
      BY <1>1, <2>2
    <3>2. t \in ran
      BY <2>2, <3>1 DEF BInv, QuietOnes, Quiet
    <3> QED
      BY <1>1, <2>2, <3>1, <3>2
  <2> QED
    BY <2>1, <2>2 DEF EndApp, CreateTimer, ReadEvent
<1>3. Leaves(t)
  <2>1. CASE RunApp(t)
    BY <1>1, <2>1 DEF Leaves, RunApp, Goto
  <2>2. CASE EndApp(t)
    BY <1>1, <2>2 DEF Leaves, EndApp, Goto
  <2>3. CASE CreateTimer(t)
    <3>1. PICK h : hand' = [hand EXCEPT ![t] = h]
      BY <2>3, NewTimer
    <3>2. pc' = [pc EXCEPT ![t] = "create"] /\ UNCHANGED <<timers_, inbox, start, ran>>
      BY <2>3 DEF CreateTimer, Goto
    <3> QED
      BY <1>1, <3>1, <3>2 DEF Leaves
  <2>4. CASE ReadEvent(t)
    BY <1>1, <2>4 DEF Leaves, ReadEvent
  <2> QED
    BY <2>1, <2>2, <2>3, <2>4
<1>4. pc'[t] \in {"add", "create", "blink", "push"} => hand'[t].task_id = t
  <2>1. CASE RunApp(t) \/ EndApp(t)
    BY <1>1, <2>1 DEF RunApp, EndApp, Goto
  <2>2. CASE CreateTimer(t)
    <3>1. PICK h : h.task_id = t /\ hand' = [hand EXCEPT ![t] = h]
      BY <2>2, NewTimer
    <3> QED
      BY <1>1, <3>1
  <2>3. CASE ReadEvent(t)
    BY <2>3 DEF ReadEvent
  <2> QED
    BY <2>1, <2>2, <2>3
<1> QED
  BY <1>2, <1>3, <1>4, OthersBlinkOn

LEMMA TaskStepBlinks ==
  ASSUME IInv, BInv, NEW t \in Task, TaskStep(t)
  PROVE  BInv'
<1>1. /\ (t # Main => t \in Terminal) /\ Main \notin Terminal /\ pc[Main] \in {"loop", "add"}
      /\ pc \in [Task -> {"new", "loop", "add", "blink", "push", "app", "create"}]
  BY Constants DEF IInv, TypeOK, Task, Hands
<1>2. CASE Take(t)
  BY <1>2, TakeBlink
<1>3. CASE AddTimer(t)
  <2>1. CASE pc[t] = "add"
    BY <1>3, <2>1, PushBlink DEF AddTimer
  <2>2. CASE pc[t] = "create"
    BY <1>3, <2>2, PushBlink DEF AddTimer
  <2> QED
    BY <1>3, <2>1, <2>2 DEF AddTimer
<1>4. CASE t \in Terminal /\ EndPush(t)
  BY <1>4, PushBlink DEF EndPush
<1>5. CASE t \in Terminal /\ Start(t)
  BY <1>5, StartBlink
<1>6. CASE t \in Terminal /\ BeginPush(t)
  BY <1>6, BeginPushBlink
<1>7. CASE RunApp(t) \/ EndApp(t) \/ CreateTimer(t) \/ ReadEvent(t)
  BY <1>7, AppBlink
<1> QED
  BY <1>2, <1>3, <1>4, <1>5, <1>6, <1>7 DEF TaskStep

LEMMA BlinkInit == Init => BInv
<1> SUFFICES ASSUME Init PROVE BInv
  OBVIOUS
<1>1. /\ pc = [t \in Task |-> IF t = Main THEN "loop" ELSE "new"]
      /\ inbox = [t \in Task |-> <<>>] /\ start = [b \in Blinker |-> 0]
      /\ Main \notin Terminal /\ Terminal \subseteq Task /\ Main \in Task
  BY Constants DEF Init, Task
<1>2. OwnHands
  BY <1>1 DEF OwnHands
<1>3. \A x \in Timer : x.task_id # Main => timers_[x] = 0
  BY TimerFields DEF Init
<1>4. QuietOnes
  BY <1>1, <1>3 DEF QuietOnes, Quiet
<1>5. ASSUME NEW b \in Blinker, b[1] \notin ran, pc[b[1]] # "new" PROVE OneTimer(b)
  <2>1. b[1] = Main /\ b[2] \in Box /\ b[2] # kTaskTimerValue
    BY <1>1, <1>5, BlinkerParts
  <2>2. ~Held(b) /\ NonePosted(b)
    BY <1>1, <2>1 DEF Held, InHand, NonePosted
  <2>3. PICK x : x = TimerOf(kBlink, b[2], Main)
    OBVIOUS
  <2>4. kBlink \in Time
    BY Constants DEF Time
  <2>5. x \in Timer /\ x.timeout = kBlink /\ x.value = b[2] /\ x.task_id = Main
    BY <2>1, <2>3, <2>4, TimerFields
  <2>6. timers_[x] = 1
    BY <2>1, <2>3, <2>5 DEF Init
  <2>7. ASSUME NEW y \in Timer, IsFor(y, b), y # x PROVE timers_[y] = 0
    <3>1. y.value = b[2]
      BY <2>7 DEF IsFor
    <3>2. y # TimerOf(kTaskTimerPeriod, kTaskTimerValue, Main)
      BY <2>1, <3>1, TimerFields
    <3>3. \A c \in Box : y = TimerOf(kBlink, c, Main) => c = b[2]
      BY <3>1, TimerFields
    <3>4. ~\E c \in Box : y = TimerOf(kBlink, c, Main)
      BY <2>3, <2>7, <3>3
    <3> QED
      BY <3>2, <3>4 DEF Init
  <2>8. OnBeat(x, b)
    <3>1. kBlink % kBlink = 0 /\ start[b] = 0
      BY <1>1, Constants, RestOf
    <3> QED
      BY <2>5, <3>1, Constants DEF OnBeat
  <2>9. IsQueued(x, b)
    BY <2>1, <2>5, <2>6, <2>7, <2>8 DEF IsQueued, IsFor
  <2> QED
    BY <2>2, <2>5, <2>9 DEF OneTimer, OneQueued
<1> QED
  BY <1>2, <1>4, <1>5 DEF BInv, Cursors

LEMMA BlinkInvariant == Spec => []BInv
<1>1. ASSUME IInv, BInv, [Next]_vars PROVE BInv'
  <2>1. CASE UNCHANGED vars
    BY <1>1, <2>1, IdleBlink DEF vars
  <2>2. CASE Tick \/ TickEnd
    BY <1>1, <2>2, IdleBlink DEF Tick, TickEnd
  <2> QED
    BY <1>1, <2>1, <2>2, TaskTimerBlink, ExpireBlink, TaskStepBlinks DEF Next
<1> QED
  BY <1>1, BlinkInit, Invariant, PTL DEF Spec

-----------------------------------------------------------------------------
(* Theorems *)

\* The queue, the mailboxes and the hands of the tasks keep their types: every
\* timer that is added is one that its task may set (timer.cpp:53-96).
THEOREM TypeCorrect == Spec => []TypeOK
<1>1. IInv => TypeOK
  BY DEF IInv
<1> QED
  BY <1>1, Invariant, PTL

\* There is always one task timer, due within a period, and the interrupt asks
\* for a switch in the ticks that set it (timer.cpp:67-71).
THEOREM PreemptsOnTimeCorrect == Spec => []PreemptsOnTime
<1>1. IInv => PreemptsOnTime
  <2> SUFFICES ASSUME IInv PROVE PreemptsOnTime
    OBVIOUS
  <2>1. PICK x \in Timer : TheTaskTimer(x)
    BY DEF IInv, OneTaskTimer
  <2> QED
    BY <2>1 DEF TheTaskTimer, PreemptsOnTime
<1> QED
  BY <1>1, Invariant, PTL

\* The timer of each cursor that is in use is always in one place, in the queue,
\* in a message or in the hands of its task, and always on the beat that began
\* when the cursor did, however late its task is (terminal.cpp:874-877,
\* cursored_textbox.cpp:46-50).
THEOREM OneBlinkCorrect == Spec => []OneBlink
<1>1. ASSUME IInv, BInv, NEW b \in Blinker, b[1] \notin ran, pc[b[1]] # "new"
      PROVE  /\ \A x \in Waiting(b) : timers_[x] = 1 /\ OnBeat(x, b)
             /\ \A i \in Messages(b) : OnBeat(inbox[b[1]][i], b)
             /\ Held(b) => OnBeat(hand[b[1]], b)
             /\ \/ /\ Held(b) /\ Waiting(b) = {} /\ Messages(b) = {}
                \/ /\ ~Held(b) /\ Messages(b) = {} /\ \E x \in Waiting(b) : Waiting(b) = {x}
                \/ /\ ~Held(b) /\ Waiting(b) = {} /\ \E i \in Messages(b) : Messages(b) = {i}
  <2>1. OneTimer(b) /\ timers_ \in [Timer -> Nat]
    BY <1>1 DEF BInv, Cursors, IInv, TypeOK
  <2>2. NoneQueued(b) => Waiting(b) = {}
    BY <2>1 DEF NoneQueued, Waiting, Queued
  <2>3. NonePosted(b) => Messages(b) = {}
    BY DEF NonePosted, Messages
  <2>4. OneQueued(b) => \E x \in Waiting(b) :
                           Waiting(b) = {x} /\ timers_[x] = 1 /\ OnBeat(x, b)
    <3>1. SUFFICES ASSUME NEW x \in Timer, IsQueued(x, b)
                   PROVE  x \in Waiting(b) /\ Waiting(b) = {x} /\ timers_[x] = 1 /\ OnBeat(x, b)
      BY DEF OneQueued
    <3> QED
      BY <2>1, <3>1 DEF IsQueued, Waiting, Queued
  <2>5. OnePosted(b) => \E i \in Messages(b) : Messages(b) = {i} /\ OnBeat(inbox[b[1]][i], b)
    BY DEF OnePosted, IsPosted, Messages
  <2> HIDE DEF Waiting, Messages, Held, OnBeat, NoneQueued, NonePosted, OneQueued, OnePosted
  <2>6. CASE Held(b) /\ OnBeat(hand[b[1]], b) /\ NoneQueued(b) /\ NonePosted(b)
    BY <2>2, <2>3, <2>6
  <2>7. CASE ~Held(b) /\ OneQueued(b) /\ NonePosted(b)
    BY <2>3, <2>4, <2>7
  <2>8. CASE ~Held(b) /\ NoneQueued(b) /\ OnePosted(b)
    BY <2>2, <2>5, <2>8
  <2> QED
    BY <2>1, <2>6, <2>7, <2>8 DEF OneTimer
<1>2. IInv /\ BInv => OneBlink
  BY <1>1 DEF OneBlink
<1> QED
  BY <1>2, Invariant, BlinkInvariant, PTL
=============================================================================

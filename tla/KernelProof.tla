----------------------------- MODULE KernelProof -----------------------------
(***************************************************************************)
(* Proofs about TaskManager and Kernel, for every number of tasks and of   *)
(* levels.  The first half is about the task manager whatever levels its   *)
(* callers give; the second shows that the tasks of the kernel use it as   *)
(* it demands, so that the first holds of them, and that they lose no      *)
(* message.                                                                *)
(***************************************************************************)
EXTENDS Kernel, SequenceTheorems, WellFoundedInduction, TLAPS

-----------------------------------------------------------------------------
(* What the operations of a run queue do to the set of the tasks in it.  They *)
(* keep each of them in it once.                                              *)

LEMMA Indices ==
  ASSUME NEW S, NEW q \in Seq(S)
  PROVE  /\ Len(q) \in Nat
         /\ DOMAIN q = 1..Len(q)
         /\ Range(q) = { q[i] : i \in 1..Len(q) }
         /\ IsInjective(q) <=> \A i, j \in 1..Len(q) : q[i] = q[j] => i = j
  BY LenProperties, RangeEquality DEF IsInjective

\* A set of numbers that are at most n has a greatest one.
LEMMA Greatest ==
  ASSUME NEW n \in Nat, NEW T \in SUBSET (0..n), T # {}
  PROVE  \E x \in T : \A y \in T : y <= x
<1> DEFINE R == OpToRel(<, Nat)
           D == { d \in Nat : n - d \in T }
<1>1. D \subseteq Nat /\ D # {}
  <2>1. PICK x \in T : TRUE
    OBVIOUS
  <2>2. n - x \in Nat /\ n - (n - x) = x
    BY <2>1
  <2>3. n - x \in D
    BY <2>1, <2>2
  <2> QED
    BY <2>3
<1>2. IsWellFoundedOn(R, Nat)
  BY NatLessThanWellFounded
<1> HIDE DEF R
<1>3. PICK d \in D : \A e \in D : ~(<<e, d>> \in R)
  <2> HIDE DEF D
  <2> QED
    BY <1>1, <1>2, WFMin
<1>4. \A a, b \in Nat : a < b => <<a, b>> \in R
  BY SMT DEF R, OpToRel
<1>5. ASSUME NEW y \in T
      PROVE  y <= n - d
  <2>1. n - y \in D
    OBVIOUS
  <2>2. ~(n - y < d)
    BY <1>3, <1>4, <2>1
  <2> QED
    BY <2>2
<1> QED
  BY <1>3, <1>5

\* push_back
LEMMA PushBack ==
  ASSUME NEW S, NEW q \in Seq(S), NEW e \in S, IsInjective(q), e \notin Range(q)
  PROVE  /\ Append(q, e) \in Seq(S)
         /\ Append(q, e) # <<>>
         /\ Range(Append(q, e)) = Range(q) \cup {e}
         /\ IsInjective(Append(q, e))
<1>1. /\ Append(q, e) \in Seq(S) /\ Append(q, e) # <<>>
      /\ Len(Append(q, e)) = Len(q) + 1
      /\ \A i \in 1..Len(q) : Append(q, e)[i] = q[i]
      /\ Append(q, e)[Len(q) + 1] = e
  BY AppendProperties
<1>2. Range(q) = { q[i] : i \in 1..Len(q) }
  BY Indices
<1>3. Range(Append(q, e)) = { Append(q, e)[i] : i \in 1..Len(Append(q, e)) }
  BY <1>1, RangeEquality
<1>4. Len(q) \in Nat
  BY LenProperties
<1>5. Range(Append(q, e)) = Range(q) \cup {e}
  <2>1. \A i \in 1..Len(q) : i \in 1..(Len(q) + 1)
    BY <1>4
  <2>2. \A i \in 1..(Len(q) + 1) : i \in 1..Len(q) \/ i = Len(q) + 1
    BY <1>4
  <2>3. Len(q) + 1 \in 1..(Len(q) + 1)
    BY <1>4
  <2> QED
    BY <1>1, <1>2, <1>3, <2>1, <2>2, <2>3
<1>6. IsInjective(Append(q, e))
  <2>1. \A i, j \in 1..Len(q) : q[i] = q[j] => i = j
    BY Indices
  <2>2. \A i \in 1..Len(q) : q[i] # e
    BY <1>2
  <2>3. \A i \in 1..(Len(q) + 1) : i \in 1..Len(q) \/ i = Len(q) + 1
    BY <1>4
  <2>4. \A i, j \in 1..(Len(q) + 1) : Append(q, e)[i] = Append(q, e)[j] => i = j
    BY <1>1, <2>1, <2>2, <2>3
  <2> QED
    BY <1>1, <2>4, Indices
<1> QED
  BY <1>1, <1>5, <1>6

\* pop_front
LEMMA PopFront ==
  ASSUME NEW S, NEW q \in Seq(S), q # <<>>, IsInjective(q)
  PROVE  /\ Head(q) \in Range(q)
         /\ Head(q) \in S
         /\ Tail(q) \in Seq(S)
         /\ Range(Tail(q)) = Range(q) \ {Head(q)}
         /\ IsInjective(Tail(q))
<1>1. /\ Tail(q) \in Seq(S) /\ Head(q) \in S /\ Head(q) = q[1]
      /\ Len(q) \in Nat /\ Len(q) >= 1 /\ Len(Tail(q)) = Len(q) - 1
      /\ \A i \in 1..(Len(q) - 1) : Tail(q)[i] = q[i + 1]
  BY SMT
<1>2. Range(q) = { q[i] : i \in 1..Len(q) }
  BY Indices
<1>3. Range(Tail(q)) = { Tail(q)[i] : i \in 1..Len(Tail(q)) }
  BY <1>1, RangeEquality
<1>4. \A i, j \in 1..Len(q) : q[i] = q[j] => i = j
  BY Indices
<1>5. ASSUME NEW x \in Range(q), x # Head(q)
      PROVE  x \in Range(Tail(q))
  <2>1. PICK i \in 1..Len(q) : q[i] = x
    BY <1>2
  <2>2. i # 1 /\ i - 1 \in 1..Len(Tail(q)) /\ Tail(q)[i - 1] = x
    BY <1>1, <1>5, <2>1
  <2> QED
    BY <1>3, <2>2
<1>6. ASSUME NEW x \in Range(Tail(q))
      PROVE  x \in Range(q) /\ x # Head(q)
  <2>1. PICK i \in 1..Len(Tail(q)) : Tail(q)[i] = x
    BY <1>3
  <2>2. i + 1 \in 1..Len(q) /\ q[i + 1] = x /\ i + 1 # 1 /\ 1 \in 1..Len(q)
    BY <1>1, <2>1
  <2> QED
    BY <1>1, <1>2, <1>4, <2>2
<1>7. IsInjective(Tail(q))
  <2>1. \A i, j \in 1..Len(Tail(q)) : Tail(q)[i] = Tail(q)[j] => i = j
    BY <1>1, <1>4
  <2> QED
    BY <1>1, <2>1, Indices
<1> QED
  BY <1>1, <1>2, <1>5, <1>6, <1>7

\* push_front
LEMMA PushFront ==
  ASSUME NEW S, NEW q \in Seq(S), NEW e \in S, IsInjective(q), e \notin Range(q)
  PROVE  /\ <<e>> \o q \in Seq(S)
         /\ <<e>> \o q # <<>>
         /\ Head(<<e>> \o q) = e
         /\ Range(<<e>> \o q) = Range(q) \cup {e}
         /\ IsInjective(<<e>> \o q)
<1> DEFINE r == <<e>> \o q
<1>1. /\ r \in Seq(S) /\ Len(q) \in Nat /\ Len(r) = Len(q) + 1
      /\ r[1] = e /\ \A i \in 1..Len(q) : r[i + 1] = q[i]
  BY SMT
<1> HIDE DEF r
<1>2. \A i \in 1..Len(r) : i = 1 \/ (i - 1 \in 1..Len(q) /\ r[i] = q[i - 1])
  BY <1>1
<1>3. /\ Range(q) = { q[i] : i \in 1..Len(q) }
      /\ Range(r) = { r[i] : i \in 1..Len(r) }
  BY <1>1, Indices
<1>4. Range(r) = Range(q) \cup {e}
  <2>1. Range(r) \subseteq Range(q) \cup {e}
    BY <1>1, <1>2, <1>3
  <2>2. ASSUME NEW i \in 1..Len(q)
        PROVE  q[i] \in Range(r)
    <3>1. i + 1 \in 1..Len(r) /\ r[i + 1] = q[i]
      BY <1>1
    <3> QED
      BY <1>3, <3>1
  <2>3. e \in Range(r)
    BY <1>1, <1>3
  <2> QED
    BY <1>3, <2>1, <2>2, <2>3
<1>5. IsInjective(r)
  <2>1. \A i, j \in 1..Len(q) : q[i] = q[j] => i = j
    BY Indices
  <2>2. \A i \in 1..Len(q) : q[i] # e
    BY <1>3
  <2>3. ASSUME NEW i \in 1..Len(r), NEW j \in 1..Len(r), r[i] = r[j]
        PROVE  i = j
    <3>1. CASE i = 1 \/ j = 1
      BY <1>1, <1>2, <2>2, <2>3, <3>1
    <3>2. CASE i # 1 /\ j # 1
      <4>1. i - 1 = j - 1
        BY <1>2, <2>1, <2>3, <3>2
      <4> QED
        BY <1>1, <4>1
    <3> QED
      BY <3>1, <3>2
  <2> QED
    BY <1>1, <2>3, Indices
<1>6. r # <<>> /\ Head(r) = e
  BY <1>1
<1> QED
  BY <1>1, <1>4, <1>5, <1>6 DEF r

\* The sequence without the element in place k
LEMMA Cut ==
  ASSUME NEW S, NEW q \in Seq(S), NEW k \in 1..Len(q)
  PROVE  LET r == SubSeq(q, 1, k - 1) \o SubSeq(q, k + 1, Len(q))
         IN /\ r \in Seq(S) /\ Len(r) = Len(q) - 1
            /\ \A i \in 1..(Len(q) - 1) : r[i] = IF i < k THEN q[i] ELSE q[i + 1]
<1> DEFINE a == SubSeq(q, 1, k - 1)
           b == SubSeq(q, k + 1, Len(q))
           r == a \o b
           n == Len(q)
<1>0. n \in Nat /\ k \in Nat /\ k >= 1 /\ k <= n
  BY Indices
<1>1. \A i \in 1..n : q[i] \in S
  BY ElementOfSeq
<1>2. a \in Seq(S) /\ Len(a) = k - 1 /\ \A i \in 1..(k - 1) : a[i] = q[i]
  <2>1. k - 1 \in Int /\ 1 \in Int /\ \A i \in 1..(k - 1) : q[i] \in S
    BY <1>0, <1>1
  <2>2. /\ a \in Seq(S)
        /\ Len(a) = IF 1 <= k - 1 THEN (k - 1) - 1 + 1 ELSE 0
        /\ \A i \in 1..((k - 1) - 1 + 1) : a[i] = q[1 + i - 1]
    BY <2>1, SubSeqProperties
  <2> QED
    BY <1>0, <2>2
<1>3. b \in Seq(S) /\ Len(b) = n - k /\ \A i \in 1..(n - k) : b[i] = q[k + i]
  <2>1. k + 1 \in Int /\ n \in Int /\ \A i \in (k + 1)..n : q[i] \in S
    BY <1>0, <1>1
  <2>2. /\ b \in Seq(S)
        /\ Len(b) = IF k + 1 <= n THEN n - (k + 1) + 1 ELSE 0
        /\ \A i \in 1..(n - (k + 1) + 1) : b[i] = q[(k + 1) + i - 1]
    BY <2>1, SubSeqProperties
  <2> QED
    BY <1>0, <2>2
<1> HIDE DEF a, b
<1>4. /\ r \in Seq(S) /\ Len(r) = n - 1
      /\ \A i \in 1..(n - 1) : r[i] = IF i < k THEN q[i] ELSE q[i + 1]
  <2>1. /\ r \in Seq(S) /\ Len(r) = Len(a) + Len(b)
        /\ \A i \in 1..(Len(a) + Len(b)) :
              r[i] = IF i <= Len(a) THEN a[i] ELSE b[i - Len(a)]
    BY <1>2, <1>3, ConcatProperties
  <2>2. Len(r) = n - 1
    BY <1>0, <1>2, <1>3, <2>1
  <2>3. ASSUME NEW i \in 1..(n - 1)
        PROVE  r[i] = IF i < k THEN q[i] ELSE q[i + 1]
    <3>1. CASE i < k
      BY <1>0, <1>2, <1>3, <2>1, <2>2, <3>1
    <3>2. CASE ~(i < k)
      <4>1. i - (k - 1) \in 1..(n - k) /\ k + (i - (k - 1)) = i + 1
        BY <1>0, <3>2
      <4>2. ~(i <= Len(a)) /\ i - Len(a) = i - (k - 1) /\ i \in 1..(Len(a) + Len(b))
        BY <1>0, <1>2, <1>3, <3>2
      <4>3. r[i] = b[i - (k - 1)]
        BY <2>1, <4>2
      <4>4. b[i - (k - 1)] = q[k + (i - (k - 1))]
        BY <1>3, <4>1
      <4> QED
        BY <3>2, <4>1, <4>3, <4>4
    <3> QED
      BY <3>1, <3>2
  <2> QED
    BY <2>1, <2>2, <2>3
<1> QED
  BY <1>4 DEF r, a, b

\* The removal of the element in place k
LEMMA RemoveOne ==
  ASSUME NEW S, NEW q \in Seq(S), NEW k \in 1..Len(q), IsInjective(q)
  PROVE  LET r == SubSeq(q, 1, k - 1) \o SubSeq(q, k + 1, Len(q))
         IN /\ r \in Seq(S)
            /\ Range(r) = Range(q) \ {q[k]}
            /\ IsInjective(r)
            /\ k # 1 => r # <<>> /\ Head(r) = Head(q)
<1> DEFINE r == SubSeq(q, 1, k - 1) \o SubSeq(q, k + 1, Len(q))
           n == Len(q)
<1>0. n \in Nat /\ k \in Nat /\ k >= 1 /\ k <= n
  BY Indices
<1>1. /\ r \in Seq(S) /\ Len(r) = n - 1
      /\ \A i \in 1..(n - 1) : r[i] = IF i < k THEN q[i] ELSE q[i + 1]
  BY Cut
<1> HIDE DEF r
<1>2. /\ Range(q) = { q[i] : i \in 1..n }
      /\ Range(r) = { r[i] : i \in 1..(n - 1) }
      /\ \A i, j \in 1..n : q[i] = q[j] => i = j
  BY <1>1, Indices
<1>3. Range(r) = Range(q) \ {q[k]}
  <2>1. ASSUME NEW i \in 1..(n - 1)
        PROVE  r[i] \in Range(q) \ {q[k]}
    <3>1. /\ i \in 1..n /\ i + 1 \in 1..n
          /\ i < k => i # k
          /\ ~(i < k) => i + 1 # k
      BY <1>0
    <3> QED
      BY <1>0, <1>1, <1>2, <3>1
  <2>2. ASSUME NEW i \in 1..n, q[i] # q[k]
        PROVE  q[i] \in Range(r)
    <3>1. CASE i < k
      <4>1. i \in 1..(n - 1) /\ r[i] = q[i]
        BY <1>0, <1>1, <3>1
      <4> QED
        BY <1>2, <4>1
    <3>2. CASE ~(i < k)
      <4>1. i - 1 \in 1..(n - 1) /\ ~(i - 1 < k) /\ (i - 1) + 1 = i
        BY <1>0, <2>2, <3>2
      <4>2. r[i - 1] = q[i]
        BY <1>1, <4>1
      <4> QED
        BY <1>2, <4>1, <4>2
    <3> QED
      BY <3>1, <3>2
  <2>3. Range(r) \subseteq Range(q) \ {q[k]}
    BY <1>2, <2>1
  <2>4. Range(q) \ {q[k]} \subseteq Range(r)
    BY <1>2, <2>2
  <2> QED
    BY <2>3, <2>4
<1>4. IsInjective(r)
  <2>1. ASSUME NEW i \in 1..(n - 1), NEW j \in 1..(n - 1), r[i] = r[j]
        PROVE  i = j
    <3>1. i \in 1..n /\ i + 1 \in 1..n /\ j \in 1..n /\ j + 1 \in 1..n
      BY <1>0
    <3> QED
      BY <1>0, <1>1, <1>2, <2>1, <3>1
  <2> QED
    BY <1>1, <2>1, Indices
<1>5. k # 1 => r # <<>> /\ Head(r) = Head(q)
  BY <1>0, <1>1
<1> QED
  BY <1>1, <1>3, <1>4, <1>5 DEF r

-----------------------------------------------------------------------------
(* The task manager *)

\* What the assumptions on the constants say of the sets made from them.
LEMMA ConstantFacts ==
  /\ MainTask \in TaskId /\ IdleTask \in TaskId /\ MainTask # IdleTask
  /\ 0 \in Level /\ kMaxLevel \in Level /\ kDefaultLevel \in Level /\ kMaxLevel # 0
  /\ Level \subseteq Nat
  BY BoundsAssumption, LevelAssumption DEF MainTask, IdleTask, TaskId, Level

\* Erase takes the task out of the queue and leaves the others there.
LEMMA EraseFacts ==
  ASSUME NEW q \in Seq(TaskId), NEW p \in TaskId, IsInjective(q)
  PROVE  /\ Erase(q, p) \in Seq(TaskId)
         /\ Range(Erase(q, p)) = Range(q) \ {p}
         /\ IsInjective(Erase(q, p))
         /\ q # <<>> /\ Head(q) # p => Erase(q, p) # <<>> /\ Head(Erase(q, p)) = Head(q)
<1>1. CASE \E i \in 1..Len(q) : q[i] = p
  <2> DEFINE k == CHOOSE i \in 1..Len(q) : q[i] = p
  <2>1. k \in 1..Len(q) /\ q[k] = p
    BY <1>1
  <2>2. Erase(q, p) = SubSeq(q, 1, k - 1) \o SubSeq(q, k + 1, Len(q))
    BY <1>1 DEF Erase
  <2>3. Head(q) # p /\ q # <<>> => k # 1
    BY <2>1
  <2> HIDE DEF k
  <2> DEFINE r == SubSeq(q, 1, k - 1) \o SubSeq(q, k + 1, Len(q))
  <2>4. /\ r \in Seq(TaskId)
        /\ Range(r) = Range(q) \ {q[k]}
        /\ IsInjective(r)
        /\ k # 1 => r # <<>> /\ Head(r) = Head(q)
    BY <2>1, RemoveOne
  <2> HIDE DEF r
  <2>5. Erase(q, p) = r
    BY <2>2 DEF r
  <2> QED
    BY <2>1, <2>3, <2>4, <2>5
<1>2. CASE ~(\E i \in 1..Len(q) : q[i] = p)
  <2>1. Erase(q, p) = q /\ p \notin Range(q)
    BY <1>2, Indices DEF Erase
  <2> QED
    BY <2>1
<1> QED
  BY <1>1, <1>2

-----------------------------------------------------------------------------
(* The rotation of the queue *)

\* The scan for the highest level with a task to run finds it.
LEMMA HighestLevelFacts ==
  ASSUME NEW running \in [Level -> Seq(TaskId)], NEW otherwise,
         \E lv \in Level : running[lv] # <<>>
  PROVE  LET top == HighestLevel(running, otherwise)
         IN /\ top \in Level /\ running[top] # <<>>
            /\ \A h \in Level : h > top => running[h] = <<>>
<1> DEFINE busy == { lv \in Level : running[lv] # <<>> }
<1>1. PICK top \in busy : \A lv \in busy : lv <= top
  <2>1. busy \in SUBSET (0..kMaxLevel) /\ busy # {} /\ kMaxLevel \in Nat
    BY LevelAssumption DEF Level
  <2> QED
    BY <2>1, Greatest
<1>2. \A h \in Level : h > top => running[h] = <<>>
  <2> SUFFICES ASSUME NEW h \in Level, h > top, running[h] # <<>>
               PROVE  FALSE
    OBVIOUS
  <2>1. h <= top
    BY <1>1
  <2> QED
    BY <2>1, ConstantFacts
<1> QED
  BY <1>1, <1>2 DEF HighestLevel

\* The current task is one of those that the queues hold.
LEMMA CurrentFacts ==
  ASSUME NEW s \in State, NEW R \in SUBSET TaskId,
         Queues(s, R), s.running[s.current_level] # <<>>
  PROVE  /\ CurrentTask(s) \in R
         /\ CurrentTask(s) \in TaskId
         /\ s.level[CurrentTask(s)] = s.current_level
<1>1. s.running[s.current_level] \in Seq(TaskId) /\ s.current_level \in Level
  BY DEF State
<1>2. Head(s.running[s.current_level]) \in Range(s.running[s.current_level])
  BY <1>1, PopFront DEF Queues
<1> QED
  BY <1>1, <1>2 DEF Queues, CurrentTask

\* When the current level is up to date, no task in the queues outranks the
\* current one.
LEMMA CurrentIsBest ==
  ASSUME NEW s \in State, NEW R \in SUBSET TaskId, Queues(s, R),
         s.running[s.current_level] # <<>>, TopLevelOf(s), ~s.level_changed
  PROVE  /\ CurrentTask(s) \in R
         /\ \A q \in R : s.level[q] <= s.level[CurrentTask(s)]
<1>1. CurrentTask(s) \in R /\ s.level[CurrentTask(s)] = s.current_level
  BY CurrentFacts
<1>2. s.current_level \in Level /\ Level \subseteq Nat /\ s.level \in [TaskId -> Level]
  BY ConstantFacts DEF State
<1>3. ASSUME NEW q \in R, s.level[q] > s.current_level
      PROVE  FALSE
  <2>1. s.level[q] \in Level /\ q \in Range(s.running[s.level[q]])
    BY <1>2 DEF Queues
  <2>2. s.running[s.level[q]] = <<>>
    BY <1>3, <2>1 DEF TopLevelOf
  <2>3. Range(<<>>) = {}
    BY DEF Range
  <2> QED
    BY <2>1, <2>2, <2>3
<1>4. \A q \in R : s.level[q] \in Nat /\ s.current_level \in Nat
  BY <1>2
<1> QED
  BY <1>1, <1>3, <1>4

\* After a rotation the queues hold the same tasks, or all but the one that
\* goes to sleep, and no queue above the current one holds any.
LEMMA RotateFacts ==
  ASSUME NEW s \in State, NEW R \in SUBSET TaskId, NEW sleep \in BOOLEAN,
         NEW left, left = IF sleep THEN R \ {CurrentTask(s)} ELSE R, left # {},
         Queues(s, R), s.running[s.current_level] # <<>>, TopLevelOf(s)
  PROVE  LET t == Rotate(s, sleep)
         IN /\ t = [s EXCEPT !.running = t.running, !.level_changed = FALSE,
                             !.current_level = t.current_level]
            /\ t \in State
            /\ Queues(t, left)
            /\ t.running[t.current_level] # <<>>
            /\ TopLevelOf(t)
<1> DEFINE lv == s.current_level
           p == CurrentTask(s)
           rest == Tail(s.running[lv])
           queue == IF sleep THEN rest ELSE Append(rest, p)
           running == [s.running EXCEPT ![lv] = queue]
           top == IF s.level_changed \/ queue = <<>>
                  THEN HighestLevel(running, lv) ELSE lv
           t == Rotate(s, sleep)
<1>1. t = [s EXCEPT !.running = running, !.level_changed = FALSE, !.current_level = top]
  BY DEF Rotate
<1>2. /\ lv \in Level /\ s.running \in [Level -> Seq(TaskId)]
      /\ s.level \in [TaskId -> Level] /\ s.running[lv] \in Seq(TaskId)
  BY DEF State
<1>3. p \in R /\ p \in TaskId /\ s.level[p] = lv
  BY CurrentFacts
<1>4. /\ rest \in Seq(TaskId) /\ IsInjective(rest)
      /\ Range(rest) = Range(s.running[lv]) \ {p}
  BY <1>2, PopFront DEF CurrentTask, Queues
<1>5. /\ queue \in Seq(TaskId) /\ IsInjective(queue)
      /\ Range(queue) = { q \in left : s.level[q] = lv }
  <2>1. Range(s.running[lv]) = { q \in R : s.level[q] = lv }
    BY <1>2 DEF Queues
  <2>2. CASE sleep
    BY <1>4, <2>1, <2>2
  <2>3. CASE ~sleep
    <3>1. p \notin Range(rest)
      BY <1>4
    <3>2. /\ Append(rest, p) \in Seq(TaskId) /\ IsInjective(Append(rest, p))
          /\ Range(Append(rest, p)) = Range(rest) \cup {p}
      <4> HIDE DEF rest, p, queue, running, top, t
      <4> QED
        BY <1>3, <1>4, <3>1, PushBack
    <3>3. queue = Append(rest, p) /\ left = R
      BY <2>3
    <3> QED
      BY <1>3, <1>4, <2>1, <3>2, <3>3
  <2> QED
    BY <2>2, <2>3
<1> HIDE DEF queue, rest, p
<1>6. running \in [Level -> Seq(TaskId)] /\ running[lv] = queue
  BY <1>2, <1>5
<1>7. \A l \in Level : /\ Range(running[l]) = { q \in left : s.level[q] = l }
                       /\ IsInjective(running[l])
  <2> SUFFICES ASSUME NEW l \in Level
               PROVE  /\ Range(running[l]) = { q \in left : s.level[q] = l }
                      /\ IsInjective(running[l])
    OBVIOUS
  <2>1. CASE l = lv
    BY <1>5, <1>6, <2>1
  <2>2. CASE l # lv
    <3>1. running[l] = s.running[l]
      BY <1>2, <2>2
    <3>2. { q \in left : s.level[q] = l } = { q \in R : s.level[q] = l }
      BY <1>3, <2>2 DEF p
    <3> QED
      BY <3>1, <3>2 DEF Queues
  <2> QED
    BY <2>1, <2>2
<1>8. \E l \in Level : running[l] # <<>>
  <2>1. PICK q \in left : TRUE
    OBVIOUS
  <2>2. q \in R /\ s.level[q] \in Level
    BY <1>2, <2>1
  <2>3. q \in Range(running[s.level[q]])
    BY <1>7, <2>1, <2>2
  <2>4. Range(<<>>) = {}
    BY DEF Range
  <2> QED
    BY <2>2, <2>3, <2>4
<1>9. /\ top \in Level /\ running[top] # <<>>
      /\ \A h \in Level : h > top => running[h] = <<>>
  <2>1. CASE s.level_changed \/ queue = <<>>
    BY <1>6, <1>8, <2>1, HighestLevelFacts
  <2>2. CASE ~(s.level_changed \/ queue = <<>>)
    <3>1. \A h \in Level : h > lv => running[h] = s.running[h]
      BY <1>2, ConstantFacts
    <3> QED
      <4>1. top = lv /\ running[top] # <<>>
        BY <1>6, <2>2
      <4>2. \A h \in Level : h > lv => s.running[h] = <<>>
        <5>1. ~s.level_changed
          BY <2>2
        <5> HIDE DEF running, top, t
        <5> QED
          BY <5>1 DEF TopLevelOf
      <4> QED
        BY <1>2, <3>1, <4>1, <4>2
  <2> QED
    BY <2>1, <2>2
<1> HIDE DEF running, top
<1>10. /\ t \in State /\ t.running = running /\ t.level_changed = FALSE
       /\ t.current_level = top /\ t.level = s.level
  BY <1>1, <1>6, <1>9 DEF State
<1>11. t = [s EXCEPT !.running = t.running, !.level_changed = FALSE,
                     !.current_level = t.current_level]
  BY <1>1, <1>10
<1> HIDE DEF t
<1>12. Queues(t, left)
  BY <1>7, <1>10 DEF Queues
<1>13. t.running[t.current_level] # <<>> /\ TopLevelOf(t)
  BY <1>9, <1>10 DEF TopLevelOf
<1> QED
  BY <1>10, <1>11, <1>12, <1>13 DEF t

-----------------------------------------------------------------------------
(* The task manager: the inductive invariant *)

\* Ids grow, the idle task never sleeps, and who is entered as waiting is a
\* task that may be woken.
Bookkeeping(s) ==
  /\ IdleTask \in s.tasks /\ s.awake[IdleTask]
  /\ \A p \in TaskId : p > s.latest_id => p \notin s.tasks /\ ~s.awake[p]
  /\ \A id \in DOMAIN s.finish_waiter : s.finish_waiter[id] \in s.tasks \ {IdleTask}

\* What holds even between the choice of the next task and the switch to it.
Core(s) ==
  /\ s \in State
  /\ RunQueuesOf(s)
  /\ TopLevelOf(s)
  /\ Bookkeeping(s)
  /\ \A p \in s.tasks : p # s.cpu => s.context[p] = p

IInv(s) == Core(s) /\ s.cpu = CurrentTask(s)

\* CurrentTask is always a task, and one that is awake: the idle task at least.
LEMMA CurrentIsReady ==
  ASSUME NEW s, Core(s)
  PROVE  /\ CurrentTask(s) \in s.tasks /\ CurrentTask(s) \in TaskId
         /\ s.awake[CurrentTask(s)] /\ s.level[CurrentTask(s)] = s.current_level
<1>1. s \in State /\ Ready(s) \in SUBSET TaskId
  BY DEF Core, State, Ready
<1> QED
  BY <1>1, CurrentFacts DEF Core, RunQueuesOf, Ready

\* The switch to the current task, once what ran is saved or deleted.
LEMMA RestoreKeeps ==
  ASSUME NEW s, Core(s), s.cpu \in s.tasks => s.context[s.cpu] = s.cpu
  PROVE  IInv(RestoreContext(s)) /\ RestoreContext(s).cpu = CurrentTask(s)
<1> DEFINE p == CurrentTask(s)
           t == [s EXCEPT !.cpu = s.context[p]]
<1>1. p \in s.tasks /\ p \in TaskId /\ s \in State
  BY CurrentIsReady DEF Core
<1>2. s.context[p] = p
  BY <1>1 DEF Core
<1> HIDE DEF p
<1>3. /\ t \in State /\ t.cpu = p
      /\ t.tasks = s.tasks /\ t.latest_id = s.latest_id /\ t.level = s.level
      /\ t.awake = s.awake /\ t.context = s.context /\ t.running = s.running
      /\ t.current_level = s.current_level /\ t.level_changed = s.level_changed
      /\ t.finish_waiter = s.finish_waiter
  BY <1>1, <1>2 DEF State
<1> HIDE DEF t
<1>4. RunQueuesOf(t) /\ TopLevelOf(t) /\ Bookkeeping(t) /\ CurrentTask(t) = CurrentTask(s)
  BY <1>3 DEF Core, RunQueuesOf, Queues, Ready, TopLevelOf, Bookkeeping, CurrentTask
<1>5. \A q \in t.tasks : q # t.cpu => t.context[q] = q
  BY <1>3 DEF Core
<1> QED
  BY <1>3, <1>4, <1>5 DEF IInv, Core, RestoreContext, p, t

-----------------------------------------------------------------------------
(* Every method keeps it *)

\* Moving a task that may run to another level.
LEMMA ChangeLevelKeeps ==
  ASSUME NEW s, Core(s), NEW p \in s.tasks, s.awake[p], NEW lv \in Level \cup {-1}
  PROVE  LET t == ChangeLevelRunning(s, p, lv)
         IN /\ Core(t) /\ CurrentTask(t) = CurrentTask(s)
            /\ t.cpu = s.cpu /\ t.tasks = s.tasks /\ t.awake = s.awake
            /\ t.context = s.context
<1> DEFINE old == s.level[p]
           cur == s.current_level
           level == [s.level EXCEPT ![p] = lv]
           t == ChangeLevelRunning(s, p, lv)
<1>1. /\ s \in State /\ p \in TaskId /\ old \in Level /\ cur \in Level
      /\ s.running \in [Level -> Seq(TaskId)] /\ s.level \in [TaskId -> Level]
      /\ s.level_changed \in BOOLEAN /\ s.tasks \in SUBSET TaskId
      /\ Level \subseteq Nat
  BY ConstantFacts DEF Core, State
<1>2. \A l \in Level : /\ Range(s.running[l]) = { q \in Ready(s) : s.level[q] = l }
                       /\ IsInjective(s.running[l])
  BY DEF Core, RunQueuesOf, Queues
<1>3. CASE lv < 0 \/ lv = old
  BY <1>3 DEF ChangeLevelRunning
<1>4. CASE lv \in Level /\ lv # old /\ p # CurrentTask(s)
  <2> DEFINE running == [s.running EXCEPT ![old] = Erase(s.running[old], p),
                                          ![lv] = Append(s.running[lv], p)]
             changed == s.level_changed \/ lv > cur
  <2>1. t = [s EXCEPT !.running = running, !.level = level, !.level_changed = changed]
    BY <1>1, <1>4 DEF ChangeLevelRunning
  <2>2. /\ running \in [Level -> Seq(TaskId)]
        /\ running[old] = Erase(s.running[old], p)
        /\ running[lv] = Append(s.running[lv], p)
        /\ \A l \in Level : l # old /\ l # lv => running[l] = s.running[l]
        /\ Erase(s.running[old], p) \in Seq(TaskId)
        /\ Range(Erase(s.running[old], p)) = Range(s.running[old]) \ {p}
        /\ IsInjective(Erase(s.running[old], p))
        /\ Append(s.running[lv], p) \in Seq(TaskId)
        /\ Append(s.running[lv], p) # <<>>
        /\ Range(Append(s.running[lv], p)) = Range(s.running[lv]) \cup {p}
        /\ IsInjective(Append(s.running[lv], p))
    <3>1. s.running[old] \in Seq(TaskId) /\ IsInjective(s.running[old])
      BY <1>1, <1>2
    <3>2. s.running[lv] \in Seq(TaskId) /\ IsInjective(s.running[lv])
          /\ p \notin Range(s.running[lv])
      BY <1>1, <1>2, <1>4
    <3>3. /\ Erase(s.running[old], p) \in Seq(TaskId)
          /\ Range(Erase(s.running[old], p)) = Range(s.running[old]) \ {p}
          /\ IsInjective(Erase(s.running[old], p))
      BY <1>1, <3>1, EraseFacts
    <3>4. /\ Append(s.running[lv], p) \in Seq(TaskId)
          /\ Append(s.running[lv], p) # <<>>
          /\ Range(Append(s.running[lv], p)) = Range(s.running[lv]) \cup {p}
          /\ IsInjective(Append(s.running[lv], p))
      BY <1>1, <3>2, PushBack
    <3> QED
      BY <1>1, <1>4, <3>3, <3>4
  <2>3. running[cur] # <<>> /\ Head(running[cur]) = CurrentTask(s)
    <3>1. s.running[cur] # <<>> /\ s.running[cur] \in Seq(TaskId)
          /\ IsInjective(s.running[cur]) /\ Head(s.running[cur]) = CurrentTask(s)
      BY <1>1, <1>2 DEF Core, RunQueuesOf, CurrentTask
    <3>2. CASE cur = old
      <4>1. Erase(s.running[old], p) # <<>> /\ Head(Erase(s.running[old], p)) = Head(s.running[old])
        BY <1>1, <1>4, <3>1, <3>2, EraseFacts
      <4> QED
        BY <2>2, <3>1, <3>2, <4>1
    <3>3. CASE cur = lv
      <4>1. Head(Append(s.running[lv], p)) = Head(s.running[lv])
        BY <1>1, <3>1, <3>3
      <4> QED
        BY <2>2, <3>1, <3>3, <4>1
    <3>4. CASE cur # old /\ cur # lv
      BY <1>1, <2>2, <3>1, <3>4
    <3> QED
      BY <3>2, <3>3, <3>4
  <2> HIDE DEF running, changed, level
  <2>4. /\ level \in [TaskId -> Level] /\ level[p] = lv
        /\ \A q \in TaskId : q # p => level[q] = s.level[q]
    BY <1>1, <1>4 DEF level
  <2>5. /\ t \in State /\ t.running = running /\ t.level = level
        /\ t.level_changed = changed /\ t.current_level = cur
        /\ t.tasks = s.tasks /\ t.awake = s.awake /\ t.cpu = s.cpu
        /\ t.context = s.context /\ t.latest_id = s.latest_id
        /\ t.finish_waiter = s.finish_waiter
    <3>1. changed \in BOOLEAN
      BY DEF changed
    <3>2. running \in [Level -> Seq(TaskId)] /\ level \in [TaskId -> Level]
      BY <2>2, <2>4
    <3>3. s \in State /\ t = [s EXCEPT !.running = running, !.level = level,
                                       !.level_changed = changed]
      BY <1>1, <2>1
    <3> HIDE DEF t
    <3> QED
      BY <3>1, <3>2, <3>3 DEF State
  <2> HIDE DEF t
  <2>6. Queues(t, Ready(t))
    <3>1. Ready(t) = Ready(s) /\ p \in Ready(s) /\ Ready(s) \subseteq TaskId
      BY <1>1, <2>5 DEF Ready
    <3>2. ASSUME NEW l \in Level
          PROVE  /\ Range(running[l]) = { q \in Ready(s) : level[q] = l }
                 /\ IsInjective(running[l])
      <4>1. CASE l = lv
        <5>1. { q \in Ready(s) : level[q] = lv } = { q \in Ready(s) : s.level[q] = lv } \cup {p}
          BY <2>4, <3>1
        <5> QED
          BY <1>2, <1>4, <2>2, <4>1, <5>1
      <4>2. CASE l = old
        BY <1>1, <1>2, <1>4, <2>2, <2>4, <3>1, <4>2
      <4>3. CASE l # lv /\ l # old
        BY <1>1, <1>2, <1>4, <2>2, <2>4, <3>1, <4>3
      <4> QED
        BY <4>1, <4>2, <4>3
    <3> QED
      BY <2>5, <3>1, <3>2 DEF Queues
  <2>7. TopLevelOf(t)
    <3>1. CASE changed
      BY <2>5, <3>1 DEF TopLevelOf
    <3>2. CASE ~changed
      <4>1. ASSUME NEW l \in Level, l > cur
            PROVE  running[l] = <<>>
        <5>1. s.running[l] = <<>> /\ l # lv
          BY <1>1, <1>4, <3>2, <4>1 DEF Core, TopLevelOf, changed
        <5>2. l # old
          BY <1>2, <5>1, <1>1 DEF Ready, Range
        <5> QED
          BY <2>2, <5>1, <5>2
      <4> QED
        BY <2>5, <4>1 DEF TopLevelOf
    <3> QED
      BY <3>1, <3>2
  <2>8. CurrentTask(t) = CurrentTask(s) /\ RunQueuesOf(t)
    BY <2>3, <2>5, <2>6 DEF CurrentTask, RunQueuesOf
  <2>9. Bookkeeping(t) /\ \A q \in t.tasks : q # t.cpu => t.context[q] = q
    BY <2>5 DEF Core, Bookkeeping
  <2> QED
    BY <2>5, <2>7, <2>8, <2>9 DEF Core, t
<1>5. CASE lv \in Level /\ lv # old /\ p = CurrentTask(s)
  <2> DEFINE running == [s.running EXCEPT ![cur] = Tail(s.running[cur]),
                                          ![lv] = <<p>> \o s.running[lv]]
             changed == s.level_changed \/ lv < cur
  <2>1. t = [s EXCEPT !.running = running, !.level = level,
                      !.current_level = lv, !.level_changed = changed]
    BY <1>1, <1>5 DEF ChangeLevelRunning
  <2>2. old = cur
    BY <1>5, CurrentIsReady
  <2>3. /\ running \in [Level -> Seq(TaskId)]
        /\ running[cur] = Tail(s.running[cur])
        /\ running[lv] = <<p>> \o s.running[lv]
        /\ \A l \in Level : l # cur /\ l # lv => running[l] = s.running[l]
        /\ Range(Tail(s.running[cur])) = Range(s.running[cur]) \ {p}
        /\ IsInjective(Tail(s.running[cur]))
        /\ <<p>> \o s.running[lv] # <<>>
        /\ Head(<<p>> \o s.running[lv]) = p
        /\ Range(<<p>> \o s.running[lv]) = Range(s.running[lv]) \cup {p}
        /\ IsInjective(<<p>> \o s.running[lv])
    <3>1. /\ s.running[cur] \in Seq(TaskId) /\ IsInjective(s.running[cur])
          /\ s.running[cur] # <<>> /\ Head(s.running[cur]) = p
      BY <1>1, <1>2, <1>5 DEF Core, RunQueuesOf, CurrentTask
    <3>2. s.running[lv] \in Seq(TaskId) /\ IsInjective(s.running[lv])
          /\ p \notin Range(s.running[lv])
      BY <1>1, <1>2, <1>5
    <3>3. /\ Tail(s.running[cur]) \in Seq(TaskId)
          /\ Range(Tail(s.running[cur])) = Range(s.running[cur]) \ {p}
          /\ IsInjective(Tail(s.running[cur]))
      BY <3>1, PopFront
    <3>4. /\ <<p>> \o s.running[lv] \in Seq(TaskId)
          /\ <<p>> \o s.running[lv] # <<>>
          /\ Head(<<p>> \o s.running[lv]) = p
          /\ Range(<<p>> \o s.running[lv]) = Range(s.running[lv]) \cup {p}
          /\ IsInjective(<<p>> \o s.running[lv])
      BY <1>1, <3>2, PushFront
    <3> QED
      BY <1>1, <1>5, <2>2, <3>3, <3>4
  <2> HIDE DEF running, changed, level
  <2>4. /\ level \in [TaskId -> Level] /\ level[p] = lv
        /\ \A q \in TaskId : q # p => level[q] = s.level[q]
    BY <1>1, <1>5 DEF level
  <2>5. /\ t \in State /\ t.running = running /\ t.level = level
        /\ t.level_changed = changed /\ t.current_level = lv
        /\ t.tasks = s.tasks /\ t.awake = s.awake /\ t.cpu = s.cpu
        /\ t.context = s.context /\ t.latest_id = s.latest_id
        /\ t.finish_waiter = s.finish_waiter
    <3>1. changed \in BOOLEAN
      BY DEF changed
    <3>2. running \in [Level -> Seq(TaskId)] /\ level \in [TaskId -> Level]
      BY <2>3, <2>4
    <3>3. s \in State /\ t = [s EXCEPT !.running = running, !.level = level,
                                       !.current_level = lv, !.level_changed = changed]
      BY <1>1, <2>1
    <3> HIDE DEF t
    <3> QED
      BY <1>5, <3>1, <3>2, <3>3 DEF State
  <2> HIDE DEF t
  <2>6. Queues(t, Ready(t))
    <3>1. Ready(t) = Ready(s) /\ p \in Ready(s) /\ Ready(s) \subseteq TaskId
      BY <1>1, <2>5 DEF Ready
    <3>2. ASSUME NEW l \in Level
          PROVE  /\ Range(running[l]) = { q \in Ready(s) : level[q] = l }
                 /\ IsInjective(running[l])
      <4>1. CASE l = lv
        <5>1. { q \in Ready(s) : level[q] = lv } = { q \in Ready(s) : s.level[q] = lv } \cup {p}
          BY <2>4, <3>1
        <5> QED
          BY <1>2, <1>5, <2>3, <4>1, <5>1
      <4>2. CASE l = cur
        <5>1. { q \in Ready(s) : level[q] = cur } = { q \in Ready(s) : s.level[q] = cur } \ {p}
          BY <1>5, <2>2, <2>4, <3>1
        <5> QED
          BY <1>1, <1>2, <2>3, <4>2, <5>1
      <4>3. CASE l # lv /\ l # cur
        BY <1>1, <1>2, <1>5, <2>2, <2>3, <2>4, <3>1, <4>3
      <4> QED
        BY <4>1, <4>2, <4>3
    <3> QED
      BY <2>5, <3>1, <3>2 DEF Queues
  <2>7. TopLevelOf(t)
    <3>1. CASE changed
      BY <2>5, <3>1 DEF TopLevelOf
    <3>2. CASE ~changed
      <4>1. ASSUME NEW l \in Level, l > lv
            PROVE  running[l] = <<>>
        <5>1. ~s.level_changed /\ ~(lv < cur)
          BY <3>2 DEF changed
        <5>2. lv \in Nat /\ cur \in Nat /\ l \in Nat
          BY <1>1, <1>5
        <5>3. l > cur /\ l # lv /\ l # cur
          BY <4>1, <5>1, <5>2
        <5> QED
          BY <2>3, <5>1, <5>3 DEF Core, TopLevelOf
      <4> QED
        BY <2>5, <4>1 DEF TopLevelOf
    <3> QED
      BY <3>1, <3>2
  <2>8. CurrentTask(t) = CurrentTask(s) /\ RunQueuesOf(t)
    BY <1>5, <2>3, <2>5, <2>6 DEF CurrentTask, RunQueuesOf
  <2>9. Bookkeeping(t) /\ \A q \in t.tasks : q # t.cpu => t.context[q] = q
    BY <2>5 DEF Core, Bookkeeping
  <2> QED
    BY <2>5, <2>7, <2>8, <2>9 DEF Core, t
<1> QED
  BY <1>3, <1>4, <1>5, <1>1

\* Waking a task, or moving one that is awake.
LEMMA WakeupKeeps ==
  ASSUME NEW s, Core(s), NEW p \in s.tasks, NEW lv0 \in Level \cup {-1}
  PROVE  LET t == Wakeup(s, p, lv0)
         IN /\ Core(t) /\ CurrentTask(t) = CurrentTask(s)
            /\ t.cpu = s.cpu /\ t.tasks = s.tasks /\ t.context = s.context
<1> DEFINE lv == IF lv0 < 0 THEN s.level[p] ELSE lv0
           cur == s.current_level
           level == [s.level EXCEPT ![p] = lv]
           awake == [s.awake EXCEPT ![p] = TRUE]
           running == [s.running EXCEPT ![lv] = Append(s.running[lv], p)]
           changed == s.level_changed \/ lv > cur
           t == Wakeup(s, p, lv0)
<1>1. /\ s \in State /\ p \in TaskId /\ cur \in Level /\ lv \in Level
      /\ s.running \in [Level -> Seq(TaskId)] /\ s.level \in [TaskId -> Level]
      /\ s.awake \in [TaskId -> BOOLEAN] /\ s.tasks \in SUBSET TaskId
      /\ s.latest_id \in TaskId /\ Level \subseteq Nat
  BY ConstantFacts DEF Core, State
<1>2. \A l \in Level : /\ Range(s.running[l]) = { q \in Ready(s) : s.level[q] = l }
                       /\ IsInjective(s.running[l])
  BY DEF Core, RunQueuesOf, Queues
<1>3. CASE s.awake[p]
  <2>1. t = ChangeLevelRunning(s, p, lv0)
    BY <1>3 DEF Wakeup
  <2> QED
    BY <1>3, <2>1, ChangeLevelKeeps
<1>4. CASE ~s.awake[p]
  <2>1. t = [s EXCEPT !.level = level, !.awake = awake, !.running = running,
                      !.level_changed = changed]
    BY <1>4 DEF Wakeup
  <2>2. /\ Append(s.running[lv], p) \in Seq(TaskId)
        /\ Append(s.running[lv], p) # <<>>
        /\ Range(Append(s.running[lv], p)) = Range(s.running[lv]) \cup {p}
        /\ IsInjective(Append(s.running[lv], p))
    <3>1. p \notin Range(s.running[lv])
      <4>1. Range(s.running[lv]) = { q \in Ready(s) : s.level[q] = lv }
        BY <1>1, <1>2
      <4> HIDE DEF lv
      <4> QED
        BY <1>4, <4>1 DEF Ready
    <3>2. s.running[lv] \in Seq(TaskId) /\ IsInjective(s.running[lv])
      BY <1>1, <1>2
    <3> QED
      BY <1>1, <3>1, <3>2, PushBack
  <2>3. /\ running \in [Level -> Seq(TaskId)]
        /\ running[lv] = Append(s.running[lv], p)
        /\ \A l \in Level : l # lv => running[l] = s.running[l]
    BY <1>1, <2>2
  <2>4. /\ level \in [TaskId -> Level] /\ level[p] = lv
        /\ \A q \in TaskId : q # p => level[q] = s.level[q]
    BY <1>1
  <2>5. /\ awake \in [TaskId -> BOOLEAN] /\ awake[p]
        /\ \A q \in TaskId : q # p => awake[q] = s.awake[q]
    BY <1>1
  <2>6. running[cur] # <<>> /\ Head(running[cur]) = CurrentTask(s)
    <3>1. s.running[cur] # <<>> /\ s.running[cur] \in Seq(TaskId)
          /\ Head(s.running[cur]) = CurrentTask(s)
      BY <1>1 DEF Core, RunQueuesOf, CurrentTask
    <3>2. CASE cur = lv
      <4>1. Head(Append(s.running[lv], p)) = Head(s.running[lv])
        BY <1>1, <3>1, <3>2
      <4> QED
        BY <2>2, <2>3, <3>1, <3>2, <4>1
    <3>3. CASE cur # lv
      BY <1>1, <2>3, <3>1, <3>3
    <3> QED
      BY <3>2, <3>3
  <2>7. changed \in BOOLEAN
    BY <1>1
  <2> HIDE DEF running, changed, level, awake, lv
  <2>8. /\ t \in State /\ t.running = running /\ t.level = level
        /\ t.awake = awake /\ t.level_changed = changed /\ t.current_level = cur
        /\ t.tasks = s.tasks /\ t.cpu = s.cpu /\ t.context = s.context
        /\ t.latest_id = s.latest_id /\ t.finish_waiter = s.finish_waiter
    <3>1. /\ running \in [Level -> Seq(TaskId)] /\ level \in [TaskId -> Level]
          /\ awake \in [TaskId -> BOOLEAN] /\ s \in State
      BY <1>1, <2>3, <2>4, <2>5
    <3> HIDE DEF t
    <3> QED
      BY <2>1, <2>7, <3>1 DEF State
  <2> HIDE DEF t
  <2>9. Queues(t, Ready(t))
    <3>1. Ready(t) = Ready(s) \cup {p} /\ p \notin Ready(s) /\ Ready(s) \subseteq TaskId
      BY <1>1, <1>4, <2>5, <2>8 DEF Ready
    <3>2. ASSUME NEW l \in Level
          PROVE  /\ Range(running[l]) = { q \in Ready(t) : level[q] = l }
                 /\ IsInjective(running[l])
      <4>1. CASE l = lv
        <5>1. { q \in Ready(t) : level[q] = lv } = { q \in Ready(s) : s.level[q] = lv } \cup {p}
          BY <2>4, <3>1
        <5> QED
          BY <1>2, <2>2, <2>3, <4>1, <5>1
      <4>2. CASE l # lv
        <5>1. { q \in Ready(t) : level[q] = l } = { q \in Ready(s) : s.level[q] = l }
          BY <2>4, <3>1, <4>2
        <5> QED
          BY <1>2, <2>3, <4>2, <5>1
      <4> QED
        BY <4>1, <4>2
    <3> QED
      BY <2>8, <3>2 DEF Queues
  <2>10. TopLevelOf(t)
    <3>1. CASE changed
      BY <2>8, <3>1 DEF TopLevelOf
    <3>2. CASE ~changed
      <4>1. ASSUME NEW l \in Level, l > cur
            PROVE  running[l] = <<>>
        <5>1. s.running[l] = <<>> /\ l # lv
          BY <1>1, <3>2, <4>1 DEF Core, TopLevelOf, changed
        <5> QED
          BY <2>3, <5>1
      <4> QED
        BY <2>8, <4>1 DEF TopLevelOf
    <3> QED
      BY <3>1, <3>2
  <2>11. CurrentTask(t) = CurrentTask(s) /\ RunQueuesOf(t)
    BY <2>6, <2>8, <2>9 DEF CurrentTask, RunQueuesOf
  <2>12. Bookkeeping(t) /\ \A q \in t.tasks : q # t.cpu => t.context[q] = q
    BY <1>1, <2>5, <2>8, ConstantFacts DEF Core, Bookkeeping
  <2> QED
    BY <2>8, <2>10, <2>11, <2>12 DEF Core, t
<1> QED
  BY <1>3, <1>4

\* Nothing of the invariant is about what the mailboxes hold.
MsgsOnly(s, u) ==
  /\ u \in State
  /\ u.running = s.running /\ u.level = s.level /\ u.awake = s.awake
  /\ u.tasks = s.tasks /\ u.current_level = s.current_level
  /\ u.level_changed = s.level_changed /\ u.cpu = s.cpu /\ u.context = s.context
  /\ u.latest_id = s.latest_id /\ u.finish_waiter = s.finish_waiter

\* SendMessage, ReceiveMessage and the exit codes leave the queues alone.
LEMMA MsgsKeep ==
  ASSUME NEW s, Core(s), NEW u, MsgsOnly(s, u)
  PROVE  Core(u) /\ CurrentTask(u) = CurrentTask(s) /\ u.cpu = s.cpu /\ u.tasks = s.tasks
<1>1. RunQueuesOf(u) /\ TopLevelOf(u) /\ Bookkeeping(u) /\ CurrentTask(u) = CurrentTask(s)
  BY DEF MsgsOnly, Core, RunQueuesOf, Queues, Ready, TopLevelOf, Bookkeeping, CurrentTask
<1> QED
  BY <1>1 DEF MsgsOnly, Core

\* A message more in a mailbox, and its task woken; or no such task.
LEMMA SendKeeps ==
  ASSUME NEW s, Core(s), NEW id \in TaskId \cup {0}, NEW m \in Message
  PROVE  LET t == SendMessage(s, id, m)
         IN Core(t) /\ CurrentTask(t) = CurrentTask(s) /\ t.cpu = s.cpu
<1> DEFINE msgs == [s.msgs EXCEPT ![id] = Append(s.msgs[id], m)]
           u == [s EXCEPT !.msgs = msgs]
<1>1. CASE id \notin s.tasks
  BY <1>1 DEF SendMessage
<1>2. CASE id \in s.tasks
  <2>1. id \in TaskId /\ s \in State
    BY <1>2 DEF Core, State
  <2>2. msgs \in [TaskId -> Seq(Message)]
    <3>1. s.msgs \in [TaskId -> Seq(Message)]
      BY <2>1 DEF State
    <3> QED
      BY <2>1, <3>1
  <2> HIDE DEF msgs
  <2>3. MsgsOnly(s, u)
    BY <2>1, <2>2 DEF MsgsOnly, State
  <2> HIDE DEF u
  <2>4. Core(u) /\ CurrentTask(u) = CurrentTask(s) /\ u.cpu = s.cpu /\ u.tasks = s.tasks
    BY <2>3, MsgsKeep
  <2>5. SendMessage(s, id, m) = Wakeup(u, id, -1)
    BY <1>2 DEF SendMessage, u, msgs
  <2> QED
    BY <1>2, <2>4, <2>5, WakeupKeeps
<1> QED
  BY <1>1, <1>2

\* A message less.
LEMMA ReceiveKeeps ==
  ASSUME NEW s, IInv(s), NEW p \in TaskId, s.msgs[p] # <<>>
  PROVE  IInv(ReceiveMessage(s, p))
<1> DEFINE msgs == [s.msgs EXCEPT ![p] = Tail(s.msgs[p])]
           u == [s EXCEPT !.msgs = msgs]
<1>1. s \in State /\ s.msgs \in [TaskId -> Seq(Message)]
  BY DEF IInv, Core, State
<1>2. msgs \in [TaskId -> Seq(Message)]
  BY <1>1
<1> HIDE DEF msgs
<1>3. MsgsOnly(s, u)
  BY <1>1, <1>2 DEF MsgsOnly, State
<1> HIDE DEF u
<1>4. Core(u) /\ CurrentTask(u) = CurrentTask(s) /\ u.cpu = s.cpu
  BY <1>3, MsgsKeep DEF IInv
<1> QED
  BY <1>4 DEF IInv, ReceiveMessage, u, msgs

\* A task is put to sleep, and the processor goes on if it was the current one.
LEMMA SleepKeeps ==
  ASSUME NEW s, IInv(s), NEW p \in s.tasks \ {IdleTask}
  PROVE  IInv(Sleep(s, p))
<1> DEFINE awake == [s.awake EXCEPT ![p] = FALSE]
           asleep == [s EXCEPT !.awake = awake]
           left == Ready(s) \ {p}
<1>1. /\ s \in State /\ p \in TaskId /\ s.cpu = CurrentTask(s)
      /\ s.awake \in [TaskId -> BOOLEAN] /\ s.level \in [TaskId -> Level]
      /\ s.running \in [Level -> Seq(TaskId)] /\ s.current_level \in Level
      /\ s.context \in [TaskId -> TaskId] /\ s.tasks \in SUBSET TaskId
      /\ Ready(s) \in SUBSET TaskId /\ Core(s)
  BY DEF IInv, Core, State, Ready
<1>2. /\ awake \in [TaskId -> BOOLEAN] /\ ~awake[p]
      /\ \A q \in TaskId : q # p => awake[q] = s.awake[q]
  BY <1>1
<1>3. /\ Queues(s, Ready(s)) /\ s.running[s.current_level] # <<>>
      /\ TopLevelOf(s) /\ Bookkeeping(s)
      /\ \A q \in s.tasks : q # s.cpu => s.context[q] = q
  BY DEF IInv, Core, RunQueuesOf
<1>4. left \in SUBSET TaskId /\ left # {} /\ IdleTask \in TaskId
  BY <1>1, <1>3, ConstantFacts DEF Bookkeeping, Ready
<1> HIDE DEF awake
<1>5. /\ asleep \in State /\ asleep.awake = awake /\ asleep.tasks = s.tasks
      /\ asleep.level = s.level /\ asleep.running = s.running
      /\ asleep.current_level = s.current_level /\ asleep.cpu = s.cpu
      /\ asleep.level_changed = s.level_changed /\ asleep.context = s.context
      /\ asleep.latest_id = s.latest_id /\ asleep.finish_waiter = s.finish_waiter
  BY <1>1, <1>2 DEF State
<1> HIDE DEF asleep
<1>6. CASE ~s.awake[p]
  BY <1>6 DEF Sleep
<1>7. CASE s.awake[p] /\ p = CurrentTask(s)
  <2> DEFINE t == Rotate(asleep, TRUE)
             context == [t.context EXCEPT ![p] = t.cpu]
             u == [t EXCEPT !.context = context]
  <2>1. Sleep(s, p) = RestoreContext(u)
    BY <1>7 DEF Sleep, SwitchContext, asleep, awake
  <2>2. Queues(asleep, Ready(s)) /\ TopLevelOf(asleep) /\ CurrentTask(asleep) = p
    BY <1>3, <1>5, <1>7 DEF Queues, TopLevelOf, CurrentTask
  <2>3. /\ t = [asleep EXCEPT !.running = t.running, !.level_changed = FALSE,
                              !.current_level = t.current_level]
        /\ t \in State /\ Queues(t, left)
        /\ t.running[t.current_level] # <<>> /\ TopLevelOf(t)
    BY <1>1, <1>3, <1>4, <1>5, <2>2, RotateFacts
  <2> HIDE DEF t
  <2>4. /\ t.awake = awake /\ t.tasks = s.tasks /\ t.cpu = p /\ t.context = s.context
        /\ t.latest_id = s.latest_id /\ t.finish_waiter = s.finish_waiter
    <3>1. asleep.cpu = p
      BY <1>1, <1>5, <1>7
    <3> QED
      BY <1>5, <2>3, <3>1 DEF State
  <2>5. context \in [TaskId -> TaskId] /\ \A q \in s.tasks : context[q] = q
    BY <1>1, <1>3, <1>7, <2>4
  <2> HIDE DEF context
  <2>6. /\ u \in State /\ u.context = context /\ u.running = t.running
        /\ u.level = t.level /\ u.awake = t.awake /\ u.tasks = t.tasks
        /\ u.current_level = t.current_level /\ u.level_changed = t.level_changed
        /\ u.cpu = t.cpu /\ u.latest_id = t.latest_id /\ u.finish_waiter = t.finish_waiter
    BY <2>3, <2>5 DEF State
  <2> HIDE DEF u
  <2>7. Ready(u) = left
    BY <1>1, <1>2, <2>4, <2>6 DEF Ready
  <2>8. RunQueuesOf(u) /\ TopLevelOf(u)
    BY <2>3, <2>6, <2>7 DEF RunQueuesOf, Queues, TopLevelOf
  <2>9. Bookkeeping(u)
    BY <1>1, <1>2, <1>3, <1>4, <2>4, <2>6 DEF Bookkeeping
  <2>10. Core(u) /\ u.cpu = p /\ u.context[p] = p
    BY <2>4, <2>5, <2>6, <2>8, <2>9 DEF Core
  <2> QED
    BY <2>1, <2>10, RestoreKeeps
<1>8. CASE s.awake[p] /\ p # CurrentTask(s)
  <2> DEFINE lv == s.level[p]
             queue == Erase(s.running[lv], p)
             running == [s.running EXCEPT ![lv] = queue]
             t == [asleep EXCEPT !.running = running]
  <2>1. Sleep(s, p) = t
    BY <1>8 DEF Sleep, asleep, awake
  <2>2. lv \in Level /\ s.running[lv] \in Seq(TaskId) /\ IsInjective(s.running[lv])
        /\ Range(s.running[lv]) = { q \in Ready(s) : s.level[q] = lv }
    BY <1>1, <1>3 DEF Queues
  <2>3. /\ queue \in Seq(TaskId) /\ Range(queue) = Range(s.running[lv]) \ {p}
        /\ IsInjective(queue)
        /\ s.running[lv] # <<>> /\ Head(s.running[lv]) # p
             => queue # <<>> /\ Head(queue) = Head(s.running[lv])
    BY <1>1, <2>2, EraseFacts
  <2> HIDE DEF queue
  <2>4. /\ running \in [Level -> Seq(TaskId)] /\ running[lv] = queue
        /\ \A l \in Level : l # lv => running[l] = s.running[l]
    BY <1>1, <2>2, <2>3
  <2> HIDE DEF running
  <2>5. /\ t \in State /\ t.running = running
        /\ t.level = s.level /\ t.awake = awake /\ t.tasks = s.tasks
        /\ t.current_level = s.current_level /\ t.level_changed = s.level_changed
        /\ t.cpu = s.cpu /\ t.latest_id = s.latest_id
        /\ t.finish_waiter = s.finish_waiter /\ t.context = s.context
    BY <1>5, <2>4 DEF State
  <2> HIDE DEF t
  <2>6. Ready(t) = left
    BY <1>1, <1>2, <2>5 DEF Ready
  <2>7. Queues(t, left)
    <3>1. ASSUME NEW l \in Level
          PROVE  /\ Range(running[l]) = { q \in left : s.level[q] = l }
                 /\ IsInjective(running[l])
      <4>1. CASE l = lv
        BY <2>2, <2>3, <2>4, <4>1
      <4>2. CASE l # lv
        <5>1. { q \in left : s.level[q] = l } = { q \in Ready(s) : s.level[q] = l }
          BY <4>2
        <5> QED
          BY <1>3, <2>4, <4>2, <5>1 DEF Queues
      <4> QED
        BY <4>1, <4>2
    <3> QED
      BY <2>5, <3>1 DEF Queues
  <2>8. t.running[t.current_level] # <<>> /\ CurrentTask(t) = s.cpu
    <3>1. CASE s.current_level = lv
      BY <1>1, <1>3, <1>8, <2>3, <2>4, <2>5, <3>1 DEF CurrentTask
    <3>2. CASE s.current_level # lv
      BY <1>1, <1>3, <2>4, <2>5, <3>2 DEF CurrentTask
    <3> QED
      BY <3>1, <3>2
  <2>9. TopLevelOf(t)
    <3>1. CASE s.level_changed
      BY <2>5, <3>1 DEF TopLevelOf
    <3>2. CASE ~s.level_changed
      <4>1. ASSUME NEW l \in Level, l > s.current_level
            PROVE  running[l] = <<>>
        <5>1. s.running[l] = <<>>
          BY <1>3, <3>2, <4>1 DEF TopLevelOf
        <5>2. l # lv
          BY <1>1, <1>8, <2>2, <5>1 DEF Ready, Range
        <5> QED
          BY <2>4, <5>1, <5>2
      <4> QED
        BY <2>5, <4>1 DEF TopLevelOf
    <3> QED
      BY <3>1, <3>2
  <2>10. Bookkeeping(t)
    BY <1>1, <1>2, <1>3, <1>4, <2>5 DEF Bookkeeping
  <2> QED
    BY <1>3, <2>1, <2>5, <2>6, <2>7, <2>8, <2>9, <2>10 DEF IInv, Core, RunQueuesOf
<1> QED
  BY <1>6, <1>7, <1>8

\* The rotation of the queue by the timer, with what ran saved.
LEMMA SwitchTaskKeeps ==
  ASSUME NEW s, IInv(s)
  PROVE  IInv(SwitchTask(s))
<1> DEFINE p == CurrentTask(s)
           context == [s.context EXCEPT ![p] = s.cpu]
           saved == [s EXCEPT !.context = context]
           t == Rotate(saved, FALSE)
<1>1. /\ s \in State /\ p \in TaskId /\ s.cpu = p /\ p \in s.tasks
      /\ s.context \in [TaskId -> TaskId] /\ s.tasks \in SUBSET TaskId
      /\ Ready(s) \in SUBSET TaskId /\ p \in Ready(s)
  BY CurrentIsReady DEF IInv, Core, State, Ready
<1>2. /\ Queues(s, Ready(s)) /\ s.running[s.current_level] # <<>>
      /\ TopLevelOf(s) /\ Bookkeeping(s)
      /\ \A q \in s.tasks : q # s.cpu => s.context[q] = q
  BY DEF IInv, Core, RunQueuesOf
<1>3. SwitchTask(s) = IF CurrentTask(t) # p THEN RestoreContext(t) ELSE t
  BY DEF SwitchTask
<1> HIDE DEF p
<1>4. context \in [TaskId -> TaskId] /\ \A q \in s.tasks : context[q] = q
  BY <1>1, <1>2
<1> HIDE DEF context
<1>5. /\ saved \in State /\ saved.context = context /\ saved.awake = s.awake
      /\ saved.tasks = s.tasks /\ saved.level = s.level /\ saved.running = s.running
      /\ saved.current_level = s.current_level /\ saved.cpu = s.cpu
      /\ saved.level_changed = s.level_changed
      /\ saved.latest_id = s.latest_id /\ saved.finish_waiter = s.finish_waiter
  BY <1>1, <1>4 DEF State
<1> HIDE DEF saved
<1>6. Queues(saved, Ready(s)) /\ TopLevelOf(saved)
  BY <1>2, <1>5 DEF Queues, TopLevelOf
<1>7. /\ t = [saved EXCEPT !.running = t.running, !.level_changed = FALSE,
                           !.current_level = t.current_level]
      /\ t \in State /\ Queues(t, Ready(s))
      /\ t.running[t.current_level] # <<>> /\ TopLevelOf(t)
  BY <1>1, <1>2, <1>5, <1>6, RotateFacts
<1> HIDE DEF t
<1>8. /\ t.awake = s.awake /\ t.tasks = s.tasks /\ t.cpu = p /\ t.context = context
      /\ t.latest_id = s.latest_id /\ t.finish_waiter = s.finish_waiter
  BY <1>1, <1>5, <1>7 DEF State
<1>9. Core(t) /\ t.context[t.cpu] = t.cpu
  <2>1. Ready(t) = Ready(s)
    BY <1>8 DEF Ready
  <2>2. Bookkeeping(t)
    BY <1>2, <1>8 DEF Bookkeeping
  <2> QED
    BY <1>1, <1>4, <1>7, <1>8, <2>1, <2>2 DEF Core, RunQueuesOf
<1>10. CASE CurrentTask(t) # p
  BY <1>3, <1>9, <1>10, RestoreKeeps
<1>11. CASE CurrentTask(t) = p
  BY <1>3, <1>8, <1>9, <1>11 DEF IInv
<1> QED
  BY <1>10, <1>11

\* A task more, that sleeps.
LEMMA NewTaskKeeps ==
  ASSUME NEW s, IInv(s), s.latest_id < MaxTask
  PROVE  IInv(NewTask(s))
<1> DEFINE p == s.latest_id + 1
           context == [s.context EXCEPT ![p] = p]
           t == [s EXCEPT !.latest_id = p, !.tasks = s.tasks \cup {p},
                          !.context = context]
<1>1. /\ s \in State /\ s.latest_id \in TaskId /\ s.tasks \in SUBSET TaskId
      /\ s.context \in [TaskId -> TaskId]
  BY DEF IInv, Core, State
<1>2. p \in TaskId /\ \A q \in TaskId : q > p => q > s.latest_id /\ q # p
  BY <1>1, BoundsAssumption DEF TaskId
<1>3. p \notin s.tasks /\ ~s.awake[p]
  BY <1>1, <1>2, BoundsAssumption DEF IInv, Core, Bookkeeping, TaskId
<1>4. NewTask(s) = t
  BY DEF NewTask
<1> HIDE DEF p
<1>5. /\ context \in [TaskId -> TaskId] /\ context[p] = p
      /\ \A q \in s.tasks : context[q] = s.context[q]
  BY <1>1, <1>2, <1>3
<1> HIDE DEF context
<1>6. /\ t \in State /\ t.tasks = s.tasks \cup {p} /\ t.context = context
      /\ t.latest_id = p /\ t.awake = s.awake /\ t.level = s.level
      /\ t.running = s.running /\ t.current_level = s.current_level
      /\ t.cpu = s.cpu /\ t.level_changed = s.level_changed
      /\ t.finish_waiter = s.finish_waiter
  BY <1>1, <1>2, <1>5 DEF State
<1> HIDE DEF t
<1>7. Ready(t) = Ready(s)
  BY <1>3, <1>6 DEF Ready
<1>8. RunQueuesOf(t) /\ TopLevelOf(t) /\ CurrentTask(t) = CurrentTask(s)
  BY <1>6, <1>7 DEF IInv, Core, RunQueuesOf, Queues, TopLevelOf, CurrentTask
<1>9. Bookkeeping(t)
  BY <1>1, <1>2, <1>6 DEF IInv, Core, Bookkeeping
<1>10. \A q \in t.tasks : q # t.cpu => t.context[q] = q
  <2>1. \A q \in s.tasks : q # s.cpu => s.context[q] = q
    BY DEF IInv, Core
  <2> QED
    BY <1>5, <1>6, <2>1
<1> QED
  BY <1>4, <1>6, <1>8, <1>9, <1>10 DEF IInv, Core

\* What Finish makes before it wakes the task that waits and switches.
Gone(s) ==
  [Rotate(s, TRUE) EXCEPT !.tasks = s.tasks \ {CurrentTask(s)},
                          !.finish_tasks = s.finish_tasks \cup {CurrentTask(s)},
                          !.finish_waiter = EraseKey(s.finish_waiter, CurrentTask(s))]

\* The current task is in no queue any more, nobody waits for it, and the new
\* current task is one that none of those left outranks.
LEMMA GoneFacts ==
  ASSUME NEW s, IInv(s), s.cpu # IdleTask,
         \A id \in DOMAIN s.finish_waiter : s.finish_waiter[id] # s.cpu
  PROVE  LET t == Gone(s)
         IN /\ Core(t)
            /\ t.tasks = s.tasks \ {s.cpu} /\ t.latest_id = s.latest_id
            /\ t.level = s.level /\ t.msgs = s.msgs /\ t.awake = s.awake /\ t.cpu = s.cpu
            /\ t.finish_tasks = s.finish_tasks \cup {s.cpu}
            /\ DOMAIN t.finish_waiter = DOMAIN s.finish_waiter \ {s.cpu}
            /\ \A id \in DOMAIN t.finish_waiter : t.finish_waiter[id] = s.finish_waiter[id]
            /\ s.cpu \in DOMAIN s.finish_waiter => s.finish_waiter[s.cpu] \in t.tasks
            /\ Ready(t) = Ready(s) \ {s.cpu}
            /\ CurrentTask(t) \in Ready(t)
            /\ \A q \in Ready(t) : s.level[q] <= s.level[CurrentTask(t)]
            /\ Finish(s) = RestoreContext(IF s.cpu \in DOMAIN s.finish_waiter
                                          THEN Wakeup(t, s.finish_waiter[s.cpu], -1) ELSE t)
<1> DEFINE p == CurrentTask(s)
           left == Ready(s) \ {p}
           t == Rotate(s, TRUE)
           tasks == s.tasks \ {p}
           finish_tasks == s.finish_tasks \cup {p}
           waiter == EraseKey(s.finish_waiter, p)
           gone == [t EXCEPT !.tasks = tasks, !.finish_tasks = finish_tasks,
                             !.finish_waiter = waiter]
<1>1. /\ s \in State /\ p \in TaskId /\ s.cpu = p /\ p \in s.tasks
      /\ s.tasks \in SUBSET TaskId /\ Ready(s) \in SUBSET TaskId
      /\ s.finish_tasks \in SUBSET TaskId
      /\ s.finish_waiter \in UNION {[D -> TaskId] : D \in SUBSET TaskId}
  BY CurrentIsReady DEF IInv, Core, State, Ready
<1>2. /\ Queues(s, Ready(s)) /\ s.running[s.current_level] # <<>>
      /\ TopLevelOf(s) /\ Bookkeeping(s)
      /\ \A q \in s.tasks : q # s.cpu => s.context[q] = q
  BY DEF IInv, Core, RunQueuesOf
<1>3. left \in SUBSET TaskId /\ left # {}
  BY <1>1, <1>2, ConstantFacts DEF Bookkeeping, Ready
<1>4. /\ t = [s EXCEPT !.running = t.running, !.level_changed = FALSE,
                       !.current_level = t.current_level]
      /\ t \in State /\ Queues(t, left)
      /\ t.running[t.current_level] # <<>> /\ TopLevelOf(t)
  BY <1>1, <1>2, <1>3, RotateFacts
<1>5. Gone(s) = gone
  BY DEF Gone
<1>6. /\ waiter \in UNION {[D -> TaskId] : D \in SUBSET TaskId}
      /\ DOMAIN waiter = DOMAIN s.finish_waiter \ {p}
      /\ \A id \in DOMAIN waiter : waiter[id] = s.finish_waiter[id]
      /\ p \notin DOMAIN s.finish_waiter => waiter = s.finish_waiter
  <2>1. PICK D \in SUBSET TaskId : s.finish_waiter \in [D -> TaskId]
    BY <1>1
  <2>2. waiter \in [D \ {p} -> TaskId] /\ D \ {p} \in SUBSET TaskId
    BY <2>1 DEF EraseKey
  <2>3. p \notin D => waiter = s.finish_waiter
    BY <2>1 DEF EraseKey
  <2>4. \A id \in DOMAIN waiter : waiter[id] = s.finish_waiter[id]
    BY DEF EraseKey
  <2> HIDE DEF waiter
  <2> QED
    BY <2>1, <2>2, <2>3, <2>4
<1> HIDE DEF waiter, t
<1>7. Finish(s) = RestoreContext(IF p \in DOMAIN s.finish_waiter
                                 THEN Wakeup(gone, s.finish_waiter[p], -1) ELSE gone)
  <2> DEFINE part == [t EXCEPT !.tasks = tasks, !.finish_tasks = finish_tasks]
  <2>1. Finish(s) = RestoreContext(
                      IF p \in DOMAIN s.finish_waiter
                      THEN Wakeup([part EXCEPT !.finish_waiter = waiter], s.finish_waiter[p], -1)
                      ELSE part)
    BY DEF Finish, t, waiter
  <2>2. t.finish_waiter = s.finish_waiter
    BY <1>1, <1>4 DEF State
  <2> HIDE DEF p, tasks, finish_tasks
  <2>3. [part EXCEPT !.finish_waiter = waiter] = gone
    BY <1>4 DEF State
  <2>4. part \in State /\ part.finish_waiter = s.finish_waiter
    BY <1>1, <1>4, <2>2 DEF State, tasks, finish_tasks
  <2> HIDE DEF part, gone
  <2>5. [part EXCEPT !.finish_waiter = part.finish_waiter] = part
    BY <2>4 DEF State
  <2> QED
    BY <1>6, <2>1, <2>3, <2>4, <2>5
<1> HIDE DEF p
<1>8. /\ gone \in State /\ gone.tasks = s.tasks \ {p} /\ gone.awake = s.awake
      /\ gone.level = s.level /\ gone.running = t.running /\ gone.msgs = s.msgs
      /\ gone.current_level = t.current_level /\ gone.level_changed = FALSE
      /\ gone.cpu = p /\ gone.context = s.context
      /\ gone.finish_tasks = s.finish_tasks \cup {p}
      /\ gone.latest_id = s.latest_id /\ gone.finish_waiter = waiter
  BY <1>1, <1>4, <1>6 DEF State
<1> HIDE DEF gone
<1>9. Ready(gone) = left
  BY <1>8 DEF Ready
<1>10. RunQueuesOf(gone) /\ TopLevelOf(gone)
  <2>1. t.level = s.level /\ t.level_changed = FALSE
    BY <1>1, <1>4 DEF State
  <2>2. Queues(gone, left)
    BY <1>4, <1>8, <2>1 DEF Queues
  <2>3. gone.running[gone.current_level] # <<>> /\ TopLevelOf(gone)
    BY <1>4, <1>8, <2>1 DEF TopLevelOf
  <2> QED
    BY <1>9, <2>2, <2>3 DEF RunQueuesOf
<1>11. Bookkeeping(gone)
  BY <1>1, <1>2, <1>6, <1>8 DEF Bookkeeping
<1>12. Core(gone)
  BY <1>1, <1>2, <1>8, <1>10, <1>11 DEF Core
<1>13. CurrentTask(gone) \in left
       /\ \A q \in left : s.level[q] <= s.level[CurrentTask(gone)]
  BY <1>3, <1>8, <1>9, <1>10, CurrentIsBest DEF RunQueuesOf
<1>14. p \in DOMAIN s.finish_waiter => s.finish_waiter[p] \in gone.tasks
  BY <1>1, <1>2, <1>8 DEF Bookkeeping
<1> QED
  BY <1>1, <1>5, <1>6, <1>7, <1>8, <1>9, <1>12, <1>13, <1>14

\* The task that runs is deleted, and the one that waits for it is woken.
LEMMA FinishKeeps ==
  ASSUME NEW s, IInv(s), s.cpu # IdleTask,
         \A id \in DOMAIN s.finish_waiter : s.finish_waiter[id] # s.cpu
  PROVE  IInv(Finish(s))
<1> DEFINE t == Gone(s)
           v == Wakeup(t, s.finish_waiter[s.cpu], -1)
<1>1. /\ Core(t) /\ t.cpu = s.cpu /\ t.tasks = s.tasks \ {s.cpu}
      /\ s.cpu \in DOMAIN s.finish_waiter => s.finish_waiter[s.cpu] \in t.tasks
      /\ Finish(s) = RestoreContext(IF s.cpu \in DOMAIN s.finish_waiter THEN v ELSE t)
  BY GoneFacts
<1> HIDE DEF t
<1>2. CASE s.cpu \notin DOMAIN s.finish_waiter
  BY <1>1, <1>2, RestoreKeeps
<1>3. CASE s.cpu \in DOMAIN s.finish_waiter
  <2>1. Core(v) /\ v.cpu = s.cpu /\ v.tasks = s.tasks \ {s.cpu}
    BY <1>1, <1>3, WakeupKeeps
  <2> HIDE DEF v
  <2> QED
    BY <1>1, <1>3, <2>1, RestoreKeeps
<1> QED
  BY <1>2, <1>3

\* The state in which the task that runs is entered as waiting for id.
Entered(s, id) ==
  [s EXCEPT !.finish_waiter = [k \in DOMAIN s.finish_waiter \cup {id} |->
                                 IF k = id THEN CurrentTask(s) ELSE s.finish_waiter[k]]]

\* The first half of WaitFinish (task.cpp), before the task sleeps.
LEMMA EnteredKeeps ==
  ASSUME NEW s, IInv(s), s.cpu # IdleTask, NEW id \in TaskId
  PROVE  LET t == Entered(s, id)
         IN /\ IInv(t) /\ CurrentTask(t) = CurrentTask(s) /\ t.cpu = s.cpu
            /\ t.tasks = s.tasks /\ t.awake = s.awake /\ t.level = s.level
<1> DEFINE p == CurrentTask(s)
           waiter == [k \in DOMAIN s.finish_waiter \cup {id} |->
                        IF k = id THEN p ELSE s.finish_waiter[k]]
           entered == [s EXCEPT !.finish_waiter = waiter]
<1>1. /\ s \in State /\ p \in TaskId /\ s.cpu = p /\ p \in s.tasks
      /\ s.finish_waiter \in UNION {[D -> TaskId] : D \in SUBSET TaskId}
  BY CurrentIsReady DEF IInv, Core, State
<1>2. /\ RunQueuesOf(s) /\ TopLevelOf(s) /\ Bookkeeping(s)
      /\ \A q \in s.tasks : q # s.cpu => s.context[q] = q
  BY DEF IInv, Core
<1>3. p = Head(s.running[s.current_level])
  BY DEF CurrentTask
<1> HIDE DEF p
<1>4. waiter \in UNION {[D -> TaskId] : D \in SUBSET TaskId}
      /\ \A k \in DOMAIN waiter : waiter[k] \in s.tasks \ {IdleTask}
  <2>1. waiter \in [DOMAIN s.finish_waiter \cup {id} -> TaskId]
    BY <1>1
  <2>2. DOMAIN s.finish_waiter \cup {id} \in SUBSET TaskId
    BY <1>1
  <2>3. \A k \in DOMAIN waiter : waiter[k] \in s.tasks \ {IdleTask}
    BY <1>1, <1>2 DEF Bookkeeping
  <2> HIDE DEF waiter
  <2> QED
    BY <2>1, <2>2, <2>3
<1> HIDE DEF waiter
<1>5. /\ entered \in State /\ entered.tasks = s.tasks /\ entered.awake = s.awake
      /\ entered.level = s.level /\ entered.running = s.running
      /\ entered.current_level = s.current_level
      /\ entered.level_changed = s.level_changed
      /\ entered.cpu = s.cpu /\ entered.context = s.context
      /\ entered.latest_id = s.latest_id /\ entered.finish_waiter = waiter
  BY <1>1, <1>4 DEF State
<1> HIDE DEF entered
<1>6. RunQueuesOf(entered) /\ TopLevelOf(entered) /\ Bookkeeping(entered)
  BY <1>2, <1>4, <1>5 DEF RunQueuesOf, Queues, Ready, TopLevelOf, Bookkeeping
<1>7. IInv(entered) /\ CurrentTask(entered) = p
  BY <1>1, <1>2, <1>3, <1>5, <1>6 DEF IInv, Core, CurrentTask
<1>8. Entered(s, id) = entered
  BY DEF Entered, entered, waiter, p
<1> QED
  BY <1>1, <1>5, <1>7, <1>8 DEF p

\* An exit code is taken, or the task that runs is entered as waiting.
LEMMA WaitFinishKeeps ==
  ASSUME NEW s, IInv(s), s.cpu # IdleTask, NEW id \in TaskId
  PROVE  IInv(WaitFinish(s, id))
<1> DEFINE p == CurrentTask(s)
           tasks == s.finish_tasks \ {id}
           taken == [s EXCEPT !.finish_tasks = tasks]
<1>1. /\ s \in State /\ p \in TaskId /\ s.cpu = p /\ p \in s.tasks
      /\ s.finish_tasks \in SUBSET TaskId
  BY CurrentIsReady DEF IInv, Core, State
<1>2. /\ RunQueuesOf(s) /\ TopLevelOf(s) /\ Bookkeeping(s)
      /\ \A q \in s.tasks : q # s.cpu => s.context[q] = q
  BY DEF IInv, Core
<1>3. WaitFinish(s, id) = IF id \in s.finish_tasks THEN taken ELSE Sleep(Entered(s, id), p)
  BY DEF WaitFinish, Entered
<1>4. p = Head(s.running[s.current_level])
  BY DEF CurrentTask
<1> HIDE DEF p
<1>5. CASE id \in s.finish_tasks
  <2>1. /\ taken \in State /\ taken.tasks = s.tasks /\ taken.awake = s.awake
        /\ taken.level = s.level /\ taken.running = s.running
        /\ taken.current_level = s.current_level /\ taken.level_changed = s.level_changed
        /\ taken.cpu = s.cpu /\ taken.context = s.context
        /\ taken.latest_id = s.latest_id /\ taken.finish_waiter = s.finish_waiter
    BY <1>1 DEF State
  <2> HIDE DEF taken
  <2>2. RunQueuesOf(taken) /\ TopLevelOf(taken) /\ Bookkeeping(taken)
    BY <1>2, <2>1 DEF RunQueuesOf, Queues, Ready, TopLevelOf, Bookkeeping
  <2> QED
    BY <1>1, <1>2, <1>3, <1>4, <1>5, <2>1, <2>2 DEF IInv, Core, CurrentTask
<1>6. CASE id \notin s.finish_tasks
  BY <1>1, <1>3, <1>6, EnteredKeeps, SleepKeeps
<1> QED
  BY <1>5, <1>6

-----------------------------------------------------------------------------
(* The task manager: the theorems *)

\* The constructor establishes the invariant ...
LEMMA InitHolds == Init => IInv(tm)
<1> SUFFICES ASSUME Init PROVE IInv(tm)
  OBVIOUS
<1> DEFINE level == [p \in TaskId |-> CASE p = MainTask -> kMaxLevel
                                       [] p = IdleTask -> 0
                                       [] OTHER -> kDefaultLevel]
           awake == [p \in TaskId |-> p \in {MainTask, IdleTask}]
           running == [lv \in Level |-> CASE lv = kMaxLevel -> <<MainTask>>
                                          [] lv = 0 -> <<IdleTask>>
                                          [] OTHER -> <<>>]
           waiter == [p \in {} |-> p]
<1>1. /\ level \in [TaskId -> Level] /\ level[MainTask] = kMaxLevel /\ level[IdleTask] = 0
      /\ awake \in [TaskId -> BOOLEAN]
      /\ \A p \in TaskId : awake[p] <=> p \in {MainTask, IdleTask}
  <2>1. level \in [TaskId -> Level] /\ level[MainTask] = kMaxLevel /\ level[IdleTask] = 0
    BY ConstantFacts
  <2>2. awake \in [TaskId -> BOOLEAN]
    OBVIOUS
  <2>3. \A p \in TaskId : awake[p] <=> p \in {MainTask, IdleTask}
    OBVIOUS
  <2> QED
    BY <2>1, <2>2, <2>3
<1>2. /\ running \in [Level -> Seq(TaskId)]
      /\ running[kMaxLevel] = <<MainTask>> /\ running[0] = <<IdleTask>>
      /\ \A lv \in Level : lv # kMaxLevel /\ lv # 0 => running[lv] = <<>>
  BY ConstantFacts
<1>3. waiter \in UNION {[D -> TaskId] : D \in SUBSET TaskId} /\ DOMAIN waiter = {}
  <2>1. waiter \in [{} -> TaskId] /\ {} \in SUBSET TaskId
    OBVIOUS
  <2> QED
    BY <2>1
<1> HIDE DEF level, awake, running, waiter
<1>4. /\ tm.tasks = {MainTask, IdleTask} /\ tm.latest_id = IdleTask
      /\ tm.level = level /\ tm.awake = awake
      /\ tm.msgs = [p \in TaskId |-> <<>>] /\ tm.context = [p \in TaskId |-> p]
      /\ tm.running = running /\ tm.current_level = kMaxLevel
      /\ tm.level_changed = FALSE
      /\ tm.finish_tasks = {} /\ tm.finish_waiter = waiter /\ tm.cpu = MainTask
  BY DEF Init, level, awake, running, waiter
<1>5. tm \in State
  <2>1. tm = [tasks |-> tm.tasks, latest_id |-> tm.latest_id, level |-> tm.level,
              awake |-> tm.awake, msgs |-> tm.msgs, context |-> tm.context,
              running |-> tm.running, current_level |-> tm.current_level,
              level_changed |-> tm.level_changed, finish_tasks |-> tm.finish_tasks,
              finish_waiter |-> tm.finish_waiter, cpu |-> tm.cpu]
    BY DEF Init
  <2>2. tm.msgs \in [TaskId -> Seq(Message)] /\ tm.context \in [TaskId -> TaskId]
    BY <1>4
  <2>3. /\ tm.tasks \in SUBSET TaskId /\ tm.latest_id \in TaskId
        /\ tm.finish_tasks \in SUBSET TaskId /\ tm.cpu \in TaskId
        /\ tm.current_level \in Level /\ tm.level_changed \in BOOLEAN
    BY <1>4, ConstantFacts
  <2>4. /\ tm.level \in [TaskId -> Level] /\ tm.awake \in [TaskId -> BOOLEAN]
        /\ tm.running \in [Level -> Seq(TaskId)]
    BY <1>1, <1>2, <1>4
  <2>5. tm.finish_waiter \in UNION {[D -> TaskId] : D \in SUBSET TaskId}
    BY <1>3, <1>4
  <2> HIDE DEF level, awake, running, waiter
  <2> QED
    BY <2>1, <2>2, <2>3, <2>4, <2>5 DEF State
<1>6. Queues(tm, Ready(tm))
  <2>1. Ready(tm) = {MainTask, IdleTask}
    BY <1>1, <1>4, ConstantFacts DEF Ready
  <2>2. ASSUME NEW lv \in Level
        PROVE  /\ Range(running[lv]) = { p \in {MainTask, IdleTask} : level[p] = lv }
               /\ IsInjective(running[lv])
    <3>1. CASE lv = kMaxLevel
      BY <1>1, <1>2, <3>1, ConstantFacts DEF Range, IsInjective
    <3>2. CASE lv = 0
      BY <1>1, <1>2, <3>2, ConstantFacts DEF Range, IsInjective
    <3>3. CASE lv # kMaxLevel /\ lv # 0
      BY <1>1, <1>2, <3>3 DEF Range, IsInjective
    <3> QED
      BY <3>1, <3>2, <3>3
  <2> QED
    BY <1>4, <2>1, <2>2 DEF Queues
<1>7. CurrentTask(tm) = MainTask /\ tm.running[tm.current_level] # <<>>
  BY <1>2, <1>4, ConstantFacts DEF CurrentTask
<1>8. TopLevelOf(tm)
  BY <1>2, <1>4, LevelAssumption DEF TopLevelOf, Level
<1>9. Bookkeeping(tm)
  <2>1. \A p \in TaskId : p > IdleTask => p # MainTask /\ p # IdleTask
    BY DEF TaskId, MainTask, IdleTask
  <2> QED
    BY <1>1, <1>3, <1>4, <2>1, ConstantFacts DEF Bookkeeping
<1>10. \A p \in tm.tasks : p # tm.cpu => tm.context[p] = p
  BY <1>4, ConstantFacts
<1> QED
  BY <1>4, <1>5, <1>6, <1>7, <1>8, <1>9, <1>10 DEF IInv, Core, RunQueuesOf

\* ... and every call and every interrupt keeps it.
LEMMA StepHolds == IInv(tm) /\ [Next]_tm => IInv(tm)'
<1> SUFFICES ASSUME IInv(tm), [Next]_tm
             PROVE  IInv(tm')
  OBVIOUS
<1>1. /\ tm \in State /\ tm.tasks \in SUBSET TaskId /\ tm.cpu \in TaskId
      /\ tm.finish_tasks \in SUBSET TaskId /\ MainTask \in TaskId /\ Core(tm)
  BY ConstantFacts DEF IInv, Core, State
<1>2. CASE Create
  BY <1>2, NewTaskKeeps DEF Create
<1>3. CASE Wake
  <2>1. WakeLevels \subseteq Level \cup {-1}
    BY LevelAssumption DEF Level
  <2> QED
    BY <1>1, <1>3, <2>1, WakeupKeeps DEF Wake, IInv
<1>4. CASE Suspend
  BY <1>4, SleepKeeps DEF Suspend
<1>5. CASE Send
  BY <1>1, <1>5, SendKeeps DEF Send, IInv
<1>6. CASE Receive
  BY <1>1, <1>6, ReceiveKeeps DEF Receive
<1>7. CASE End
  BY <1>7, FinishKeeps DEF End, Calls, Waiting
<1>8. CASE Await
  <2>1. PICK id \in (tm.tasks \cup tm.finish_tasks) \ {MainTask, IdleTask, tm.cpu} :
          /\ \/ Calls /\ id \notin DOMAIN tm.finish_waiter
             \/ id \in DOMAIN tm.finish_waiter /\ tm.finish_waiter[id] = tm.cpu
          /\ tm' = WaitFinish(tm, id)
    BY <1>8 DEF Await
  <2>2. tm.cpu # IdleTask
    BY <1>1, <2>1 DEF Calls, Core, Bookkeeping
  <2> QED
    BY <1>1, <2>1, <2>2, WaitFinishKeeps
<1>9. CASE TimerInterrupt
  <2>1. PICK id \in TaskId \cup {0}, m \in Message, task_timer_timeout \in BOOLEAN :
          tm' = IF task_timer_timeout THEN SwitchTask(SendMessage(tm, id, m))
                ELSE SendMessage(tm, id, m)
    BY <1>9 DEF TimerInterrupt
  <2>2. IInv(SendMessage(tm, id, m))
    BY <1>1, SendKeeps DEF IInv
  <2> QED
    BY <2>1, <2>2, SwitchTaskKeeps
<1>10. CASE XHCIInterrupt
  BY <1>1, <1>10, SendKeeps DEF XHCIInterrupt, IInv
<1>11. CASE UNCHANGED tm
  BY <1>11
<1> QED
  BY <1>2, <1>3, <1>4, <1>5, <1>6, <1>7, <1>8, <1>9, <1>10, <1>11 DEF Next

\* The run queues, the flags, the levels, the contexts and the waiters are
\* consistent at every moment at which interrupts are enabled.
THEOREM Invariant == Spec => []IInv(tm)
  BY InitHolds, StepHolds, PTL DEF Spec

\* Whatever the callers do, the members of TaskManager and Task keep their
\* types: no id out of bounds in a queue, no level that does not exist.
THEOREM TypeCorrect == Spec => []TypeOK
<1>1. IInv(tm) => TypeOK
  BY DEF IInv, Core, TypeOK
<1> QED
  BY <1>1, Invariant, PTL

\* The flags, the levels and the run queues agree, and the current level's
\* queue is never empty: CurrentTask always has a front to return.
THEOREM RunQueuesCorrect == Spec => []RunQueues
<1>1. IInv(tm) => RunQueues
  BY DEF IInv, Core, RunQueues
<1> QED
  BY <1>1, Invariant, PTL

\* The flag level_changed_ is set whenever a higher level has a task to run.
THEOREM TopLevelCorrect == Spec => []TopLevel
<1>1. IInv(tm) => TopLevel
  BY DEF IInv, Core, TopLevel
<1> QED
  BY <1>1, Invariant, PTL

\* The processor and the saved contexts belong to the tasks they should.
THEOREM ContextsCorrect == Spec => []Contexts
<1>1. IInv(tm) => Contexts
  BY DEF IInv, Core, Contexts, ContextsOf
<1> QED
  BY <1>1, Invariant, PTL

-----------------------------------------------------------------------------
(* The scheduler without queues *)

\* After a rotation the current task is one that none of those left outranks.
LEMMA RotateEffect ==
  ASSUME NEW s \in State, NEW R \in SUBSET TaskId, NEW sleep \in BOOLEAN,
         NEW left, left = IF sleep THEN R \ {CurrentTask(s)} ELSE R, left # {},
         Queues(s, R), s.running[s.current_level] # <<>>, TopLevelOf(s)
  PROVE  LET t == Rotate(s, sleep)
         IN /\ t \in State /\ t.running[t.current_level] # <<>>
            /\ t.tasks = s.tasks /\ t.level = s.level /\ t.awake = s.awake
            /\ CurrentTask(t) \in left
            /\ \A q \in left : s.level[q] <= s.level[CurrentTask(t)]
<1> DEFINE t == Rotate(s, sleep)
<1>1. /\ t = [s EXCEPT !.running = t.running, !.level_changed = FALSE,
                       !.current_level = t.current_level]
      /\ t \in State /\ Queues(t, left)
      /\ t.running[t.current_level] # <<>> /\ TopLevelOf(t)
  BY RotateFacts
<1> HIDE DEF t
<1>2. /\ t.tasks = s.tasks /\ t.level = s.level /\ t.awake = s.awake
      /\ t.level_changed = FALSE
  BY <1>1 DEF State
<1>3. left \in SUBSET TaskId
  OBVIOUS
<1>4. CurrentTask(t) \in left /\ \A q \in left : t.level[q] <= t.level[CurrentTask(t)]
  BY <1>1, <1>2, <1>3, CurrentIsBest
<1> QED
  BY <1>1, <1>2, <1>4 DEF t

\* A task is made ready, with its level or another, and does not get the
\* processor.
LEMMA WakeupEffect ==
  ASSUME NEW s \in State, NEW p \in s.tasks, NEW lv0 \in Level \cup {-1}
  PROVE  LET t == Wakeup(s, p, lv0)
         IN /\ t.tasks = s.tasks /\ t.cpu = s.cpu
            /\ Ready(t) = Ready(s) \cup {p}
            /\ \E l \in Level : t.level = [s.level EXCEPT ![p] = l]
            /\ lv0 = -1 => t.level = s.level
<1> DEFINE lv == IF lv0 < 0 THEN s.level[p] ELSE lv0
           t == Wakeup(s, p, lv0)
<1>1. /\ p \in TaskId /\ lv \in Level /\ s.level \in [TaskId -> Level]
      /\ s.awake \in [TaskId -> BOOLEAN] /\ s.tasks \in SUBSET TaskId
      /\ s.level[p] \in Level /\ Level \subseteq Nat
      /\ lv0 = -1 => lv = s.level[p]
  BY ConstantFacts DEF State
<1>2. s.level = [s.level EXCEPT ![p] = s.level[p]]
  BY <1>1
<1>3. CASE s.awake[p]
  <2>1. t = ChangeLevelRunning(s, p, lv0)
    BY <1>3 DEF Wakeup
  <2>2. /\ t.tasks = s.tasks /\ t.cpu = s.cpu /\ t.awake = s.awake
        /\ t.level = s.level \/ (lv0 \in Level /\ t.level = [s.level EXCEPT ![p] = lv0])
        /\ lv0 = -1 => t.level = s.level
    BY <1>1, <2>1 DEF ChangeLevelRunning, State
  <2> HIDE DEF t
  <2>3. Ready(t) = Ready(s) \cup {p}
    BY <1>3, <2>2 DEF Ready
  <2> QED
    BY <1>1, <1>2, <2>2, <2>3 DEF t
<1>4. CASE ~s.awake[p]
  <2> DEFINE awake == [s.awake EXCEPT ![p] = TRUE]
             level == [s.level EXCEPT ![p] = lv]
             running == [s.running EXCEPT ![lv] = Append(s.running[lv], p)]
             changed == s.level_changed \/ lv > s.current_level
  <2>1. t = [s EXCEPT !.level = level, !.awake = awake, !.running = running,
                      !.level_changed = changed]
    BY <1>4 DEF Wakeup
  <2>2. awake[p] /\ \A q \in TaskId : q # p => awake[q] = s.awake[q]
    BY <1>1
  <2> HIDE DEF running, changed, awake, level
  <2>3. t.tasks = s.tasks /\ t.cpu = s.cpu /\ t.awake = awake /\ t.level = level
    BY <2>1 DEF State
  <2> HIDE DEF t
  <2>4. Ready(t) = Ready(s) \cup {p}
    BY <1>1, <2>2, <2>3 DEF Ready
  <2>5. lv0 = -1 => level = s.level
    BY <1>1, <1>2 DEF level
  <2>6. \E l \in Level : level = [s.level EXCEPT ![p] = l]
    BY <1>1 DEF level
  <2> QED
    BY <2>3, <2>4, <2>5, <2>6 DEF t
<1> QED
  BY <1>3, <1>4

\* The front of the current queue stays there when a task is woken behind it.
LEMMA WakeupFront ==
  ASSUME NEW s \in State, NEW p \in TaskId, s.running[s.current_level] # <<>>
  PROVE  /\ Wakeup(s, p, -1) \in State
         /\ CurrentTask(Wakeup(s, p, -1)) = CurrentTask(s)
<1> DEFINE lv == s.level[p]
           cur == s.current_level
           level == [s.level EXCEPT ![p] = lv]
           awake == [s.awake EXCEPT ![p] = TRUE]
           changed == s.level_changed \/ lv > cur
           running == [s.running EXCEPT ![lv] = Append(s.running[lv], p)]
           t == Wakeup(s, p, -1)
<1>1. /\ lv \in Level /\ cur \in Level /\ s.running \in [Level -> Seq(TaskId)]
      /\ s.running[cur] \in Seq(TaskId)
  BY DEF State
<1>2. CASE s.awake[p]
  BY <1>2 DEF Wakeup, ChangeLevelRunning
<1>3. CASE ~s.awake[p]
  <2>1. t = [s EXCEPT !.level = level, !.awake = awake, !.running = running,
                      !.level_changed = changed]
    BY <1>3 DEF Wakeup
  <2>2. Head(running[cur]) = Head(s.running[cur])
    <3>1. CASE cur = lv
      <4>1. Head(Append(s.running[cur], p)) = Head(s.running[cur])
        BY <1>1
      <4> QED
        BY <1>1, <3>1, <4>1
    <3>2. CASE cur # lv
      BY <1>1, <3>2
    <3> QED
      BY <3>1, <3>2
  <2>3. /\ level \in [TaskId -> Level] /\ awake \in [TaskId -> BOOLEAN]
        /\ running \in [Level -> Seq(TaskId)] /\ changed \in BOOLEAN
    <3>1. Append(s.running[lv], p) \in Seq(TaskId)
      BY <1>1
    <3> QED
      BY <1>1, <3>1 DEF State
  <2> HIDE DEF running, level, awake, changed
  <2>4. t \in State /\ t.running = running /\ t.current_level = cur
    BY <2>1, <2>3 DEF State
  <2> HIDE DEF t
  <2> QED
    BY <2>2, <2>4 DEF CurrentTask, t
<1> QED
  BY <1>2, <1>3
\* The tasks of R that none of R outranks.
BestOf(R, level) == { p \in R : \A q \in R : level[q] <= level[p] }

\* A message more in a mailbox and its task woken, at its own level.
LEMMA SendEffect ==
  ASSUME NEW s \in State, NEW id \in TaskId \cup {0}, NEW m \in Message
  PROVE  LET t == SendMessage(s, id, m)
         IN /\ t.tasks = s.tasks /\ t.cpu = s.cpu /\ t.level = s.level
            /\ Ready(t) = Ready(s) \/ \E p \in s.tasks : Ready(t) = Ready(s) \cup {p}
<1> DEFINE msgs == [s.msgs EXCEPT ![id] = Append(s.msgs[id], m)]
           u == [s EXCEPT !.msgs = msgs]
<1>1. CASE id \notin s.tasks
  BY <1>1 DEF SendMessage
<1>2. CASE id \in s.tasks
  <2>1. msgs \in [TaskId -> Seq(Message)]
    <3>1. id \in TaskId /\ s.msgs \in [TaskId -> Seq(Message)]
      BY <1>2 DEF State
    <3> QED
      BY <3>1
  <2> HIDE DEF msgs
  <2>2. /\ u \in State /\ u.tasks = s.tasks /\ u.cpu = s.cpu
        /\ u.level = s.level /\ u.awake = s.awake
    BY <2>1 DEF State
  <2>3. SendMessage(s, id, m) = Wakeup(u, id, -1)
    BY <1>2 DEF SendMessage, msgs
  <2> HIDE DEF u
  <2>4. Ready(u) = Ready(s)
    BY <2>2 DEF Ready
  <2> QED
    BY <1>2, <2>2, <2>3, <2>4, WakeupEffect
<1> QED
  BY <1>1, <1>2

\* A task is put to sleep: nothing changes, or another task waits, or the one
\* that runs does and the processor goes to one of the best of the others.
LEMMA SleepEffect ==
  ASSUME NEW s, IInv(s), NEW p \in s.tasks \ {IdleTask}
  PROVE  LET t == Sleep(s, p)
         IN /\ t.tasks = s.tasks /\ t.level = s.level
            /\ \/ Ready(t) = Ready(s) /\ t.cpu = s.cpu
               \/ /\ p \in Ready(s) \ {s.cpu} /\ Ready(t) = Ready(s) \ {p}
                  /\ t.cpu = s.cpu
               \/ Ready(t) = Ready(s) \ {s.cpu} /\ t.cpu \in BestOf(Ready(t), s.level)
<1> DEFINE awake == [s.awake EXCEPT ![p] = FALSE]
           asleep == [s EXCEPT !.awake = awake]
           left == Ready(s) \ {p}
           r == Sleep(s, p)
<1>1. /\ s \in State /\ p \in TaskId /\ s.cpu = CurrentTask(s)
      /\ s.awake \in [TaskId -> BOOLEAN] /\ s.tasks \in SUBSET TaskId
      /\ Ready(s) \in SUBSET TaskId
  BY DEF IInv, Core, State, Ready
<1>2. /\ awake \in [TaskId -> BOOLEAN] /\ ~awake[p]
      /\ \A q \in TaskId : q # p => awake[q] = s.awake[q]
  BY <1>1
<1>3. /\ Queues(s, Ready(s)) /\ s.running[s.current_level] # <<>> /\ TopLevelOf(s)
      /\ IdleTask \in left
  BY <1>1 DEF IInv, Core, RunQueuesOf, Bookkeeping, Ready
<1> HIDE DEF awake
<1>4. /\ asleep \in State /\ asleep.awake = awake /\ asleep.tasks = s.tasks
      /\ asleep.level = s.level /\ asleep.running = s.running
      /\ asleep.current_level = s.current_level /\ asleep.cpu = s.cpu
      /\ asleep.level_changed = s.level_changed
  BY <1>1, <1>2 DEF State
<1> HIDE DEF asleep
<1>5. ASSUME NEW t, t.tasks = s.tasks, t.awake = awake
      PROVE  Ready(t) = left
  BY <1>1, <1>2, <1>5 DEF Ready
<1>6. CASE ~s.awake[p]
  BY <1>6 DEF Sleep
<1>7. CASE s.awake[p] /\ p = CurrentTask(s)
  <2> DEFINE t == Rotate(asleep, TRUE)
  <2>1. r = SwitchContext(t, p)
    BY <1>7 DEF Sleep, asleep, awake
  <2>2. Queues(asleep, Ready(s)) /\ TopLevelOf(asleep) /\ CurrentTask(asleep) = p
    BY <1>3, <1>4, <1>7 DEF Queues, TopLevelOf, CurrentTask
  <2>3. /\ t \in State /\ t.tasks = s.tasks /\ t.level = s.level /\ t.awake = awake
        /\ CurrentTask(t) \in left
        /\ \A q \in left : s.level[q] <= s.level[CurrentTask(t)]
    BY <1>1, <1>3, <1>4, <2>2, RotateEffect
  <2> HIDE DEF t
  <2>4. /\ r.tasks = s.tasks /\ r.level = s.level /\ r.awake = awake
        /\ r.running = t.running /\ r.current_level = t.current_level
    BY <2>1, <2>3 DEF SwitchContext, RestoreContext, State
  <2>5. r.cpu = CurrentTask(t)
    BY <2>4, SleepKeeps DEF IInv, CurrentTask
  <2> HIDE DEF r
  <2>6. Ready(r) = left
    BY <1>5, <2>4
  <2> QED
    BY <1>1, <1>7, <2>3, <2>4, <2>5, <2>6 DEF BestOf, r
<1>8. CASE s.awake[p] /\ p # CurrentTask(s)
  <2>1. r.tasks = s.tasks /\ r.level = s.level /\ r.awake = awake /\ r.cpu = s.cpu
    BY <1>4, <1>8 DEF Sleep, State, asleep, awake
  <2> HIDE DEF r
  <2>2. Ready(r) = left /\ p \in Ready(s) \ {s.cpu}
    BY <1>1, <1>5, <1>8, <2>1 DEF Ready
  <2> QED
    BY <2>1, <2>2 DEF r
<1> QED
  BY <1>6, <1>7, <1>8

\* The queue is rotated: the processor goes to one of the best, or stays there.
LEMMA SwitchTaskEffect ==
  ASSUME NEW s, IInv(s)
  PROVE  LET t == SwitchTask(s)
         IN /\ t.tasks = s.tasks /\ t.level = s.level /\ Ready(t) = Ready(s)
            /\ t.cpu \in BestOf(Ready(t), s.level)
<1> DEFINE p == CurrentTask(s)
           context == [s.context EXCEPT ![p] = s.cpu]
           saved == [s EXCEPT !.context = context]
           t == Rotate(saved, FALSE)
           r == SwitchTask(s)
<1>1. /\ s \in State /\ p \in TaskId /\ s.cpu = p /\ p \in Ready(s)
      /\ s.context \in [TaskId -> TaskId] /\ Ready(s) \in SUBSET TaskId
      /\ Queues(s, Ready(s)) /\ s.running[s.current_level] # <<>> /\ TopLevelOf(s)
  BY CurrentIsReady DEF IInv, Core, RunQueuesOf, State, Ready
<1>2. context \in [TaskId -> TaskId]
  BY <1>1
<1> HIDE DEF context
<1>3. /\ saved \in State /\ saved.tasks = s.tasks /\ saved.level = s.level
      /\ saved.awake = s.awake /\ saved.running = s.running
      /\ saved.current_level = s.current_level
      /\ saved.level_changed = s.level_changed
  BY <1>1, <1>2 DEF State
<1> HIDE DEF saved
<1>4. Queues(saved, Ready(s)) /\ TopLevelOf(saved)
  BY <1>1, <1>3 DEF Queues, TopLevelOf
<1>5. /\ t \in State /\ t.tasks = s.tasks /\ t.level = s.level /\ t.awake = s.awake
      /\ CurrentTask(t) \in Ready(s)
      /\ \A q \in Ready(s) : s.level[q] <= s.level[CurrentTask(t)]
  BY <1>1, <1>3, <1>4, RotateEffect
<1>6. r = IF CurrentTask(t) # p THEN RestoreContext(t) ELSE t
  BY DEF SwitchTask, saved, context
<1> HIDE DEF t
<1>7. /\ r.tasks = s.tasks /\ r.level = s.level /\ r.awake = s.awake
      /\ r.running = t.running /\ r.current_level = t.current_level
  BY <1>5, <1>6 DEF RestoreContext, State
<1>8. r.cpu = CurrentTask(t)
  BY <1>7, SwitchTaskKeeps DEF IInv, CurrentTask
<1> HIDE DEF r
<1>9. Ready(r) = Ready(s)
  BY <1>7 DEF Ready
<1> QED
  BY <1>5, <1>7, <1>8, <1>9 DEF BestOf, r
\* A task more, which nobody had and which is not ready.
LEMMA NewTaskEffect ==
  ASSUME NEW s, IInv(s), s.latest_id < MaxTask
  PROVE  LET t == NewTask(s)
             p == s.latest_id + 1
         IN /\ p \in TaskId \ s.tasks /\ t.tasks = s.tasks \cup {p}
            /\ t.level = s.level /\ Ready(t) = Ready(s) /\ t.cpu = s.cpu
<1> DEFINE p == s.latest_id + 1
           t == NewTask(s)
<1>1. s \in State /\ s.latest_id \in TaskId
  BY DEF IInv, Core, State
<1>2. p \in TaskId /\ p > s.latest_id
  BY <1>1, BoundsAssumption DEF TaskId
<1>3. p \notin s.tasks /\ ~s.awake[p]
  BY <1>2 DEF IInv, Core, Bookkeeping
<1>4. /\ t.tasks = s.tasks \cup {p} /\ t.level = s.level /\ t.awake = s.awake
      /\ t.cpu = s.cpu
  BY <1>1 DEF NewTask, State
<1> HIDE DEF t, p
<1>5. Ready(t) = Ready(s)
  BY <1>3, <1>4 DEF Ready
<1> QED
  BY <1>2, <1>3, <1>4, <1>5 DEF t, p

\* The task that runs is deleted, the processor goes to one of the best of
\* the others, and the one that waited for it is made ready.
LEMMA FinishEffect ==
  ASSUME NEW s, IInv(s), s.cpu # IdleTask,
         \A id \in DOMAIN s.finish_waiter : s.finish_waiter[id] # s.cpu
  PROVE  LET t == Finish(s)
         IN /\ t.tasks = s.tasks \ {s.cpu} /\ t.level = s.level
            /\ t.cpu \in BestOf(Ready(s) \ {s.cpu}, s.level)
            /\ \/ Ready(t) = Ready(s) \ {s.cpu}
               \/ \E w \in t.tasks : Ready(t) = (Ready(s) \ {s.cpu}) \cup {w}
<1> DEFINE g == Gone(s)
           w == s.finish_waiter[s.cpu]
           v == Wakeup(g, w, -1)
           r == Finish(s)
<1>1. /\ Core(g) /\ g.tasks = s.tasks \ {s.cpu} /\ g.level = s.level
      /\ s.cpu \in DOMAIN s.finish_waiter => w \in g.tasks
      /\ Ready(g) = Ready(s) \ {s.cpu} /\ CurrentTask(g) \in BestOf(Ready(g), s.level)
      /\ r = RestoreContext(IF s.cpu \in DOMAIN s.finish_waiter THEN v ELSE g)
  BY GoneFacts DEF BestOf
<1>2. g \in State /\ g.tasks \in SUBSET TaskId /\ g.running[g.current_level] # <<>>
  BY <1>1 DEF Core, RunQueuesOf, State
<1>3. r.cpu = CurrentTask(r)
  BY FinishKeeps DEF IInv
<1>4. ASSUME NEW x, r = RestoreContext(x), x \in State
      PROVE  /\ r.tasks = x.tasks /\ r.level = x.level /\ Ready(r) = Ready(x)
             /\ r.cpu = CurrentTask(x)
  <2>1. /\ r.tasks = x.tasks /\ r.level = x.level /\ r.awake = x.awake
        /\ r.running = x.running /\ r.current_level = x.current_level
    BY <1>4 DEF RestoreContext, State
  <2> HIDE DEF r
  <2> QED
    BY <1>3, <2>1 DEF Ready, CurrentTask
<1> HIDE DEF g, r
<1>5. CASE s.cpu \notin DOMAIN s.finish_waiter
  BY <1>1, <1>2, <1>4, <1>5 DEF r
<1>6. CASE s.cpu \in DOMAIN s.finish_waiter
  <2>1. w \in g.tasks /\ w \in TaskId
    BY <1>1, <1>2, <1>6
  <2> HIDE DEF w
  <2>2. /\ v.tasks = g.tasks /\ v.level = g.level /\ Ready(v) = Ready(g) \cup {w}
        /\ CurrentTask(v) = CurrentTask(g) /\ v \in State
    BY <1>2, <2>1, WakeupEffect, WakeupFront
  <2> HIDE DEF v
  <2> QED
    BY <1>1, <1>4, <1>6, <2>1, <2>2 DEF r
<1> QED
  BY <1>5, <1>6

\* An exit code is taken, which the scheduler does not see, or the task that
\* runs goes to sleep.
LEMMA WaitFinishEffect ==
  ASSUME NEW s, IInv(s), s.cpu # IdleTask, NEW id \in TaskId
  PROVE  LET t == WaitFinish(s, id)
         IN /\ t.tasks = s.tasks /\ t.level = s.level
            /\ \/ Ready(t) = Ready(s) /\ t.cpu = s.cpu
               \/ Ready(t) = Ready(s) \ {s.cpu} /\ t.cpu \in BestOf(Ready(t), s.level)
<1> DEFINE p == CurrentTask(s)
           u == Entered(s, id)
<1>1. s \in State /\ s.cpu = p /\ p \in s.tasks
  BY CurrentIsReady DEF IInv, Core
<1>2. CASE id \in s.finish_tasks
  <2> DEFINE t == WaitFinish(s, id)
  <2>1. t.tasks = s.tasks /\ t.level = s.level /\ t.awake = s.awake /\ t.cpu = s.cpu
    BY <1>1, <1>2 DEF WaitFinish, State
  <2> QED
    BY <2>1 DEF Ready
<1>3. CASE id \notin s.finish_tasks
  <2>1. WaitFinish(s, id) = Sleep(u, p)
    BY <1>3 DEF WaitFinish, Entered
  <2>2. /\ IInv(u) /\ u.cpu = s.cpu /\ u.tasks = s.tasks /\ u.level = s.level
        /\ u.awake = s.awake
    BY EnteredKeeps
  <2> HIDE DEF u
  <2>3. Ready(u) = Ready(s) /\ p \in u.tasks \ {IdleTask}
    BY <1>1, <2>2 DEF Ready
  <2> QED
    BY <1>1, <2>1, <2>2, <2>3, SleepEffect
<1> QED
  BY <1>2, <1>3
\* What the record is after a step is what it is primed.
LEMMA Primed ==
  /\ (tm.tasks)' = tm'.tasks /\ (tm.level)' = tm'.level /\ (tm.cpu)' = tm'.cpu
  /\ Ready(tm)' = Ready(tm')
  BY DEF Ready

\* Every step of the task manager is one of the scheduler or none; only
\* NewTask adds a task.
LEMMA StepMaps ==
  ASSUME IInv(tm), Next
  PROVE  \/ tm.latest_id < MaxTask /\ tm' = NewTask(tm) /\ Sched!Create
         \/ /\ tm'.tasks \subseteq tm.tasks
            /\ \/ Sched!MakeReady \/ Sched!Suspend \/ Sched!Yield \/ Sched!Block
               \/ Sched!End \/ Sched!WakeAndYield \/ UNCHANGED Sched!svars
<1>1. /\ tm \in State /\ tm.tasks \in SUBSET TaskId /\ tm.cpu \in TaskId
      /\ tm.level \in [TaskId -> Level] /\ tm.finish_tasks \in SUBSET TaskId
      /\ MainTask \in TaskId /\ Core(tm)
  BY ConstantFacts DEF IInv, Core, State
<1>2. ASSUME NEW p \in TaskId
      PROVE  tm.level[p] \in Level /\ tm.level = [tm.level EXCEPT ![p] = tm.level[p]]
  BY <1>1
<1>3. CASE Create
  <2>1. /\ tm.latest_id < MaxTask /\ tm' = NewTask(tm)
        /\ tm.latest_id + 1 \in TaskId \ tm.tasks
        /\ tm'.tasks = tm.tasks \cup {tm.latest_id + 1}
        /\ tm'.level = tm.level /\ Ready(tm') = Ready(tm) /\ tm'.cpu = tm.cpu
    BY <1>3, NewTaskEffect DEF Create
  <2>2. Sched!Create
    <3> DEFINE p == tm.latest_id + 1
    <3>1. /\ p \in TaskId \ tm.tasks /\ tm.level[p] \in Level
          /\ tm.level = [tm.level EXCEPT ![p] = tm.level[p]]
          /\ tm'.tasks = tm.tasks \cup {p}
      BY <1>2, <2>1
    <3> HIDE DEF p
    <3>2. \E l \in Level : tm'.level = [tm.level EXCEPT ![p] = l]
      BY <2>1, <3>1
    <3> QED
      BY <2>1, <3>1, <3>2, Primed DEF Sched!Create
  <2> QED
    BY <2>1, <2>2
<1>4. CASE Wake
  <2>1. PICK p \in tm.tasks, lv \in Level \cup {-1} : tm' = Wakeup(tm, p, lv)
    <3>1. WakeLevels \subseteq Level \cup {-1}
      BY LevelAssumption DEF Level
    <3> QED
      BY <1>4, <3>1 DEF Wake
  <2>2. /\ tm'.tasks = tm.tasks /\ tm'.cpu = tm.cpu
        /\ Ready(tm') = Ready(tm) \cup {p}
        /\ \E l \in Level : tm'.level = [tm.level EXCEPT ![p] = l]
    BY <1>1, <2>1, WakeupEffect
  <2>3. Sched!MakeReady
    BY <2>2, Primed DEF Sched!MakeReady
  <2> QED
    BY <2>2, <2>3
<1>5. CASE Suspend
  <2>1. PICK p \in tm.tasks \ {IdleTask} : tm' = Sleep(tm, p)
    BY <1>5 DEF Suspend
  <2>2. /\ tm'.tasks = tm.tasks /\ tm'.level = tm.level
        /\ \/ Ready(tm') = Ready(tm) /\ tm'.cpu = tm.cpu
           \/ /\ p \in Ready(tm) \ {tm.cpu} /\ Ready(tm') = Ready(tm) \ {p}
              /\ tm'.cpu = tm.cpu
           \/ /\ Ready(tm') = Ready(tm) \ {tm.cpu}
              /\ tm'.cpu \in BestOf(Ready(tm'), tm.level)
    BY <2>1, SleepEffect
  <2>3. UNCHANGED Sched!svars \/ Sched!Suspend \/ Sched!Block
    BY <2>2, Primed DEF Sched!svars, Sched!Suspend, Sched!Block, Sched!Best, BestOf
  <2> QED
    BY <2>2, <2>3
<1>6. ASSUME NEW id \in TaskId \cup {0}, NEW m \in Message, tm' = SendMessage(tm, id, m)
      PROVE  tm'.tasks = tm.tasks /\ (Sched!MakeReady \/ UNCHANGED Sched!svars)
  <2>1. /\ tm'.tasks = tm.tasks /\ tm'.cpu = tm.cpu /\ tm'.level = tm.level
        /\ Ready(tm') = Ready(tm) \/ \E p \in tm.tasks : Ready(tm') = Ready(tm) \cup {p}
    BY <1>1, <1>6, SendEffect
  <2>2. CASE Ready(tm') = Ready(tm)
    BY <2>1, <2>2, Primed DEF Sched!svars
  <2>3. CASE Ready(tm') # Ready(tm)
    <3>1. PICK p \in tm.tasks : Ready(tm') = Ready(tm) \cup {p}
      BY <2>1, <2>3
    <3>2. tm.level[p] \in Level /\ tm.level = [tm.level EXCEPT ![p] = tm.level[p]]
      BY <1>1, <1>2
    <3>3. Sched!MakeReady
      BY <2>1, <3>1, <3>2, Primed DEF Sched!MakeReady
    <3> QED
      BY <2>1, <3>3
  <2> QED
    BY <2>1, <2>2, <2>3
<1>7. CASE Send
  BY <1>6, <1>7 DEF Send
<1>8. CASE Receive
  <2>1. /\ tm'.tasks = tm.tasks /\ tm'.cpu = tm.cpu /\ tm'.level = tm.level
        /\ tm'.awake = tm.awake
    BY <1>1, <1>8 DEF Receive, ReceiveMessage, State
  <2>2. UNCHANGED Sched!svars
    BY <2>1, Primed DEF Sched!svars, Ready
  <2> QED
    BY <2>1, <2>2
<1>9. CASE End
  <2>1. /\ tm' = Finish(tm) /\ tm.cpu # IdleTask
        /\ \A id \in DOMAIN tm.finish_waiter : tm.finish_waiter[id] # tm.cpu
    BY <1>9 DEF End, Calls, Waiting
  <2>2. /\ tm'.tasks = tm.tasks \ {tm.cpu} /\ tm'.level = tm.level
        /\ tm'.cpu \in BestOf(Ready(tm) \ {tm.cpu}, tm.level)
        /\ \/ Ready(tm') = Ready(tm) \ {tm.cpu}
           \/ \E w \in tm'.tasks : Ready(tm') = (Ready(tm) \ {tm.cpu}) \cup {w}
    BY <2>1, FinishEffect
  <2>3. Sched!End
    BY <2>2, Primed DEF Sched!End, Sched!Best, BestOf
  <2> QED
    BY <2>2, <2>3
<1>10. CASE Await
  <2>1. PICK id \in TaskId :
          /\ \/ Calls
             \/ id \in DOMAIN tm.finish_waiter /\ tm.finish_waiter[id] = tm.cpu
          /\ tm' = WaitFinish(tm, id)
    BY <1>1, <1>10 DEF Await
  <2>2. tm.cpu # IdleTask
    BY <1>1, <2>1 DEF Calls, Core, Bookkeeping
  <2>3. /\ tm'.tasks = tm.tasks /\ tm'.level = tm.level
        /\ \/ Ready(tm') = Ready(tm) /\ tm'.cpu = tm.cpu
           \/ /\ Ready(tm') = Ready(tm) \ {tm.cpu}
              /\ tm'.cpu \in BestOf(Ready(tm'), tm.level)
    BY <2>1, <2>2, WaitFinishEffect
  <2>4. UNCHANGED Sched!svars \/ Sched!Block
    BY <2>3, Primed DEF Sched!svars, Sched!Block, Sched!Best, BestOf
  <2> QED
    BY <2>3, <2>4
<1>11. CASE TimerInterrupt
  <2>1. PICK id \in TaskId \cup {0}, m \in Message, task_timer_timeout \in BOOLEAN :
          tm' = IF task_timer_timeout THEN SwitchTask(SendMessage(tm, id, m))
                ELSE SendMessage(tm, id, m)
    BY <1>11 DEF TimerInterrupt
  <2>2. CASE ~task_timer_timeout
    BY <1>6, <2>1, <2>2
  <2>3. CASE task_timer_timeout
    <3> DEFINE sent == SendMessage(tm, id, m)
    <3>1. IInv(sent)
      BY <1>1, SendKeeps DEF IInv
    <3>2. /\ sent.tasks = tm.tasks /\ sent.level = tm.level
          /\ Ready(sent) = Ready(tm) \/ \E p \in tm.tasks : Ready(sent) = Ready(tm) \cup {p}
      BY <1>1, SendEffect
    <3>3. tm' = SwitchTask(sent)
      BY <2>1, <2>3
    <3> HIDE DEF sent
    <3>4. /\ tm'.tasks = tm.tasks /\ tm'.level = tm.level /\ Ready(tm') = Ready(sent)
          /\ tm'.cpu \in BestOf(Ready(tm'), tm.level)
      BY <3>1, <3>2, <3>3, SwitchTaskEffect
    <3>5. Sched!Yield \/ Sched!WakeAndYield
      BY <3>2, <3>4, Primed DEF Sched!Yield, Sched!WakeAndYield, Sched!Best, BestOf
    <3> QED
      BY <3>4, <3>5
  <2> QED
    BY <2>2, <2>3
<1>12. CASE XHCIInterrupt
  BY <1>1, <1>6, <1>12 DEF XHCIInterrupt
<1> QED
  BY <1>3, <1>4, <1>5, <1>7, <1>8, <1>9, <1>10, <1>11, <1>12 DEF Next

\* The run queues, the levels and level_changed_ implement a scheduler that
\* knows only which tasks are ready: whenever the processor is given away, by
\* Sleep, SwitchTask or Finish, it goes to a ready task that none outranks.
THEOREM Refinement == Spec => ImplementsScheduler
<1>1. Init /\ IInv(tm) => Sched!SInit
  <2> SUFFICES ASSUME Init, IInv(tm) PROVE Sched!SInit
    OBVIOUS
  <2>1. /\ tm \in State /\ tm.tasks \in SUBSET TaskId /\ tm.level \in [TaskId -> Level]
        /\ Queues(tm, Ready(tm)) /\ tm.running[tm.current_level] # <<>>
        /\ TopLevelOf(tm) /\ tm.cpu = CurrentTask(tm)
        /\ Ready(tm) \in SUBSET TaskId /\ Ready(tm) \subseteq tm.tasks
    BY DEF IInv, Core, RunQueuesOf, State, Ready
  <2>2. ~tm.level_changed
    BY DEF Init
  <2>3. CurrentTask(tm) \in Ready(tm)
        /\ \A q \in Ready(tm) : tm.level[q] <= tm.level[CurrentTask(tm)]
    BY <2>1, <2>2, CurrentIsBest
  <2> QED
    BY <2>1, <2>3 DEF Sched!SInit, Sched!Best
<1>2. IInv(tm) /\ [Next]_tm => [Sched!SNext]_Sched!svars
  <2>1. CASE Next
    BY <2>1, StepMaps DEF Sched!SNext
  <2>2. CASE UNCHANGED tm
    BY <2>2, Primed DEF Sched!svars
  <2> QED
    BY <2>1, <2>2
<1> QED
  BY <1>1, <1>2, Invariant, PTL DEF Spec, ImplementsScheduler, Sched!SSpec

\* Whoever loses the processor while it could go on loses it to a task of its
\* own level or higher, by the rotation of SwitchTask.
THEOREM PreemptedByPeerCorrect == Spec => PreemptedByPeer
<1> DEFINE Peer == (tm'.cpu # tm.cpu /\ tm.cpu \in tm'.tasks /\ tm'.awake[tm.cpu])
                      => tm'.level[tm'.cpu] >= tm'.level[tm.cpu]
<1>1. IInv(tm) /\ IInv(tm)' /\ [Next]_tm => [Peer]_tm
  <2> SUFFICES ASSUME IInv(tm), IInv(tm'), Next, tm'.cpu # tm.cpu,
                      tm.cpu \in tm'.tasks, tm'.awake[tm.cpu]
               PROVE  tm'.level[tm'.cpu] >= tm'.level[tm.cpu]
    BY DEF Peer
  <2>1. tm.cpu \in Ready(tm) /\ tm.cpu \in Ready(tm')
    BY CurrentIsReady DEF IInv, Ready
  <2>2. tm'.cpu \in TaskId /\ tm.cpu \in TaskId /\ tm'.level \in [TaskId -> Level]
    BY DEF IInv, Core, State
  <2>3. ASSUME NEW R, tm.cpu \in R, tm'.cpu \in BestOf(R, tm.level), tm'.level = tm.level
        PROVE  tm'.level[tm'.cpu] >= tm'.level[tm.cpu]
    <3>1. tm.level[tm.cpu] <= tm.level[tm'.cpu]
      BY <2>3 DEF BestOf
    <3> QED
      BY <2>2, <2>3, <3>1, ConstantFacts
  <2>4. CASE Sched!Yield
    <3>1. tm'.cpu \in BestOf(Ready(tm), tm.level) /\ tm'.level = tm.level
      BY <2>4, Primed DEF Sched!Yield, Sched!Best, BestOf
    <3> QED
      BY <2>1, <2>3, <3>1
  <2>5. CASE Sched!WakeAndYield
    <3>1. tm'.cpu \in BestOf(Ready(tm'), tm.level) /\ tm'.level = tm.level
      BY <2>5, Primed DEF Sched!WakeAndYield, Sched!Best, BestOf
    <3> QED
      BY <2>1, <2>3, <3>1
  <2>6. ~Sched!Create /\ ~Sched!MakeReady /\ ~Sched!Suspend /\ ~UNCHANGED Sched!svars
    BY Primed DEF Sched!Create, Sched!MakeReady, Sched!Suspend, Sched!svars
  <2>7. ~Sched!Block /\ ~Sched!End
    BY <2>1, Primed DEF Sched!Block, Sched!End
  <2> QED
    BY <2>4, <2>5, <2>6, <2>7, StepMaps
<1> QED
  BY <1>1, Invariant, PTL DEF Spec, PreemptedByPeer, Peer

\* A task that Finish deleted is never made again, by NewTask or by what
\* still names its id, and it never gets the processor.
THEOREM GoneForGoodCorrect == Spec => GoneForGood
<1> DEFINE Stays == \A p \in TaskId : p <= tm.latest_id /\ p \notin tm.tasks
                      => p \notin tm'.tasks /\ tm'.cpu # p
<1>1. IInv(tm) /\ IInv(tm)' /\ [Next]_tm => [Stays]_tm
  <2> SUFFICES ASSUME IInv(tm), IInv(tm'), Next,
                      NEW p \in TaskId, p <= tm.latest_id, p \notin tm.tasks
               PROVE  p \notin tm'.tasks /\ tm'.cpu # p
    BY DEF Stays
  <2>1. tm'.cpu \in tm'.tasks
    BY CurrentIsReady DEF IInv
  <2>2. p \notin tm'.tasks
    <3>1. CASE tm' = NewTask(tm) /\ tm.latest_id < MaxTask
      <4>1. tm'.tasks = tm.tasks \cup {tm.latest_id + 1}
        BY <3>1, NewTaskEffect
      <4>2. p \in Int /\ tm.latest_id \in Int
        BY DEF IInv, Core, State, TaskId
      <4> QED
        BY <4>1, <4>2
    <3>2. CASE tm'.tasks \subseteq tm.tasks
      BY <3>2
    <3> QED
      BY <3>1, <3>2, StepMaps
  <2> QED
    BY <2>1, <2>2
<1> QED
  BY <1>1, Invariant, PTL DEF Spec, GoneForGood, Stays

-----------------------------------------------------------------------------
(* The kernel: what the methods leave alone *)

\* The fields that a switch from one task to another does not change.
SameTasks(s, t) ==
  /\ t.tasks = s.tasks /\ t.latest_id = s.latest_id /\ t.level = s.level
  /\ t.msgs = s.msgs
  /\ t.finish_tasks = s.finish_tasks /\ t.finish_waiter = s.finish_waiter

\* No flag but that of p changes.
OthersAwake(s, t, p) == \A q \in TaskId : q # p => (t.awake[q] <=> s.awake[q])

\* RotateCurrentRunQueue (task.cpp) moves tasks inside the queues only.
LEMMA RotateFrame ==
  ASSUME NEW s \in State, NEW sleep \in BOOLEAN
  PROVE  SameTasks(s, Rotate(s, sleep)) /\ Rotate(s, sleep).awake = s.awake
  BY DEF Rotate, State, SameTasks

\* So does SwitchTask, the timer interrupt's way of taking the processor away.
LEMMA SwitchTaskFrame ==
  ASSUME NEW s \in State
  PROVE  SameTasks(s, SwitchTask(s)) /\ SwitchTask(s).awake = s.awake
  BY DEF SwitchTask, RestoreContext, Rotate, State, SameTasks

\* Wakeup without a level, as the kernel calls it, sets the flag of its task,
\* keeps every level and leaves the processor to who has it.
LEMMA WakeupFrame ==
  ASSUME NEW s \in State, NEW p \in TaskId
  PROVE  LET t == Wakeup(s, p, -1)
         IN SameTasks(s, t) /\ t.cpu = s.cpu /\ t.awake[p] /\ OthersAwake(s, t, p)
<1> DEFINE awake == [s.awake EXCEPT ![p] = TRUE]
           t == Wakeup(s, p, -1)
<1>1. awake[p] /\ \A q \in TaskId : q # p => (awake[q] <=> s.awake[q])
  BY DEF State
<1>2. CASE s.awake[p]
  BY <1>2 DEF Wakeup, ChangeLevelRunning, SameTasks, OthersAwake
<1>3. CASE ~s.awake[p]
  <2>1. s.level = [s.level EXCEPT ![p] = s.level[p]]
    BY DEF State
  <2> HIDE DEF awake
  <2>2. SameTasks(s, t) /\ t.cpu = s.cpu /\ t.awake = awake
    BY <1>3, <2>1 DEF Wakeup, SameTasks, State, awake
  <2> HIDE DEF t
  <2> QED
    BY <1>1, <2>2 DEF OthersAwake, t
<1> QED
  BY <1>2, <1>3

\* Sleep clears the flag of its task alone and loses no message.
LEMMA SleepFrame ==
  ASSUME NEW s \in State, NEW p \in TaskId
  PROVE  LET t == Sleep(s, p)
         IN SameTasks(s, t) /\ ~t.awake[p] /\ OthersAwake(s, t, p)
<1> DEFINE awake == [s.awake EXCEPT ![p] = FALSE]
           asleep == [s EXCEPT !.awake = awake]
           t == Sleep(s, p)
<1>1. /\ ~awake[p] /\ \A q \in TaskId : q # p => (awake[q] <=> s.awake[q])
      /\ awake \in [TaskId -> BOOLEAN]
  BY DEF State
<1>2. CASE ~s.awake[p]
  BY <1>2 DEF Sleep, SameTasks, OthersAwake
<1>3. CASE s.awake[p] /\ p = CurrentTask(s)
  <2> HIDE DEF awake
  <2>1. asleep \in State /\ SameTasks(s, asleep) /\ asleep.awake = awake
    BY <1>1 DEF State, SameTasks
  <2>2. t = SwitchContext(Rotate(asleep, TRUE), p)
    BY <1>3 DEF Sleep, awake
  <2> HIDE DEF asleep, t
  <2>3. SameTasks(s, t) /\ t.awake = awake
    BY <2>1, <2>2 DEF SwitchContext, RestoreContext, Rotate, SameTasks, State
  <2> QED
    BY <1>1, <2>3 DEF OthersAwake, t
<1>4. CASE s.awake[p] /\ p # CurrentTask(s)
  <2> HIDE DEF awake
  <2>1. SameTasks(s, t) /\ t.awake = awake
    BY <1>4 DEF Sleep, SameTasks, State, awake
  <2> HIDE DEF t
  <2> QED
    BY <1>1, <2>1 DEF OthersAwake, t
<1> QED
  BY <1>2, <1>3, <1>4

\* A message goes to a task that there is, which is awake then, or nowhere.
LEMMA SendFrame ==
  ASSUME NEW s \in State, NEW id \in TaskId, NEW m \in Message
  PROVE  LET t == SendMessage(s, id, m)
         IN /\ t.tasks = s.tasks /\ t.latest_id = s.latest_id /\ t.level = s.level
            /\ t.finish_tasks = s.finish_tasks /\ t.finish_waiter = s.finish_waiter
            /\ t.cpu = s.cpu
            /\ t = s \/ /\ id \in s.tasks /\ t.awake[id] /\ OthersAwake(s, t, id)
                        /\ \A q \in TaskId : q # id => t.msgs[q] = s.msgs[q]
<1> DEFINE msgs == [s.msgs EXCEPT ![id] = Append(s.msgs[id], m)]
           u == [s EXCEPT !.msgs = msgs]
           t == SendMessage(s, id, m)
<1>1. CASE id \notin s.tasks
  BY <1>1 DEF SendMessage
<1>2. CASE id \in s.tasks
  <2>1. /\ msgs \in [TaskId -> Seq(Message)]
        /\ \A q \in TaskId : q # id => msgs[q] = s.msgs[q]
    BY DEF State
  <2>2. t = Wakeup(u, id, -1)
    BY <1>2 DEF SendMessage
  <2> HIDE DEF msgs
  <2>3. /\ u \in State /\ u.tasks = s.tasks /\ u.latest_id = s.latest_id
        /\ u.level = s.level /\ u.finish_tasks = s.finish_tasks
        /\ u.finish_waiter = s.finish_waiter /\ u.cpu = s.cpu /\ u.awake = s.awake
        /\ u.msgs = msgs
    BY <2>1 DEF State
  <2> HIDE DEF u
  <2>4. SameTasks(u, t) /\ t.cpu = u.cpu /\ t.awake[id] /\ OthersAwake(u, t, id)
    BY <2>2, <2>3, WakeupFrame
  <2> HIDE DEF t
  <2>5. OthersAwake(s, t, id)
    BY <2>3, <2>4 DEF OthersAwake
  <2> QED
    BY <1>2, <2>1, <2>3, <2>4, <2>5 DEF SameTasks, t
<1> QED
  BY <1>1, <1>2

\* ReceiveMessage takes from the mailbox of one task.
LEMMA ReceiveFrame ==
  ASSUME NEW s \in State, NEW p \in TaskId
  PROVE  LET t == ReceiveMessage(s, p)
         IN /\ t.tasks = s.tasks /\ t.latest_id = s.latest_id /\ t.level = s.level
            /\ t.finish_tasks = s.finish_tasks /\ t.finish_waiter = s.finish_waiter
            /\ t.cpu = s.cpu /\ t.awake = s.awake
            /\ \A q \in TaskId : q # p => t.msgs[q] = s.msgs[q]
  BY DEF ReceiveMessage, State

\* NewTask adds the task with the next id and touches no flag or mailbox.
LEMMA NewTaskFrame ==
  ASSUME NEW s \in State
  PROVE  LET t == NewTask(s)
         IN /\ t.tasks = s.tasks \cup {s.latest_id + 1} /\ t.latest_id = s.latest_id + 1
            /\ t.level = s.level /\ t.msgs = s.msgs /\ t.awake = s.awake
            /\ t.finish_tasks = s.finish_tasks /\ t.finish_waiter = s.finish_waiter
            /\ t.cpu = s.cpu
  BY DEF NewTask, State

\* An exit code is taken, or who runs is entered as waiting and sleeps.
LEMMA WaitFinishFrame ==
  ASSUME NEW s, IInv(s), s.cpu # IdleTask, NEW id \in TaskId
  PROVE  LET t == WaitFinish(s, id)
         IN /\ t.tasks = s.tasks /\ t.latest_id = s.latest_id /\ t.level = s.level
            /\ t.msgs = s.msgs /\ OthersAwake(s, t, s.cpu)
            /\ IF id \in s.finish_tasks
               THEN /\ t.finish_tasks = s.finish_tasks \ {id}
                    /\ t.finish_waiter = s.finish_waiter
               ELSE /\ t.finish_tasks = s.finish_tasks
                    /\ DOMAIN t.finish_waiter = DOMAIN s.finish_waiter \cup {id}
                    /\ t.finish_waiter[id] = s.cpu
                    /\ \A k \in DOMAIN s.finish_waiter \ {id} :
                         t.finish_waiter[k] = s.finish_waiter[k]
<1> DEFINE p == CurrentTask(s)
           u == Entered(s, id)
           waiter == [k \in DOMAIN s.finish_waiter \cup {id} |->
                        IF k = id THEN p ELSE s.finish_waiter[k]]
           t == WaitFinish(s, id)
<1>1. s \in State /\ s.cpu = p /\ p \in TaskId
  BY CurrentIsReady DEF IInv, Core
<1>2. CASE id \in s.finish_tasks
  BY <1>1, <1>2 DEF WaitFinish, State, OthersAwake
<1>3. CASE id \notin s.finish_tasks
  <2>1. t = Sleep(u, p)
    BY <1>3 DEF WaitFinish, Entered
  <2>2. u \in State
    BY EnteredKeeps DEF IInv, Core
  <2> HIDE DEF waiter
  <2>3. /\ u.tasks = s.tasks /\ u.latest_id = s.latest_id /\ u.level = s.level
        /\ u.msgs = s.msgs /\ u.finish_tasks = s.finish_tasks /\ u.awake = s.awake
        /\ u.finish_waiter = waiter
    BY <1>1 DEF Entered, State, waiter
  <2> HIDE DEF u, t
  <2>4. SameTasks(u, t) /\ OthersAwake(u, t, p)
    BY <1>1, <2>1, <2>2, SleepFrame
  <2>5. OthersAwake(s, t, s.cpu)
    BY <1>1, <2>3, <2>4 DEF OthersAwake
  <2>6. /\ DOMAIN waiter = DOMAIN s.finish_waiter \cup {id} /\ waiter[id] = s.cpu
        /\ \A k \in DOMAIN s.finish_waiter \ {id} : waiter[k] = s.finish_waiter[k]
    BY <1>1 DEF waiter
  <2> QED
    BY <1>3, <2>3, <2>4, <2>5, <2>6 DEF SameTasks, t
<1> QED
  BY <1>2, <1>3

\* Who runs is deleted and its entry as awaited is erased; who waited for it
\* is awake.
LEMMA FinishFrame ==
  ASSUME NEW s, IInv(s), s.cpu # IdleTask,
         \A id \in DOMAIN s.finish_waiter : s.finish_waiter[id] # s.cpu
  PROVE  LET t == Finish(s)
         IN /\ t.tasks = s.tasks \ {s.cpu} /\ t.latest_id = s.latest_id
            /\ t.level = s.level /\ t.msgs = s.msgs
            /\ t.finish_tasks = s.finish_tasks \cup {s.cpu}
            /\ DOMAIN t.finish_waiter = DOMAIN s.finish_waiter \ {s.cpu}
            /\ \A id \in DOMAIN t.finish_waiter : t.finish_waiter[id] = s.finish_waiter[id]
            /\ \A q \in TaskId : (t.awake[q] <=> s.awake[q])
                 \/ (s.cpu \in DOMAIN s.finish_waiter /\ q = s.finish_waiter[s.cpu])
<1> DEFINE g == Gone(s)
           w == s.finish_waiter[s.cpu]
           v == Wakeup(g, w, -1)
           t == Finish(s)
<1>1. /\ g \in State
      /\ g.tasks = s.tasks \ {s.cpu} /\ g.latest_id = s.latest_id
      /\ g.level = s.level /\ g.msgs = s.msgs /\ g.awake = s.awake
      /\ g.finish_tasks = s.finish_tasks \cup {s.cpu}
      /\ DOMAIN g.finish_waiter = DOMAIN s.finish_waiter \ {s.cpu}
      /\ \A id \in DOMAIN g.finish_waiter : g.finish_waiter[id] = s.finish_waiter[id]
      /\ s.cpu \in DOMAIN s.finish_waiter => w \in g.tasks
      /\ t = RestoreContext(IF s.cpu \in DOMAIN s.finish_waiter THEN v ELSE g)
  BY GoneFacts DEF Core
<1>2. ASSUME NEW x, t = RestoreContext(x), x \in State
      PROVE  SameTasks(x, t) /\ t.awake = x.awake
  BY <1>2 DEF RestoreContext, SameTasks, State
<1> HIDE DEF g, t, v
<1>3. /\ SameTasks(g, t)
      /\ \A q \in TaskId : (t.awake[q] <=> g.awake[q])
           \/ (s.cpu \in DOMAIN s.finish_waiter /\ q = w)
  <2>1. CASE s.cpu \notin DOMAIN s.finish_waiter
    <3>1. SameTasks(g, t) /\ t.awake = g.awake
      BY <1>1, <1>2, <2>1
    <3>2. \A q \in TaskId : t.awake[q] <=> g.awake[q]
      BY <3>1
    <3> QED
      BY <3>1, <3>2
  <2>2. CASE s.cpu \in DOMAIN s.finish_waiter
    <3>1. w \in TaskId /\ g.running[g.current_level] # <<>>
      <4>1. g.tasks \in SUBSET TaskId
        BY <1>1 DEF State
      <4>2. g.running[g.current_level] # <<>>
        BY GoneFacts DEF Core, RunQueuesOf, g
      <4> QED
        BY <1>1, <2>2, <4>1, <4>2
    <3> HIDE DEF w
    <3>2. v \in State /\ SameTasks(g, v) /\ OthersAwake(g, v, w)
      BY <1>1, <3>1, WakeupFront, WakeupFrame DEF v
    <3>3. SameTasks(v, t) /\ t.awake = v.awake
      BY <1>1, <1>2, <2>2, <3>2
    <3>4. SameTasks(g, t)
      BY <3>2, <3>3 DEF SameTasks
    <3>5. OthersAwake(g, t, w)
      BY <3>2, <3>3 DEF OthersAwake
    <3>6. \A q \in TaskId : (t.awake[q] <=> g.awake[q]) \/ q = w
      BY <3>5 DEF OthersAwake
    <3> QED
      BY <2>2, <3>4, <3>6
  <2> QED
    BY <2>1, <2>2
<1> HIDE DEF w
<1>4. /\ t.tasks = s.tasks \ {s.cpu} /\ t.latest_id = s.latest_id
      /\ t.level = s.level /\ t.msgs = s.msgs
      /\ t.finish_tasks = s.finish_tasks \cup {s.cpu}
      /\ DOMAIN t.finish_waiter = DOMAIN s.finish_waiter \ {s.cpu}
      /\ \A id \in DOMAIN t.finish_waiter : t.finish_waiter[id] = s.finish_waiter[id]
  BY <1>1, <1>3 DEF SameTasks
<1> QED
  BY <1>1, <1>3, <1>4 DEF t, w

-----------------------------------------------------------------------------
(* The kernel: the inductive invariant *)

\* Where a task can be in its code.
Place == {"new", "loop", "handle", "start", "start&await", "await", "wait"}

\* Who has made a task and still has to do with it: to wake it, or to wait.
Making(p) == pc[p] \in {"start", "start&await"}
Parent(p) == Making(p) \/ pc[p] \in {"await", "wait"}

\* The types of pc and child.
KernelTypes == pc \in [TaskId -> Place] /\ child \in [TaskId -> TaskId]

\* Nobody makes the main task wait, and a task that was not started sleeps.
Started ==
  /\ pc[MainTask] \in {"loop", "handle", "start"} /\ pc[IdleTask] = "loop"
  /\ \A p \in TaskId : p > tm.latest_id => pc[p] = "new"
  /\ \A p \in tm.finish_tasks : p <= tm.latest_id
  /\ \A p \in TaskId : pc[p] = "new" => ~tm.awake[p]

\* A child belongs to one parent, and is not lost before that one is done.
Families ==
  /\ \A p \in TaskId : Making(p) => child[p] \in tm.tasks /\ pc[child[p]] = "new"
  /\ \A p \in TaskId : Parent(p) =>
       child[p] \in (tm.tasks \cup tm.finish_tasks) \ {MainTask, IdleTask, p}
  /\ \A p, q \in TaskId : Parent(p) /\ Parent(q) /\ child[p] = child[q] => p = q

\* Who is in WaitFinish is entered for its child until that one has finished.
Waits ==
  /\ \A id \in DOMAIN tm.finish_waiter :
       /\ tm.finish_waiter[id] \in TaskId
       /\ pc[tm.finish_waiter[id]] = "wait" /\ child[tm.finish_waiter[id]] = id
       /\ id \notin tm.finish_tasks
  /\ \A p \in TaskId : pc[p] = "wait" =>
       \/ child[p] \in tm.finish_tasks
       \/ child[p] \in DOMAIN tm.finish_waiter /\ tm.finish_waiter[child[p]] = p

\* The main task is alone at the highest level.
MainAlone ==
  /\ tm.level[MainTask] = kMaxLevel
  /\ \A p \in TaskId \ {MainTask} : tm.level[p] < kMaxLevel

\* What holds of the kernel's own variables, and ties them to tm.
Around == KernelTypes /\ Started /\ Families /\ Waits /\ MainAlone

\* The task manager's own invariant, what is around it, and the property itself.
KernelInv == IInv(tm) /\ Around /\ NoLostWakeup

\* What the proofs below need of the task manager: the task that runs exists
\* and is awake, and no id above latest_id_ is in use.
LEMMA Basics ==
  ASSUME IInv(tm)
  PROVE  /\ tm \in State /\ tm.tasks \in SUBSET TaskId /\ tm.finish_tasks \in SUBSET TaskId
         /\ tm.latest_id \in TaskId
         /\ tm.cpu \in tm.tasks /\ tm.cpu \in TaskId /\ tm.awake[tm.cpu]
         /\ \A p \in tm.tasks : p <= tm.latest_id
         /\ MainTask \in TaskId /\ IdleTask \in TaskId /\ MainTask # IdleTask
         /\ TaskId \subseteq Nat
<1>1. tm \in State /\ tm.tasks \in SUBSET TaskId /\ tm.finish_tasks \in SUBSET TaskId
      /\ tm.latest_id \in TaskId
  BY DEF IInv, Core, State
<1>2. tm.cpu \in tm.tasks /\ tm.cpu \in TaskId /\ tm.awake[tm.cpu]
  BY CurrentIsReady DEF IInv
<1>3. TaskId \subseteq Nat
  BY BoundsAssumption DEF TaskId
<1>4. \A p \in tm.tasks : p <= tm.latest_id
  <2> SUFFICES ASSUME NEW p \in tm.tasks PROVE p <= tm.latest_id
    OBVIOUS
  <2>1. ~(p > tm.latest_id)
    BY <1>1 DEF IInv, Core, Bookkeeping
  <2>2. p \in Nat /\ tm.latest_id \in Nat
    BY <1>1, <1>3
  <2> QED
    BY <2>1, <2>2
<1>5. MainTask \in TaskId /\ IdleTask \in TaskId /\ MainTask # IdleTask
  BY ConstantFacts
<1> QED
  BY <1>1, <1>2, <1>3, <1>4, <1>5

\* A step that makes, ends and awaits no task.
LEMMA Steady ==
  ASSUME KernelInv, child' = child,
         tm'.tasks = tm.tasks, tm'.latest_id = tm.latest_id, tm'.level = tm.level,
         tm'.finish_tasks = tm.finish_tasks, tm'.finish_waiter = tm.finish_waiter,
         pc' \in [TaskId -> Place], pc'[IdleTask] = pc[IdleTask],
         \A q \in TaskId : pc'[q] = pc[q]
            \/ (pc[q] \in {"loop", "handle"} /\ pc'[q] \in {"loop", "handle"}),
         \A q \in TaskId : pc[q] = "new" => ~tm'.awake[q]
  PROVE  Around'
<1>1. KernelTypes' /\ MainAlone'
  BY DEF KernelInv, Around, KernelTypes, MainAlone
<1>2. Started'
  BY Basics DEF KernelInv, Around, Started
<1>3. \A q \in TaskId : /\ pc'[q] \in {"loop", "handle"} <=> pc[q] \in {"loop", "handle"}
                        /\ pc[q] \notin {"loop", "handle"} => pc'[q] = pc[q]
  OBVIOUS
<1>4. Families'
  <2>1. /\ \A q \in TaskId : Making(q)' => Making(q)
        /\ \A q \in TaskId : Parent(q)' => Parent(q)
    BY <1>3 DEF Making, Parent
  <2>2. \A q \in TaskId : Making(q) => child[q] \in TaskId /\ pc'[child[q]] = "new"
    BY <1>3 DEF KernelInv, Around, KernelTypes, Families
  <2>3. Families
    BY DEF KernelInv, Around
  <2> QED
    BY <2>1, <2>2, <2>3 DEF Families
<1>5. Waits'
  BY <1>3 DEF KernelInv, Around, KernelTypes, Waits
<1> QED
  BY <1>1, <1>2, <1>4, <1>5 DEF Around

\* Every step of a task, an interrupt and a timer keeps what is around the
\* task manager; for the four that make, start, await or end a task:
LEMMA NewKeeps ==
  ASSUME KernelInv, NEW p \in TaskId, New(p)
  PROVE  Around' /\ NoLostWakeup'
<1> DEFINE c == tm.latest_id + 1
<1>1. /\ pc[p] = "handle" /\ tm.cpu = p /\ p # IdleTask /\ tm.latest_id < MaxTask
      /\ tm.tasks \subseteq TaskId /\ tm.finish_tasks \subseteq TaskId /\ p \in tm.tasks
      /\ tm.latest_id \in TaskId /\ TaskId \subseteq Nat
      /\ \A q \in tm.tasks : q <= tm.latest_id
      /\ KernelTypes /\ Started /\ Families /\ Waits /\ MainAlone /\ NoLostWakeup
  BY Basics DEF KernelInv, Around, New, At, Runs
<1>2. /\ tm'.tasks = tm.tasks \cup {c} /\ tm'.latest_id = c
      /\ tm'.level = tm.level /\ tm'.msgs = tm.msgs /\ tm'.awake = tm.awake
      /\ tm'.finish_tasks = tm.finish_tasks /\ tm'.finish_waiter = tm.finish_waiter
  BY Basics, NewTaskFrame DEF New, KernelInv
<1>3. /\ c \in TaskId /\ c > tm.latest_id /\ pc[c] = "new" /\ c # p
      /\ \A q \in tm.tasks \cup tm.finish_tasks : q # c
      /\ c # MainTask /\ c # IdleTask
      /\ \A q \in TaskId : q > c => q > tm.latest_id /\ q # p
      /\ \A q \in TaskId : q <= tm.latest_id => q <= c
  <2>1. c \in TaskId /\ c > tm.latest_id /\ tm.latest_id \in Nat /\ c \in Nat
    BY <1>1, BoundsAssumption DEF TaskId
  <2>2. pc[c] = "new"
    BY <1>1, <2>1 DEF Started
  <2>3. ASSUME NEW q \in Nat, q <= tm.latest_id
        PROVE  q # c /\ q <= c
    BY <2>1, <2>3
  <2>4. \A q \in tm.tasks \cup tm.finish_tasks : q \in Nat /\ q <= tm.latest_id
    BY <1>1 DEF Started
  <2>5. \A q \in TaskId : q > c => q > tm.latest_id
    BY <1>1, <2>1
  <2>6. c # MainTask /\ c # IdleTask
    BY <1>1, <2>2 DEF Started
  <2>7. p \in Nat /\ p <= tm.latest_id
    BY <1>1
  <2>8. \A q \in TaskId : q > c => q # p
    BY <2>1, <2>7
  <2> HIDE DEF c
  <2> QED
    BY <1>1, <2>1, <2>2, <2>3, <2>4, <2>5, <2>6, <2>7, <2>8
<1>4. child' = [child EXCEPT ![p] = c]
  BY <1>2 DEF New
<1>5. PICK x \in {"start", "start&await"} :
        pc' = [pc EXCEPT ![p] = x] /\ (x = "start&await" => p # MainTask)
  BY DEF New, Goto
<1> HIDE DEF c
<1>6. /\ pc' \in [TaskId -> Place] /\ pc'[p] = x /\ \A q \in TaskId : q # p => pc'[q] = pc[q]
      /\ child' \in [TaskId -> TaskId] /\ child'[p] = c
      /\ \A q \in TaskId : q # p => child'[q] = child[q]
  BY <1>1, <1>3, <1>4, <1>5 DEF KernelTypes, Place
<1>7. KernelTypes' /\ MainAlone' /\ NoLostWakeup'
  BY <1>1, <1>2, <1>3, <1>6 DEF KernelTypes, MainAlone, NoLostWakeup
<1>8. Started'
  <2>1. pc'[MainTask] \in {"loop", "handle", "start"} /\ pc'[IdleTask] = "loop"
    BY <1>1, <1>5, <1>6, ConstantFacts DEF Started
  <2>2. \A q \in TaskId : q > c => pc'[q] = "new"
    BY <1>1, <1>3, <1>6 DEF Started
  <2>3. \A q \in tm.finish_tasks : q <= c
    BY <1>1, <1>3 DEF Started
  <2>4. \A q \in TaskId : pc'[q] = "new" => ~tm.awake[q]
    BY <1>1, <1>5, <1>6 DEF Started
  <2> QED
    BY <1>2, <2>1, <2>2, <2>3, <2>4 DEF Started
<1>9. Families'
  <2>1. /\ \A q \in TaskId : q # p => (Making(q)' <=> Making(q))
        /\ \A q \in TaskId : q # p => (Parent(q)' <=> Parent(q))
    BY <1>6 DEF Making, Parent
  <2>2. \A q \in TaskId : q # p /\ Parent(q) =>
          child[q] \in (tm.tasks \cup tm.finish_tasks) \ {MainTask, IdleTask, q, c}
    BY <1>1, <1>3 DEF Families
  <2>3. \A q \in TaskId : q # p /\ Making(q) =>
          child[q] \in tm.tasks /\ pc[child[q]] = "new" /\ child[q] # p
    BY <1>1 DEF Families
  <2>4. ASSUME NEW q \in TaskId
        PROVE  /\ Making(q)' => child'[q] \in tm'.tasks /\ pc'[child'[q]] = "new"
               /\ Parent(q)' => child'[q] \in (tm'.tasks \cup tm'.finish_tasks)
                                                \ {MainTask, IdleTask, q}
    <3>1. CASE q = p
      BY <1>2, <1>3, <1>6, <3>1
    <3>2. CASE q # p
      BY <1>2, <1>6, <2>2, <2>3, <3>2 DEF Making, Parent
    <3> QED
      BY <3>1, <3>2
  <2>5. \A q, r \in TaskId : Parent(q)' /\ Parent(r)' /\ child'[q] = child'[r] => q = r
    BY <1>1, <1>6, <2>1, <2>2 DEF Families
  <2> QED
    BY <2>4, <2>5 DEF Families
<1>10. Waits'
  <2>1. ASSUME NEW id \in DOMAIN tm.finish_waiter
        PROVE  LET w == tm.finish_waiter[id]
               IN w \in TaskId /\ pc'[w] = "wait" /\ child'[w] = id /\ id \notin tm.finish_tasks
    BY <1>1, <1>6 DEF Waits
  <2>2. ASSUME NEW q \in TaskId, pc'[q] = "wait"
        PROVE  \/ child'[q] \in tm.finish_tasks
               \/ child'[q] \in DOMAIN tm.finish_waiter /\ tm.finish_waiter[child'[q]] = q
    BY <1>1, <1>5, <1>6, <2>2 DEF Waits
  <2> QED
    BY <1>2, <2>1, <2>2 DEF Waits
<1> QED
  BY <1>7, <1>8, <1>9, <1>10 DEF Around

\* Wakeup of a task just made, with or without a wait for its end after it.
LEMMA StartKeeps ==
  ASSUME KernelInv, NEW p \in TaskId, Start(p)
  PROVE  Around' /\ NoLostWakeup'
<1> DEFINE c == child[p]
<1>1. /\ Making(p) /\ Parent(p) /\ tm.cpu = p /\ p # IdleTask
      /\ tm.tasks \subseteq TaskId /\ p \in tm.tasks /\ TaskId \subseteq Nat
      /\ tm.latest_id \in TaskId /\ \A q \in tm.tasks : q <= tm.latest_id
      /\ KernelTypes /\ Started /\ Families /\ Waits /\ MainAlone /\ NoLostWakeup
  BY Basics DEF KernelInv, Around, Start, At, Runs, Making, Parent
<1>2. /\ c \in tm.tasks /\ c \in TaskId /\ pc[c] = "new" /\ c # p
      /\ c # MainTask /\ c # IdleTask
  BY <1>1 DEF Families
<1>3. SameTasks(tm, tm') /\ tm'.awake[c] /\ OthersAwake(tm, tm', c)
  BY <1>2, Basics, WakeupFrame DEF Start, KernelInv
<1>4. PICK x \in {"handle", "await"} :
        /\ pc' = [pc EXCEPT ![p] = x, ![c] = "handle"] /\ child' = child
        /\ pc[p] = "start" => x = "handle"
  BY DEF Start
<1> HIDE DEF c
<1>5. /\ pc' \in [TaskId -> Place] /\ pc'[p] = x /\ pc'[c] = "handle"
      /\ \A q \in TaskId : q # p /\ q # c => pc'[q] = pc[q]
  BY <1>1, <1>2, <1>4 DEF KernelTypes, Place
<1>6. KernelTypes' /\ MainAlone'
  BY <1>1, <1>3, <1>4, <1>5 DEF KernelTypes, MainAlone, SameTasks
<1>7. NoLostWakeup'
  <2>1. ASSUME NEW q \in tm.tasks, pc'[q] = "loop", ~tm'.awake[q]
        PROVE  tm.msgs[q] = <<>>
    <3>1. q \in TaskId /\ q # p /\ q # c
      BY <1>1, <1>4, <1>5, <2>1
    <3>2. pc[q] = "loop" /\ ~tm.awake[q]
      BY <1>3, <1>5, <2>1, <3>1 DEF OthersAwake
    <3> QED
      BY <1>1, <3>2 DEF NoLostWakeup
  <2> QED
    BY <1>3, <2>1 DEF NoLostWakeup, SameTasks
<1>8. Started'
  <2>1. pc'[MainTask] \in {"loop", "handle", "start"} /\ pc'[IdleTask] = "loop"
    <3>1. MainTask = p => pc[p] = "start"
      BY <1>1 DEF Making, Started
    <3> QED
      BY <1>1, <1>2, <1>4, <1>5, <3>1, ConstantFacts DEF Started
  <2>2. ASSUME NEW q \in TaskId, q > tm.latest_id
        PROVE  pc'[q] = "new"
    <3>1. q # p /\ q # c
      BY <1>1, <1>2, <2>2
    <3> QED
      BY <1>1, <1>5, <2>2, <3>1 DEF Started
  <2>3. ASSUME NEW q \in TaskId, pc'[q] = "new"
        PROVE  ~tm'.awake[q]
    <3>1. q # p /\ q # c
      BY <1>4, <1>5, <2>3
    <3> QED
      BY <1>1, <1>3, <1>5, <2>3, <3>1 DEF Started, OthersAwake
  <2>4. \A q \in tm.finish_tasks : q <= tm.latest_id
    BY <1>1 DEF Started
  <2> QED
    BY <1>3, <2>1, <2>2, <2>3, <2>4 DEF Started, SameTasks
<1>9. Families'
  <2>1. ASSUME NEW q \in TaskId
        PROVE  /\ Making(q)' => Making(q) /\ q # p
               /\ Parent(q)' => Parent(q)
    BY <1>1, <1>2, <1>4, <1>5 DEF Making, Parent
  <2>2. \A q \in TaskId : Making(q) /\ q # p =>
          child[q] \in tm.tasks /\ pc'[child[q]] = "new"
    <3> SUFFICES ASSUME NEW q \in TaskId, Making(q), q # p
                 PROVE  child[q] \in tm.tasks /\ pc'[child[q]] = "new"
      OBVIOUS
    <3>1. child[q] \in tm.tasks /\ child[q] \in TaskId /\ pc[child[q]] = "new"
      BY <1>1 DEF Families
    <3>2. child[q] # c
      BY <1>1 DEF Families, Parent, c
    <3>3. child[q] # p
      BY <1>1, <3>1 DEF Making
    <3> QED
      BY <1>5, <3>1, <3>2, <3>3
  <2>3. Families
    BY <1>1
  <2> QED
    BY <1>3, <1>4, <2>1, <2>2, <2>3 DEF Families, SameTasks
<1>10. Waits'
  <2>1. pc[p] # "wait" /\ pc'[p] # "wait" /\ pc[c] # "wait" /\ pc'[c] # "wait"
    BY <1>1, <1>2, <1>4, <1>5 DEF Making
  <2>2. \A q \in TaskId : pc'[q] = "wait" <=> pc[q] = "wait"
    BY <1>5, <2>1
  <2>3. /\ tm'.finish_waiter = tm.finish_waiter /\ tm'.finish_tasks = tm.finish_tasks
        /\ child' = child
    BY <1>3, <1>4 DEF SameTasks
  <2>4. Waits
    BY <1>1
  <2> QED
    BY <2>2, <2>3, <2>4 DEF Waits
<1> QED
  BY <1>6, <1>7, <1>8, <1>9, <1>10 DEF Around

\* WaitFinish: the parent sleeps until the child has ended, or goes on.
LEMMA WaitKeeps ==
  ASSUME KernelInv, NEW p \in TaskId, Wait(p)
  PROVE  Around' /\ NoLostWakeup'
<1> DEFINE c == child[p]
<1>1. /\ pc[p] \in {"await", "wait"} /\ Parent(p) /\ tm.cpu = p /\ p # IdleTask
      /\ IInv(tm) /\ tm.tasks \subseteq TaskId
      /\ KernelTypes /\ Started /\ Families /\ Waits /\ MainAlone /\ NoLostWakeup
  BY Basics DEF KernelInv, Around, Wait, At, Runs, Parent
<1>2. c \in TaskId /\ c # p /\ p # MainTask
  BY <1>1 DEF Families, KernelTypes, Started
<1>3. /\ tm'.tasks = tm.tasks /\ tm'.latest_id = tm.latest_id /\ tm'.level = tm.level
      /\ tm'.msgs = tm.msgs /\ OthersAwake(tm, tm', p)
      /\ IF c \in tm.finish_tasks
         THEN /\ tm'.finish_tasks = tm.finish_tasks \ {c}
              /\ tm'.finish_waiter = tm.finish_waiter
         ELSE /\ tm'.finish_tasks = tm.finish_tasks
              /\ DOMAIN tm'.finish_waiter = DOMAIN tm.finish_waiter \cup {c}
              /\ tm'.finish_waiter[c] = p
              /\ \A k \in DOMAIN tm.finish_waiter \ {c} :
                   tm'.finish_waiter[k] = tm.finish_waiter[k]
  BY <1>1, <1>2, WaitFinishFrame DEF Wait
<1>4. child' = child
      /\ pc' = [pc EXCEPT ![p] = IF c \in tm.finish_tasks THEN "handle" ELSE "wait"]
  BY DEF Wait, Goto
<1> HIDE DEF c
<1>5. /\ pc' \in [TaskId -> Place]
      /\ pc'[p] = IF c \in tm.finish_tasks THEN "handle" ELSE "wait"
      /\ \A q \in TaskId : q # p => pc'[q] = pc[q]
  BY <1>1, <1>4 DEF KernelTypes, Place
<1>6. KernelTypes' /\ MainAlone'
  BY <1>1, <1>3, <1>4, <1>5 DEF KernelTypes, MainAlone
<1>7. NoLostWakeup'
  <2>1. ASSUME NEW q \in tm.tasks, pc'[q] = "loop", ~tm'.awake[q]
        PROVE  tm.msgs[q] = <<>>
    <3>1. q \in TaskId /\ q # p
      BY <1>1, <1>5, <2>1
    <3>2. pc[q] = "loop" /\ ~tm.awake[q]
      BY <1>3, <1>5, <2>1, <3>1 DEF OthersAwake
    <3> QED
      BY <1>1, <3>2 DEF NoLostWakeup
  <2> QED
    BY <1>3, <2>1 DEF NoLostWakeup
<1>8. Started'
  <2>1. pc'[MainTask] \in {"loop", "handle", "start"} /\ pc'[IdleTask] = "loop"
    BY <1>1, <1>2, <1>5, ConstantFacts DEF Started
  <2>2. \A q \in TaskId : q > tm.latest_id => pc'[q] = "new"
    BY <1>1, <1>5 DEF Started
  <2>3. ASSUME NEW q \in TaskId, pc'[q] = "new"
        PROVE  ~tm'.awake[q]
    <3>1. q # p
      BY <1>5, <2>3
    <3> QED
      BY <1>1, <1>3, <1>5, <2>3, <3>1 DEF Started, OthersAwake
  <2>4. \A q \in tm'.finish_tasks : q <= tm.latest_id
    BY <1>1, <1>3 DEF Started
  <2> QED
    BY <1>3, <2>1, <2>2, <2>3, <2>4 DEF Started
<1>9. Families'
  <2>1. ASSUME NEW q \in TaskId
        PROVE  /\ Making(q)' => Making(q)
               /\ Parent(q)' => Parent(q) /\ (q = p => c \notin tm.finish_tasks)
    BY <1>1, <1>5 DEF Making, Parent
  <2>2. \A q \in TaskId : Making(q) =>
          child[q] \in tm.tasks /\ pc'[child[q]] = "new"
    BY <1>1, <1>5 DEF Families
  <2>3. \A q \in TaskId : Parent(q) /\ (q = p => c \notin tm.finish_tasks) =>
          child[q] \in (tm.tasks \cup tm'.finish_tasks) \ {MainTask, IdleTask, q}
    BY <1>1, <1>3 DEF Families, c
  <2>4. \A q, r \in TaskId : Parent(q) /\ Parent(r) /\ child[q] = child[r] => q = r
    BY <1>1 DEF Families
  <2> QED
    BY <1>3, <1>4, <2>1, <2>2, <2>3, <2>4 DEF Families
<1>10. Waits'
  <2>1. ASSUME NEW id \in DOMAIN tm'.finish_waiter
        PROVE  LET w == tm'.finish_waiter[id]
               IN /\ w \in TaskId /\ pc'[w] = "wait" /\ child[w] = id
                  /\ id \notin tm'.finish_tasks
    <3>1. CASE id = c /\ c \notin tm.finish_tasks
      BY <1>3, <1>5, <3>1 DEF c
    <3>2. CASE ~(id = c /\ c \notin tm.finish_tasks)
      <4>1. id \in DOMAIN tm.finish_waiter /\ tm'.finish_waiter[id] = tm.finish_waiter[id]
            /\ id \notin tm'.finish_tasks /\ id # c
        BY <1>1, <1>3, <3>2 DEF Waits
      <4>2. tm.finish_waiter[id] # p
        BY <1>1, <4>1 DEF Waits, c
      <4> QED
        BY <1>1, <1>5, <4>1, <4>2 DEF Waits
    <3> QED
      BY <3>1, <3>2
  <2>2. ASSUME NEW q \in TaskId, pc'[q] = "wait"
        PROVE  \/ child[q] \in tm'.finish_tasks
               \/ child[q] \in DOMAIN tm'.finish_waiter /\ tm'.finish_waiter[child[q]] = q
    <3>1. CASE q = p
      BY <1>3, <1>5, <2>2, <3>1 DEF c
    <3>2. CASE q # p
      <4>1. pc[q] = "wait" /\ child[q] # c
        BY <1>1, <1>5, <2>2, <3>2 DEF Families, Parent, c
      <4> QED
        BY <1>1, <1>3, <4>1 DEF Waits
    <3> QED
      BY <3>1, <3>2
  <2> QED
    BY <1>4, <2>1, <2>2 DEF Waits
<1> QED
  BY <1>6, <1>7, <1>8, <1>9, <1>10 DEF Around

\* Finish: a task ends, and a parent that waits for it is woken.
LEMMA ExitKeeps ==
  ASSUME KernelInv, NEW p \in TaskId, Exit(p)
  PROVE  Around' /\ NoLostWakeup'
<1>1. /\ pc[p] = "handle" /\ tm.cpu = p /\ p # IdleTask
      /\ IInv(tm) /\ tm.tasks \subseteq TaskId /\ p \in tm.tasks /\ p <= tm.latest_id
      /\ KernelTypes /\ Started /\ Families /\ Waits /\ MainAlone /\ NoLostWakeup
      /\ pc' = pc /\ child' = child
  BY Basics DEF KernelInv, Around, Exit, At, Runs
<1>2. \A id \in DOMAIN tm.finish_waiter : tm.finish_waiter[id] # p
  BY <1>1 DEF Waits
<1>3. /\ tm'.tasks = tm.tasks \ {p} /\ tm'.latest_id = tm.latest_id
      /\ tm'.level = tm.level /\ tm'.msgs = tm.msgs
      /\ tm'.finish_tasks = tm.finish_tasks \cup {p}
      /\ DOMAIN tm'.finish_waiter = DOMAIN tm.finish_waiter \ {p}
      /\ \A id \in DOMAIN tm'.finish_waiter : tm'.finish_waiter[id] = tm.finish_waiter[id]
      /\ \A q \in TaskId : (tm'.awake[q] <=> tm.awake[q])
           \/ (p \in DOMAIN tm.finish_waiter /\ q = tm.finish_waiter[p])
  BY <1>1, <1>2, FinishFrame DEF Exit
<1>4. \A q \in TaskId : pc[q] # "wait" => (tm'.awake[q] <=> tm.awake[q])
  BY <1>1, <1>3 DEF Waits
<1>5. KernelTypes' /\ MainAlone'
  BY <1>1, <1>3 DEF KernelTypes, MainAlone
<1>6. NoLostWakeup'
  BY <1>1, <1>3, <1>4 DEF NoLostWakeup
<1>7. Started'
  BY <1>1, <1>3, <1>4 DEF Started
<1>8. Families'
  <2>1. \A q \in TaskId : Making(q) => child[q] \in tm.tasks \ {p} /\ pc[child[q]] = "new"
    BY <1>1 DEF Families
  <2>2. \A q \in TaskId : (Making(q)' => Making(q)) /\ (Parent(q)' => Parent(q))
    BY <1>1 DEF Making, Parent
  <2>3. Families
    BY <1>1
  <2> QED
    BY <1>1, <1>3, <2>1, <2>2, <2>3 DEF Families
<1>9. Waits'
  BY <1>1, <1>3 DEF Waits
<1> QED
  BY <1>5, <1>6, <1>7, <1>8, <1>9 DEF Around

\* The steps that make, start, await and end no task.
LEMMA OthersKeep ==
  ASSUME KernelInv,
         TaskTimer \/ TimerMessage
           \/ \E p \in TaskId : Take(p) \/ Block(p) \/ Done(p) \/ Post(p)
  PROVE  Around' /\ NoLostWakeup'
<1>1. /\ tm \in State /\ tm.cpu \in TaskId /\ tm.awake[tm.cpu] /\ tm.tasks \subseteq TaskId
      /\ KernelTypes /\ Started /\ NoLostWakeup
  BY Basics DEF KernelInv, Around
<1>2. CASE TaskTimer
  <2>1. SameTasks(tm, tm') /\ tm'.awake = tm.awake /\ pc' = pc /\ child' = child
    BY <1>1, <1>2, SwitchTaskFrame DEF TaskTimer
  <2>2. Around'
    BY <1>1, <2>1, Steady DEF SameTasks, KernelTypes, Started
  <2> QED
    BY <1>1, <2>1, <2>2 DEF NoLostWakeup, SameTasks
<1>3. ASSUME NEW id \in Known, NEW m \in Message, tm' = SendMessage(tm, id, m),
             pc' = pc, child' = child
      PROVE  Around' /\ NoLostWakeup'
  <2>1. id \in TaskId /\ pc[id] # "new"
    BY DEF Known
  <2>2. /\ tm'.tasks = tm.tasks /\ tm'.latest_id = tm.latest_id /\ tm'.level = tm.level
        /\ tm'.finish_tasks = tm.finish_tasks /\ tm'.finish_waiter = tm.finish_waiter
        /\ tm' = tm \/ /\ tm'.awake[id] /\ OthersAwake(tm, tm', id)
                       /\ \A q \in TaskId : q # id => tm'.msgs[q] = tm.msgs[q]
    BY <1>1, <1>3, <2>1, SendFrame
  <2>3. \A q \in TaskId : pc[q] = "new" => ~tm'.awake[q]
    BY <1>1, <2>1, <2>2 DEF Started, OthersAwake
  <2>4. Around'
    BY <1>1, <1>3, <2>2, <2>3, Steady DEF KernelTypes
  <2>5. NoLostWakeup'
    BY <1>1, <1>3, <2>2 DEF NoLostWakeup, OthersAwake
  <2> QED
    BY <2>4, <2>5
<1>4. CASE TimerMessage
  BY <1>3, <1>4 DEF TimerMessage
<1>5. ASSUME NEW p \in TaskId, Post(p)
      PROVE  Around' /\ NoLostWakeup'
  BY <1>3, <1>5 DEF Post
<1>6. ASSUME NEW p \in TaskId, Take(p)
      PROVE  Around' /\ NoLostWakeup'
  <2>1. /\ pc[p] = "loop" /\ tm.cpu = p /\ p # IdleTask /\ child' = child
        /\ pc' = [pc EXCEPT ![p] = "handle"]
    BY <1>6 DEF Take, At, Runs, Goto
  <2>2. /\ tm'.tasks = tm.tasks /\ tm'.latest_id = tm.latest_id /\ tm'.level = tm.level
        /\ tm'.finish_tasks = tm.finish_tasks /\ tm'.finish_waiter = tm.finish_waiter
        /\ tm'.awake = tm.awake /\ \A q \in TaskId : q # p => tm'.msgs[q] = tm.msgs[q]
    BY <1>1, <1>6, ReceiveFrame DEF Take
  <2>3. /\ pc' \in [TaskId -> Place] /\ pc'[p] = "handle"
        /\ \A q \in TaskId : q # p => pc'[q] = pc[q]
    BY <1>1, <2>1 DEF KernelTypes, Place
  <2>4. Around'
    BY <1>1, <2>1, <2>2, <2>3, ConstantFacts, Steady DEF Started
  <2>5. NoLostWakeup'
    BY <1>1, <2>1, <2>2, <2>3 DEF NoLostWakeup
  <2> QED
    BY <2>4, <2>5
<1>7. ASSUME NEW p \in TaskId, Block(p)
      PROVE  Around' /\ NoLostWakeup'
  <2>1. /\ pc[p] = "loop" /\ tm.msgs[p] = <<>> /\ pc' = pc /\ child' = child
    BY <1>7 DEF Block, At
  <2>2. SameTasks(tm, tm') /\ OthersAwake(tm, tm', p)
    BY <1>1, <1>7, SleepFrame DEF Block
  <2>3. \A q \in TaskId : pc[q] = "new" => ~tm'.awake[q]
    BY <1>1, <2>1, <2>2 DEF Started, OthersAwake
  <2>4. Around'
    BY <1>1, <2>1, <2>2, <2>3, Steady DEF SameTasks, KernelTypes
  <2>5. NoLostWakeup'
    BY <1>1, <2>1, <2>2 DEF NoLostWakeup, SameTasks, OthersAwake
  <2> QED
    BY <2>4, <2>5
<1>8. ASSUME NEW p \in TaskId, Done(p)
      PROVE  Around' /\ NoLostWakeup'
  <2>1. /\ pc[p] = "handle" /\ tm.cpu = p /\ p # IdleTask /\ child' = child /\ tm' = tm
        /\ pc' = [pc EXCEPT ![p] = "loop"]
    BY <1>8 DEF Done, At, Runs, Goto
  <2>2. /\ pc' \in [TaskId -> Place] /\ pc'[p] = "loop"
        /\ \A q \in TaskId : q # p => pc'[q] = pc[q]
    BY <1>1, <2>1 DEF KernelTypes, Place
  <2>3. Around'
    BY <1>1, <2>1, <2>2, ConstantFacts, Steady DEF Started
  <2>4. NoLostWakeup'
    BY <1>1, <2>1, <2>2 DEF NoLostWakeup
  <2> QED
    BY <2>3, <2>4
<1> QED
  BY <1>2, <1>4, <1>5, <1>6, <1>7, <1>8

-----------------------------------------------------------------------------
(* The kernel: the theorems *)

\* Whatever a task of the kernel or an interrupt handler does is a use of the
\* task manager that TaskManager's own specification allows.
LEMMA StepUses == KernelInv /\ [KernelNext]_vars => [Next]_tm
<1> SUFFICES ASSUME KernelInv, KernelNext
             PROVE  Next \/ tm' = tm
  BY DEF vars
<1>1. /\ tm.tasks \subseteq TaskId /\ tm.cpu \in tm.tasks /\ tm.cpu \in TaskId
      /\ Started /\ Families /\ Waits
  BY Basics DEF KernelInv, Around
<1>2. pc[tm.cpu] # "wait" => ~Waiting(tm.cpu)
  BY <1>1 DEF Waits, Waiting
<1>3. ASSUME NEW p \in TaskId, Take(p)
      PROVE  Receive
  BY <1>2, <1>3 DEF Take, At, Runs, Receive, Calls
<1>4. ASSUME NEW p \in TaskId, Block(p)
      PROVE  Suspend
  BY <1>1, <1>2, <1>4 DEF Block, At, Runs, Suspend, Calls
<1>5. ASSUME NEW p \in TaskId, Done(p)
      PROVE  tm' = tm
  BY <1>5 DEF Done
<1>6. ASSUME NEW p \in TaskId, Post(p)
      PROVE  Send
  BY <1>2, <1>6 DEF Post, At, Runs, Send, Calls, Known
<1>7. ASSUME NEW p \in TaskId, New(p)
      PROVE  Create
  BY <1>2, <1>7 DEF New, At, Runs, Create, Calls
<1>8. ASSUME NEW p \in TaskId, Start(p)
      PROVE  Wake
  <2>1. tm.cpu = p /\ p # IdleTask /\ pc[p] \in {"start", "start&await"}
    BY <1>8 DEF Start, At, Runs
  <2>2. Calls /\ child[p] \in tm.tasks
    BY <1>1, <1>2, <2>1 DEF Calls, Families, Making
  <2>3. tm' = Wakeup(tm, child[p], -1)
    BY <1>8 DEF Start
  <2> QED
    BY <2>2, <2>3, KernelAssumption DEF Wake
<1>9. ASSUME NEW p \in TaskId, Wait(p)
      PROVE  Await
  <2>1. tm.cpu = p /\ p # IdleTask /\ pc[p] \in {"await", "wait"}
    BY <1>9 DEF Wait, At, Runs
  <2>2. child[p] \in (tm.tasks \cup tm.finish_tasks) \ {MainTask, IdleTask, p}
    BY <1>1, <2>1 DEF Families, Parent
  <2>3. tm' = WaitFinish(tm, child[p])
    BY <1>9 DEF Wait
  <2>4. CASE child[p] \in DOMAIN tm.finish_waiter
    <3>1. tm.finish_waiter[child[p]] = p
      BY <1>1, <2>1, <2>4 DEF Waits, Families, Parent
    <3> QED
      BY <2>1, <2>2, <2>3, <2>4, <3>1 DEF Await
  <2>5. CASE child[p] \notin DOMAIN tm.finish_waiter
    <3>1. ~Waiting(p)
      BY <1>1, <2>5 DEF Waits, Waiting
    <3> QED
      BY <2>1, <2>2, <2>3, <2>5, <3>1 DEF Await, Calls
  <2> QED
    BY <2>4, <2>5
<1>10. ASSUME NEW p \in TaskId, Exit(p)
       PROVE  End
  BY <1>2, <1>10 DEF Exit, At, Runs, End, Calls
<1>11. CASE TaskTimer
  <2>1. PICK m \in Message : TRUE
    BY KernelAssumption
  <2>2. 0 \notin tm.tasks
    BY <1>1 DEF TaskId
  <2>3. SendMessage(tm, 0, m) = tm /\ Room(0)
    BY <2>2 DEF SendMessage, Room
  <2>4. tm' = SwitchTask(tm)
    BY <1>11 DEF TaskTimer
  <2> QED
    BY <2>3, <2>4 DEF Next, TimerInterrupt
<1>12. CASE TimerMessage
  BY <1>12 DEF TimerMessage, Known, Next, TimerInterrupt
<1> QED
  BY <1>3, <1>4, <1>5, <1>6, <1>7, <1>8, <1>9, <1>10, <1>11, <1>12
     DEF KernelNext, TaskStep, Next

\* InitializeTask leaves the idle task and the main task, with the invariant.
LEMMA KernelInitHolds == KernelInit => KernelInv
<1> SUFFICES ASSUME KernelInit PROVE KernelInv
  OBVIOUS
<1>1. IInv(tm)
  BY InitHolds DEF KernelInit
<1>2. /\ tm.latest_id = IdleTask /\ tm.finish_tasks = {}
      /\ tm.msgs = [p \in TaskId |-> <<>>]
      /\ tm.awake = [p \in TaskId |-> p \in {MainTask, IdleTask}]
      /\ tm.level = [p \in TaskId |-> CASE p = MainTask -> kMaxLevel
                                       [] p = IdleTask -> 0
                                       [] OTHER -> kDefaultLevel]
      /\ DOMAIN tm.finish_waiter = {}
  BY DEF KernelInit, Init
<1>3. pc \in [TaskId -> {"loop", "new"}] /\ child \in [TaskId -> TaskId]
      /\ \A p \in TaskId : pc[p] = "loop" <=> p <= IdleTask
  BY ConstantFacts DEF KernelInit
<1>4. \A p \in TaskId : p <= IdleTask <=> p \in {MainTask, IdleTask}
  BY DEF TaskId, MainTask, IdleTask
<1>5. KernelTypes /\ Families
  BY <1>3 DEF KernelTypes, Place, Families, Making, Parent
<1>6. Started
  <2>1. \A p \in TaskId : pc[p] = "new" => ~tm.awake[p]
    BY <1>2, <1>3, <1>4
  <2>2. \A p \in TaskId : p > IdleTask => pc[p] = "new"
    BY <1>3 DEF TaskId, IdleTask
  <2>3. pc[MainTask] = "loop" /\ pc[IdleTask] = "loop"
    BY <1>3, <1>4, ConstantFacts
  <2> QED
    BY <1>2, <2>1, <2>2, <2>3 DEF Started
<1>7. Waits /\ NoLostWakeup
  <2>1. Waits
    BY <1>2, <1>3 DEF Waits
  <2>2. \A p \in tm.tasks : p \in TaskId
    BY <1>1, Basics
  <2> QED
    BY <1>2, <2>1, <2>2 DEF NoLostWakeup
<1>8. MainAlone
  BY <1>2, ConstantFacts, LevelAssumption, KernelAssumption DEF MainAlone, Level
<1> QED
  BY <1>1, <1>5, <1>6, <1>7, <1>8 DEF KernelInv, Around

\* Every step of the kernel keeps the invariant.
LEMMA KernelStepHolds == KernelInv /\ [KernelNext]_vars => KernelInv'
<1> SUFFICES ASSUME KernelInv, [KernelNext]_vars PROVE KernelInv'
  OBVIOUS
<1>1. IInv(tm)'
  BY StepUses, StepHolds DEF KernelInv
<1>2. CASE KernelNext
  BY <1>1, <1>2, NewKeeps, StartKeeps, WaitKeeps, ExitKeeps, OthersKeep
     DEF KernelNext, TaskStep, KernelInv
<1>3. CASE UNCHANGED vars
  BY <1>1, <1>3 DEF vars, KernelInv, Around, KernelTypes, Started, Families, Making,
                    Parent, Waits, MainAlone, NoLostWakeup
<1> QED
  BY <1>2, <1>3

\* Families, waiters and levels are consistent at every moment.
THEOREM KernelInvariant == KernelSpec => []KernelInv
  BY KernelInitHolds, KernelStepHolds, PTL DEF KernelSpec

\* A task that sleeps at the top of its loop has no message: between the test
\* of the mailbox and Sleep (cli, sti of the loops) nobody sends one.
THEOREM NoLostWakeupCorrect == KernelSpec => []NoLostWakeup
<1>1. KernelInv => NoLostWakeup
  BY DEF KernelInv
<1> QED
  BY <1>1, KernelInvariant, PTL

\* The tasks of the kernel and the interrupt handlers call the methods only
\* as TaskManager's specification allows: nobody wakes a task that is gone,
\* ends or sends while another waits on it, or enters twice as waiting.
THEOREM UsesTaskManagerCorrect == KernelSpec => UsesTaskManager
<1>1. KernelInit => Init
  BY DEF KernelInit
<1> QED
  BY <1>1, StepUses, KernelInvariant, PTL DEF KernelSpec, UsesTaskManager, Spec

\* So the kernel's tasks are scheduled as module Scheduler says.
THEOREM KernelScheduled == KernelSpec => ImplementsScheduler
  BY UsesTaskManagerCorrect, Refinement, PTL DEF UsesTaskManager

\* The main task, alone at the highest level, gives the processor up only by
\* going to sleep at the top of its loop.
THEOREM MainRunsToSleepCorrect == KernelSpec => MainRunsToSleep
<1> DEFINE Stays == tm.cpu = MainTask /\ tm'.cpu # MainTask
                      => pc[MainTask] = "loop" /\ ~tm'.awake[MainTask]
<1>1. KernelInv /\ [KernelNext]_vars => [Stays]_vars
  <2> SUFFICES ASSUME KernelInv, KernelNext, tm.cpu = MainTask, tm'.cpu # MainTask
               PROVE  pc[MainTask] = "loop" /\ ~tm'.awake[MainTask]
    BY DEF Stays
  <2>1. /\ tm \in State /\ IInv(tm) /\ tm.cpu \in TaskId /\ tm.tasks \subseteq TaskId
        /\ MainTask \in TaskId /\ Started /\ Families /\ MainAlone
        /\ MainTask \in Ready(tm)
    BY Basics DEF KernelInv, Around, Ready
  <2>2. ASSUME NEW p \in TaskId, At(p, "loop") \/ At(p, "handle") \/ At(p, "start")
                 \/ At(p, "start&await") \/ At(p, "await") \/ At(p, "wait")
        PROVE  p = MainTask
    BY <2>2 DEF At, Runs
  <2>3. ASSUME NEW p \in TaskId, Block(p)
        PROVE  pc[MainTask] = "loop" /\ ~tm'.awake[MainTask]
    <3>1. p = MainTask /\ pc[p] = "loop" /\ tm' = Sleep(tm, p)
      BY <2>3 DEF Block, At, Runs
    <3> QED
      BY <2>1, <3>1, SleepFrame
  <2>4. ASSUME NEW p \in TaskId, Take(p) \/ Done(p) \/ Post(p) \/ New(p)
        PROVE  FALSE
    BY <2>1, <2>4, ReceiveFrame, SendFrame, NewTaskFrame
       DEF Take, Done, Post, New, Known
  <2>5. ASSUME NEW p \in TaskId, Start(p)
        PROVE  FALSE
    <3>1. child[p] \in tm.tasks /\ tm' = Wakeup(tm, child[p], -1)
      BY <2>1, <2>5 DEF Start, At, Families, Making
    <3> QED
      BY <2>1, <3>1, WakeupFrame
  <2>6. ASSUME NEW p \in TaskId, Wait(p) \/ Exit(p)
        PROVE  FALSE
    BY <2>1, <2>2, <2>6 DEF Wait, Exit, At, Runs, Started
  <2>7. ~TimerMessage
    BY <2>1, SendFrame DEF TimerMessage, Known
  <2>8. ~TaskTimer
    <3> SUFFICES ASSUME TaskTimer PROVE FALSE
      OBVIOUS
    <3>1. Ready(tm') = Ready(tm) /\ tm'.cpu \in BestOf(Ready(tm'), tm.level)
      BY <2>1, SwitchTaskEffect DEF TaskTimer
    <3>2. tm.level[MainTask] <= tm.level[tm'.cpu] /\ tm'.cpu \in TaskId
      BY <2>1, <3>1 DEF BestOf, Ready
    <3>3. tm.level[tm'.cpu] < kMaxLevel /\ tm.level[MainTask] = kMaxLevel
      BY <2>1, <3>2 DEF MainAlone
    <3>4. tm.level[tm'.cpu] \in Nat /\ kMaxLevel \in Nat
      BY <2>1, <3>2, ConstantFacts, LevelAssumption DEF State
    <3> QED
      BY <3>2, <3>3, <3>4
  <2> QED
    BY <2>3, <2>4, <2>5, <2>6, <2>7, <2>8 DEF KernelNext, TaskStep
<1> QED
  BY <1>1, KernelInvariant, PTL DEF KernelSpec, MainRunsToSleep, Stays
=============================================================================

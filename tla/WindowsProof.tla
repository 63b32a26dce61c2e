---------------------------- MODULE WindowsProof ----------------------------
(***************************************************************************)
(* Proofs about Windows, for any number of terminals, pipes, windows and   *)
(* messages: a layer that a task has a pointer to is there, because each   *)
(* window belongs to one task, and only that one closes it; the stack of   *)
(* layers holds every layer once, between the desktop and the pointer,     *)
(* with the active layer in front; and a terminal that has run no command  *)
(* knows, once it has read its messages, whether its window is the active  *)
(* one, because every change of the active layer sends it a message.       *)
(***************************************************************************)
EXTENDS Windows, SequenceTheorems, TLAPS

-----------------------------------------------------------------------------
(* What hiding and inserting a layer does to the stack of them *)

LEMMA Indices ==
  ASSUME NEW S, NEW q \in Seq(S)
  PROVE  /\ Len(q) \in Nat
         /\ DOMAIN q = 1..Len(q)
         /\ Range(q) = { q[i] : i \in 1..Len(q) }
         /\ IsInjective(q) <=> \A i, j \in 1..Len(q) : q[i] = q[j] => i = j
  BY LenProperties, RangeEquality DEF IsInjective

\* The sequence without the element in place k
LEMMA Cut ==
  ASSUME NEW S, NEW q \in Seq(S), NEW k \in 1..Len(q)
  PROVE  LET r == SubSeq(q, 1, k - 1) \o SubSeq(q, k + 1, Len(q))
         IN /\ r \in Seq(S) /\ Len(r) = Len(q) - 1
            /\ \A i \in 1..(Len(q) - 1) : r[i] = IF i < k THEN q[i] ELSE q[i + 1]
<1> DEFINE a == SubSeq(q, 1, k - 1)
           b == SubSeq(q, k + 1, Len(q))
           r == a \o b
           n == Len(q)
<1>0. n \in Nat /\ k \in Nat /\ k >= 1 /\ k <= n
  BY Indices
<1>1. \A i \in 1..n : q[i] \in S
  BY ElementOfSeq
<1>2. a \in Seq(S) /\ Len(a) = k - 1 /\ \A i \in 1..(k - 1) : a[i] = q[i]
  <2>1. k - 1 \in Int /\ 1 \in Int /\ \A i \in 1..(k - 1) : q[i] \in S
    BY <1>0, <1>1
  <2>2. /\ a \in Seq(S)
        /\ Len(a) = IF 1 <= k - 1 THEN (k - 1) - 1 + 1 ELSE 0
        /\ \A i \in 1..((k - 1) - 1 + 1) : a[i] = q[1 + i - 1]
    BY <2>1, SubSeqProperties
  <2> QED
    BY <1>0, <2>2
<1>3. b \in Seq(S) /\ Len(b) = n - k /\ \A i \in 1..(n - k) : b[i] = q[k + i]
  <2>1. k + 1 \in Int /\ n \in Int /\ \A i \in (k + 1)..n : q[i] \in S
    BY <1>0, <1>1
  <2>2. /\ b \in Seq(S)
        /\ Len(b) = IF k + 1 <= n THEN n - (k + 1) + 1 ELSE 0
        /\ \A i \in 1..(n - (k + 1) + 1) : b[i] = q[(k + 1) + i - 1]
    BY <2>1, SubSeqProperties
  <2> QED
    BY <1>0, <2>2
<1> HIDE DEF a, b
<1>4. /\ r \in Seq(S) /\ Len(r) = n - 1
      /\ \A i \in 1..(n - 1) : r[i] = IF i < k THEN q[i] ELSE q[i + 1]
  <2>1. /\ r \in Seq(S) /\ Len(r) = Len(a) + Len(b)
        /\ \A i \in 1..(Len(a) + Len(b)) :
              r[i] = IF i <= Len(a) THEN a[i] ELSE b[i - Len(a)]
    BY <1>2, <1>3, ConcatProperties
  <2>2. Len(r) = n - 1
    BY <1>0, <1>2, <1>3, <2>1
  <2>3. ASSUME NEW i \in 1..(n - 1)
        PROVE  r[i] = IF i < k THEN q[i] ELSE q[i + 1]
    <3>1. CASE i < k
      BY <1>0, <1>2, <1>3, <2>1, <2>2, <3>1
    <3>2. CASE ~(i < k)
      <4>1. i - (k - 1) \in 1..(n - k) /\ k + (i - (k - 1)) = i + 1
        BY <1>0, <3>2
      <4>2. ~(i <= Len(a)) /\ i - Len(a) = i - (k - 1) /\ i \in 1..(Len(a) + Len(b))
        BY <1>0, <1>2, <1>3, <3>2
      <4>3. r[i] = b[i - (k - 1)]
        BY <2>1, <4>2
      <4>4. b[i - (k - 1)] = q[k + (i - (k - 1))]
        BY <1>3, <4>1
      <4> QED
        BY <3>2, <4>1, <4>3, <4>4
    <3> QED
      BY <3>1, <3>2
  <2> QED
    BY <2>1, <2>2, <2>3
<1> QED
  BY <1>4 DEF r, a, b

\* The removal of the element in place k
LEMMA RemoveOne ==
  ASSUME NEW S, NEW q \in Seq(S), NEW k \in 1..Len(q), IsInjective(q)
  PROVE  LET r == SubSeq(q, 1, k - 1) \o SubSeq(q, k + 1, Len(q))
         IN /\ r \in Seq(S)
            /\ Range(r) = Range(q) \ {q[k]}
            /\ IsInjective(r)
<1> DEFINE r == SubSeq(q, 1, k - 1) \o SubSeq(q, k + 1, Len(q))
           n == Len(q)
<1>0. n \in Nat /\ k \in Nat /\ k >= 1 /\ k <= n
  BY Indices
<1>1. /\ r \in Seq(S) /\ Len(r) = n - 1
      /\ \A i \in 1..(n - 1) : r[i] = IF i < k THEN q[i] ELSE q[i + 1]
  BY Cut
<1> HIDE DEF r
<1>2. /\ Range(q) = { q[i] : i \in 1..n }
      /\ Range(r) = { r[i] : i \in 1..(n - 1) }
      /\ \A i, j \in 1..n : q[i] = q[j] => i = j
  BY <1>1, Indices
<1>3. Range(r) = Range(q) \ {q[k]}
  <2>1. ASSUME NEW i \in 1..(n - 1)
        PROVE  r[i] \in Range(q) \ {q[k]}
    <3>1. /\ i \in 1..n /\ i + 1 \in 1..n
          /\ i < k => i # k
          /\ ~(i < k) => i + 1 # k
      BY <1>0
    <3> QED
      BY <1>0, <1>1, <1>2, <3>1
  <2>2. ASSUME NEW i \in 1..n, q[i] # q[k]
        PROVE  q[i] \in Range(r)
    <3>1. CASE i < k
      <4>1. i \in 1..(n - 1) /\ r[i] = q[i]
        BY <1>0, <1>1, <3>1
      <4> QED
        BY <1>2, <4>1
    <3>2. CASE ~(i < k)
      <4>1. i - 1 \in 1..(n - 1) /\ ~(i - 1 < k) /\ (i - 1) + 1 = i
        BY <1>0, <2>2, <3>2
      <4>2. r[i - 1] = q[i]
        BY <1>1, <4>1
      <4> QED
        BY <1>2, <4>1, <4>2
    <3> QED
      BY <3>1, <3>2
  <2>3. Range(r) \subseteq Range(q) \ {q[k]}
    BY <1>2, <2>1
  <2>4. Range(q) \ {q[k]} \subseteq Range(r)
    BY <1>2, <2>2
  <2> QED
    BY <2>3, <2>4
<1>4. IsInjective(r)
  <2>1. ASSUME NEW i \in 1..(n - 1), NEW j \in 1..(n - 1), r[i] = r[j]
        PROVE  i = j
    <3>1. i \in 1..n /\ i + 1 \in 1..n /\ j \in 1..n /\ j + 1 \in 1..n
      BY <1>0
    <3> QED
      BY <1>0, <1>1, <1>2, <2>1, <3>1
  <2> QED
    BY <1>1, <2>1, Indices
<1> QED
  BY <1>1, <1>3, <1>4 DEF r

\* The sequence with another element put in place k
LEMMA InsertOne ==
  ASSUME NEW S, NEW q \in Seq(S), NEW k \in 1..(Len(q) + 1), NEW e \in S,
         IsInjective(q), e \notin Range(q)
  PROVE  LET r == SubSeq(q, 1, k - 1) \o <<e>> \o SubSeq(q, k, Len(q))
         IN /\ r \in Seq(S) /\ Len(r) = Len(q) + 1
            /\ \A i \in 1..(Len(q) + 1) :
                 r[i] = IF i < k THEN q[i] ELSE IF i = k THEN e ELSE q[i - 1]
            /\ Range(r) = Range(q) \cup {e}
            /\ IsInjective(r)
<1> DEFINE a == SubSeq(q, 1, k - 1)
           b == SubSeq(q, k, Len(q))
           c == a \o <<e>>
           r == c \o b
           n == Len(q)
<1>0. n \in Nat /\ k \in Nat /\ k >= 1 /\ k <= n + 1
  BY Indices
<1>1. \A i \in 1..n : q[i] \in S
  BY ElementOfSeq
<1>2. a \in Seq(S) /\ Len(a) = k - 1 /\ \A i \in 1..(k - 1) : a[i] = q[i]
  <2>1. k - 1 \in Int /\ 1 \in Int /\ \A i \in 1..(k - 1) : q[i] \in S
    BY <1>0, <1>1
  <2>2. /\ a \in Seq(S)
        /\ Len(a) = IF 1 <= k - 1 THEN (k - 1) - 1 + 1 ELSE 0
        /\ \A i \in 1..((k - 1) - 1 + 1) : a[i] = q[1 + i - 1]
    BY <2>1, SubSeqProperties
  <2> QED
    BY <1>0, <2>2
<1>3. b \in Seq(S) /\ Len(b) = n - k + 1 /\ \A i \in 1..(n - k + 1) : b[i] = q[k + i - 1]
  <2>1. k \in Int /\ n \in Int /\ \A i \in k..n : q[i] \in S
    BY <1>0, <1>1
  <2>2. /\ b \in Seq(S)
        /\ Len(b) = IF k <= n THEN n - k + 1 ELSE 0
        /\ \A i \in 1..(n - k + 1) : b[i] = q[k + i - 1]
    BY <2>1, SubSeqProperties
  <2> QED
    BY <1>0, <2>2
<1> HIDE DEF a, b
<1>4. c \in Seq(S) /\ Len(c) = k /\ \A i \in 1..k : c[i] = IF i < k THEN q[i] ELSE e
  <2>1. <<e>> \in Seq(S) /\ Len(<<e>>) = 1 /\ <<e>>[1] = e
    OBVIOUS
  <2>2. /\ c \in Seq(S) /\ Len(c) = Len(a) + 1
        /\ \A i \in 1..(Len(a) + 1) : c[i] = IF i <= Len(a) THEN a[i] ELSE <<e>>[i - Len(a)]
    BY <1>2, <2>1, ConcatProperties
  <2>3. ASSUME NEW i \in 1..k
        PROVE  c[i] = IF i < k THEN q[i] ELSE e
    <3>1. CASE i < k
      BY <1>0, <1>2, <2>2, <3>1
    <3>2. CASE ~(i < k)
      <4>1. i = k /\ ~(i <= Len(a)) /\ i - Len(a) = 1 /\ i \in 1..(Len(a) + 1)
        BY <1>0, <1>2, <3>2
      <4> QED
        BY <2>1, <2>2, <3>2, <4>1
    <3> QED
      BY <3>1, <3>2
  <2> QED
    BY <1>0, <1>2, <2>2, <2>3
<1> HIDE DEF c
<1>5. /\ r \in Seq(S) /\ Len(r) = n + 1
      /\ \A i \in 1..(n + 1) : r[i] = IF i <= k THEN c[i] ELSE b[i - k]
  <2>1. /\ r \in Seq(S) /\ Len(r) = Len(c) + Len(b)
        /\ \A i \in 1..(Len(c) + Len(b)) : r[i] = IF i <= Len(c) THEN c[i] ELSE b[i - Len(c)]
    BY <1>3, <1>4, ConcatProperties
  <2>2. Len(c) + Len(b) = n + 1
    BY <1>0, <1>3, <1>4
  <2> QED
    BY <1>4, <2>1, <2>2
<1> HIDE DEF r
<1>6. ASSUME NEW i \in 1..(n + 1)
      PROVE  r[i] = IF i < k THEN q[i] ELSE IF i = k THEN e ELSE q[i - 1]
  <2>1. CASE i <= k
    <3>1. i \in 1..k /\ r[i] = c[i]
      BY <1>0, <1>5, <2>1
    <3> QED
      BY <1>0, <1>4, <2>1, <3>1
  <2>2. CASE ~(i <= k)
    <3>1. i - k \in 1..(n - k + 1) /\ k + (i - k) - 1 = i - 1 /\ ~(i < k) /\ i # k
      BY <1>0, <2>2
    <3>2. b[i - k] = q[i - 1] /\ r[i] = b[i - k]
      BY <1>3, <1>5, <2>2, <3>1
    <3> QED
      BY <3>1, <3>2
  <2> QED
    BY <1>0, <2>1, <2>2
<1>7. /\ Range(q) = { q[i] : i \in 1..n }
      /\ Range(r) = { r[i] : i \in 1..(n + 1) }
      /\ \A i, j \in 1..n : q[i] = q[j] => i = j
  BY <1>5, Indices
<1>8. Range(r) = Range(q) \cup {e}
  <2>1. ASSUME NEW i \in 1..(n + 1)
        PROVE  r[i] \in Range(q) \cup {e}
    <3>1. /\ i < k => i \in 1..n
          /\ ~(i < k) /\ i # k => i - 1 \in 1..n
      BY <1>0
    <3> QED
      BY <1>6, <1>7, <3>1
  <2>2. ASSUME NEW i \in 1..n
        PROVE  q[i] \in Range(r)
    <3>1. CASE i < k
      <4>1. i \in 1..(n + 1) /\ r[i] = q[i]
        BY <1>0, <1>6, <3>1
      <4> QED
        BY <1>7, <4>1
    <3>2. CASE ~(i < k)
      <4>1. i + 1 \in 1..(n + 1) /\ ~(i + 1 < k) /\ i + 1 # k /\ (i + 1) - 1 = i
        BY <1>0, <3>2
      <4>2. r[i + 1] = q[i]
        BY <1>6, <4>1
      <4> QED
        BY <1>7, <4>1, <4>2
    <3> QED
      BY <3>1, <3>2
  <2>3. e \in Range(r)
    <3>1. k \in 1..(n + 1) /\ r[k] = e
      BY <1>0, <1>6
    <3> QED
      BY <1>7, <3>1
  <2> QED
    BY <1>7, <2>1, <2>2, <2>3
<1>9. IsInjective(r)
  <2>1. \A i \in 1..n : q[i] # e
    BY <1>7
  <2>2. ASSUME NEW i \in 1..(n + 1), i # k
        PROVE  \E m \in 1..n : r[i] = q[m] /\ i = IF m < k THEN m ELSE m + 1
    <3>1. CASE i < k
      <4>1. i \in 1..n /\ r[i] = q[i]
        BY <1>0, <1>6, <3>1
      <4> QED
        BY <3>1, <4>1
    <3>2. CASE ~(i < k)
      <4>1. i - 1 \in 1..n /\ r[i] = q[i - 1] /\ ~(i - 1 < k) /\ i = (i - 1) + 1
        BY <1>0, <1>6, <2>2, <3>2
      <4> QED
        BY <4>1
    <3> QED
      BY <3>1, <3>2
  <2>3. r[k] = e
    BY <1>0, <1>6
  <2>4. \A i \in 1..(n + 1) : i # k => r[i] # e
    BY <2>1, <2>2
  <2>5. ASSUME NEW i \in 1..(n + 1), NEW j \in 1..(n + 1), r[i] = r[j], i # k, j # k
        PROVE  i = j
    <3>1. PICK m \in 1..n : r[i] = q[m] /\ i = IF m < k THEN m ELSE m + 1
      BY <2>2, <2>5
    <3>2. PICK l \in 1..n : r[j] = q[l] /\ j = IF l < k THEN l ELSE l + 1
      BY <2>2, <2>5
    <3>3. m = l
      BY <1>7, <2>5, <3>1, <3>2
    <3> QED
      BY <3>1, <3>2, <3>3
  <2>6. \A i, j \in 1..(n + 1) : r[i] = r[j] => i = j
    BY <2>3, <2>4, <2>5
  <2> QED
    BY <1>5, <2>6, Indices
<1>10. r = SubSeq(q, 1, k - 1) \o <<e>> \o SubSeq(q, k, Len(q))
  BY DEF r, c, a, b
<1> QED
  BY <1>5, <1>6, <1>8, <1>9, <1>10

-----------------------------------------------------------------------------
(* The states of the windows *)

Place == {"none", "new", "loop", "close", "finish", "done", "pipe", "wait", "app", "app close", "draw"}

\* What layer_task_map gives.
Mapped(map) == \A l \in DOMAIN map : map[l] \in Task \cup {NoTask}

\* The types of what layers and tasks know of each other.
Types ==
  /\ latest_id_ \in Nat /\ latest_id_ <= MaxLayer
  /\ inbox \in [Task -> Seq(Message)] /\ pc \in [Task -> Place]
  /\ layer_id_ \in [Task -> Nat] /\ held \in [Task -> Nat] /\ opened \in [Task -> SUBSET (Nat \ {0})]
  /\ reader \in [Terminal -> Child \cup {NoTask}]
  /\ Mapped(layer_task_map)

\* Somebody has pressed the close button of l.
Asked(q, l) == \E i \in 1..Len(q) : q[i] = WindowClose(l)

\* The mailboxes b ask for nothing that the mailboxes c do not.
NoneAsked(b, c) ==
  /\ b \in [Task -> Seq(Message)]
  /\ \A u \in Task : \A l : Asked(b[u], l) => Asked(c[u], l)

\* l is the window of the terminal t, or one that its application has opened.
Own(t, l) ==
  \/ l = layer_id_[t]
  \/ /\ l \in DOMAIN layer_task_map /\ layer_task_map[l] = t
     /\ \A u \in Task : layer_id_[u] # l

\* Ids that are known have been given out.
GivenOut ==
  /\ \A l \in layers_ \cup DOMAIN layer_task_map : l \in Nat \ {0} /\ l <= latest_id_
  /\ \A t \in Task : layer_id_[t] <= latest_id_ /\ \A l \in opened[t] : l <= latest_id_

Early == {"none", "new"}
Prompt == {"loop", "close", "pipe", "wait"}

\* A terminal has a window once it has started, and no other has that window.
Terminals ==
  \A t \in Task :
    /\ t \in Terminal => ((layer_id_[t] = 0) <=> (pc[t] \in Early))
    /\ t \in Child => layer_id_[t] = 0 /\ pc[t] \notin Prompt
    /\ layer_id_[t] # 0 =>
         /\ \A u \in Task \ {t} : layer_id_[u] # layer_id_[t]
         /\ layer_id_[t] \in DOMAIN layer_task_map =>
              layer_task_map[layer_id_[t]] \in {t, NoTask} \cup Child

\* Who knows a layer that is there owns it.
Owned ==
  \A t \in Task :
    /\ held[t] # 0 => held[t] \in layers_ /\ Own(t, held[t])
    /\ \A l \in opened[t] \cap layers_ : Own(t, l)

AskedOwned ==
  \A t \in Task : \A l \in Layer :
    Asked(inbox[t], l) => l <= latest_id_ /\ (t \in Terminal /\ l \in layers_ => Own(t, l))

IInv == Types /\ GivenOut /\ Terminals /\ Owned /\ AskedOwned

-----------------------------------------------------------------------------
(* Lemmas *)

LEMMA Constants ==
  /\ NBox \in Nat /\ mouse_layer_ \in Nat /\ MaxLayer \in Nat
  /\ mouse_layer_ <= MaxLayer
  /\ \A t \in Task : t # NoTask /\ ((t \in Terminal) <=> (t \notin Child))
  /\ \A l \in Layer : l \in Nat /\ l # 0
  BY WindowsAssumption DEF mouse_layer_, Task, Layer

LEMMA Messages ==
  /\ Key \in Message /\ \A a \in 0..1 : WindowActive(a) \in Message
  /\ \A l \in Layer : WindowClose(l) \in Message
  /\ \A l : Key # WindowClose(l) /\ \A a : WindowActive(a) # WindowClose(l)
  /\ \A l, k : WindowClose(l) = WindowClose(k) => l = k
  BY DEF Key, WindowActive, WindowClose, Message

\* A layer has one owner.
LEMMA OneOwner ==
  ASSUME Terminals, NEW t \in Task, NEW u \in Task, NEW l, l # 0, Own(t, l), Own(u, l)
  PROVE  t = u
  BY DEF Terminals, Own

LEMMA PostOne ==
  ASSUME NEW box \in [Task -> Seq(Message)], NEW t, t # NoTask => t \in Task, NEW m \in Message
  PROVE  /\ Post(box, t, m) \in [Task -> Seq(Message)]
         /\ \A u \in Task : \A l : Asked(Post(box, t, m)[u], l) =>
              Asked(box[u], l) \/ (t = u /\ m = WindowClose(l))
<1>1. CASE ~(t # NoTask /\ pc[t] # "done")
  BY <1>1 DEF Post
<1>2. CASE t # NoTask /\ pc[t] # "done"
  <2>1. t \in Task /\ Post(box, t, m) = [box EXCEPT ![t] = Append(@, m)]
    BY <1>2 DEF Post
  <2>2. /\ Append(box[t], m) \in Seq(Message) /\ Len(Append(box[t], m)) = Len(box[t]) + 1
        /\ Append(box[t], m)[Len(box[t]) + 1] = m
        /\ \A i \in 1..Len(box[t]) : Append(box[t], m)[i] = box[t][i]
        /\ Len(box[t]) \in Nat
    BY <2>1, AppendProperties, LenProperties
  <2>3. /\ Post(box, t, m) \in [Task -> Seq(Message)]
        /\ Post(box, t, m)[t] = Append(box[t], m)
        /\ \A u \in Task \ {t} : Post(box, t, m)[u] = box[u]
    BY <2>1, <2>2
  <2>4. ASSUME NEW l, Asked(Append(box[t], m), l)
        PROVE  Asked(box[t], l) \/ m = WindowClose(l)
    <3>1. PICK i \in 1..(Len(box[t]) + 1) : Append(box[t], m)[i] = WindowClose(l)
      BY <2>2, <2>4 DEF Asked
    <3>2. i \in 1..Len(box[t]) \/ i = Len(box[t]) + 1
      BY <2>2
    <3> QED
      BY <2>2, <3>1, <3>2 DEF Asked
  <2> QED
    BY <2>3, <2>4
<1> QED
  BY <1>1, <1>2

LEMMA TellOne ==
  ASSUME NEW box \in [Task -> Seq(Message)], NEW map, NEW layer, NEW a \in 0..1, Mapped(map)
  PROVE  NoneAsked(SendWindowActiveMessage(box, map, layer, a), box)
<1>1. PICK t : t = TaskOf(map, layer)
  OBVIOUS
<1>2. t # NoTask => t \in Task
  BY <1>1 DEF TaskOf, Mapped
<1>3. PICK m : m = WindowActive(a)
  OBVIOUS
<1>4. m \in Message /\ \A l : m # WindowClose(l)
  BY <1>3, Messages
<1>5. PICK b : b = Post(box, t, m)
  OBVIOUS
<1>6. /\ b \in [Task -> Seq(Message)]
      /\ \A u \in Task : \A l : Asked(b[u], l) => Asked(box[u], l) \/ (t = u /\ m = WindowClose(l))
  BY <1>2, <1>4, <1>5, PostOne
<1>7. NoneAsked(b, box) /\ NoneAsked(box, box)
  BY <1>4, <1>6 DEF NoneAsked
<1>8. SendWindowActiveMessage(box, map, layer, a) = IF layer = 0 THEN box ELSE b
  BY <1>1, <1>3, <1>5 DEF SendWindowActiveMessage
<1> QED
  BY <1>7, <1>8

\* To activate a window closes none.
LEMMA ActivateTells ==
  ASSUME NEW box \in [Task -> Seq(Message)], NEW map, NEW layer, NEW s, Mapped(map)
  PROVE  NoneAsked(Activate(s, layer, map, box).inbox, box)
<1>1. PICK told : told = SendWindowActiveMessage(box, map, active_layer_, 0)
  OBVIOUS
<1>2. NoneAsked(told, box) /\ told \in [Task -> Seq(Message)]
  <2>1. 0 \in 0..1
    OBVIOUS
  <2>2. NoneAsked(told, box)
    BY <1>1, <2>1, TellOne
  <2> QED
    BY <2>2 DEF NoneAsked
<1>3. PICK new : new = SendWindowActiveMessage(told, map, layer, 1)
  OBVIOUS
<1>4. NoneAsked(new, told)
  <2>1. 1 \in 0..1
    OBVIOUS
  <2> QED
    BY <1>2, <1>3, <2>1, TellOne
<1>5. NoneAsked(new, box) /\ NoneAsked(box, box)
  BY <1>2, <1>4 DEF NoneAsked
<1>6. Activate(s, layer, map, box).inbox = IF layer = active_layer_ THEN box ELSE new
  BY <1>1, <1>3 DEF Activate
<1> QED
  BY <1>5, <1>6

LEMMA Taken ==
  ASSUME Types, NEW t \in Task, NEW m, Receive(t, m)
  PROVE  /\ NoneAsked(inbox', inbox) /\ m \in Message
         /\ \A l : m = WindowClose(l) => Asked(inbox[t], l)
<1>1. inbox[t] \in Seq(Message) /\ inbox[t] # <<>> /\ m = Head(inbox[t])
      /\ inbox' = [inbox EXCEPT ![t] = Tail(@)]
  BY DEF Types, Receive
<1>2. /\ Tail(inbox[t]) \in Seq(Message) /\ Len(Tail(inbox[t])) = Len(inbox[t]) - 1
      /\ \A i \in 1..(Len(inbox[t]) - 1) : Tail(inbox[t])[i] = inbox[t][i + 1]
      /\ m = inbox[t][1] /\ m \in Message
  BY <1>1, HeadTailProperties
<1>3. Len(inbox[t]) \in Nat /\ Len(inbox[t]) > 0
  BY <1>1, LenProperties, EmptySeq
<1>4. ASSUME NEW l, Asked(Tail(inbox[t]), l) PROVE Asked(inbox[t], l)
  <2>1. PICK i \in 1..(Len(inbox[t]) - 1) : inbox[t][i + 1] = WindowClose(l)
    BY <1>2, <1>4 DEF Asked
  <2>2. i + 1 \in 1..Len(inbox[t])
    BY <1>3
  <2> QED
    BY <2>1, <2>2 DEF Asked
<1>5. /\ inbox' \in [Task -> Seq(Message)] /\ inbox'[t] = Tail(inbox[t])
      /\ \A u \in Task \ {t} : inbox'[u] = inbox[u]
  BY <1>1, <1>2 DEF Types
<1>6. NoneAsked(inbox', inbox)
  BY <1>4, <1>5 DEF NoneAsked
<1>7. \A l : m = WindowClose(l) => Asked(inbox[t], l)
  <2>1. 1 \in 1..Len(inbox[t])
    BY <1>3
  <2> QED
    BY <1>2, <2>1 DEF Asked
<1> QED
  BY <1>2, <1>6, <1>7

LEMMA InitHolds == Init => IInv
<1> SUFFICES ASSUME Init PROVE IInv
  OBVIOUS
<1>1. <<>> \in Seq(Message) /\ Len(<<>>) = 0 /\ \A l : ~Asked(<<>>, l)
  <2>1. <<>> \in Seq(Message) /\ Len(<<>>) = 0
    BY EmptySeq
  <2> QED
    BY <2>1 DEF Asked
<1>2. mouse_layer_ \in Nat /\ mouse_layer_ <= MaxLayer
  BY Constants
<1>3. DOMAIN layer_task_map = {}
  BY DEF Init
<1>4. Types
  BY <1>1, <1>2, <1>3 DEF Init, Types, Place, Mapped
<1>5. GivenOut
  BY <1>2, <1>3 DEF Init, GivenOut, Fixed
<1>6. Terminals /\ Owned /\ AskedOwned
  BY <1>1 DEF Init, Terminals, Owned, AskedOwned, Early, Prompt
<1> QED
  BY <1>4, <1>5, <1>6 DEF IInv
-----------------------------------------------------------------------------
(* Steps that make and remove no layer *)

\* Where the tasks are after a step.
Placed ==
  /\ pc' \in [Task -> Place]
  /\ \A u \in Terminal : (pc'[u] \in Early) <=> (pc[u] \in Early)
  /\ \A u \in Child : pc'[u] \notin Prompt

\* The layers that the tasks know after a step.
Known ==
  /\ held' \in [Task -> Nat] /\ opened' \in [Task -> SUBSET (Nat \ {0})]
  /\ \A u \in Task : opened'[u] \subseteq opened[u]
  /\ \A u \in Task : held'[u] # 0 => held'[u] \in layers_ /\ Own(u, held'[u])

\* Nobody has a new message to close a window.
LEMMA StillAsked ==
  ASSUME IInv, UNCHANGED <<layers_, latest_id_, layer_task_map, layer_id_>>,
         NoneAsked(inbox', inbox)
  PROVE  AskedOwned'
<1>1. \A t \in Task : \A l : Own(t, l)' <=> Own(t, l)
  BY DEF Own
<1>2. \A u \in Task : \A l : Asked(inbox'[u], l) => Asked(inbox[u], l)
  BY DEF NoneAsked
<1> QED
  BY <1>1, <1>2 DEF IInv, AskedOwned

LEMMA Still ==
  ASSUME IInv, UNCHANGED <<layers_, latest_id_, layer_task_map, layer_id_>>, Placed, Known,
         reader' \in [Terminal -> Child \cup {NoTask}], inbox' \in [Task -> Seq(Message)], AskedOwned'
  PROVE  IInv'
<1>1. \A t \in Task : \A l : Own(t, l)' <=> Own(t, l)
  BY DEF Own
<1>2. Types'
  BY DEF IInv, Types, Placed, Known
<1>3. GivenOut'
  BY DEF IInv, GivenOut, Known
<1>4. Terminals'
  BY DEF IInv, Terminals, Placed
<1>5. Owned'
  BY <1>1 DEF IInv, Owned, Known
<1> QED
  BY <1>2, <1>3, <1>4, <1>5 DEF IInv

\* What is left alone.
LEMMA Kept ==
  ASSUME IInv
  PROVE  /\ UNCHANGED pc => Placed
         /\ UNCHANGED <<held, opened>> => Known
         /\ UNCHANGED reader => reader' \in [Terminal -> Child \cup {NoTask}]
         /\ inbox \in [Task -> Seq(Message)]
         /\ UNCHANGED inbox => NoneAsked(inbox', inbox)
<1>1. UNCHANGED pc => Placed
  BY Constants DEF IInv, Types, Terminals, Placed, Task
<1>2. UNCHANGED <<held, opened>> => Known
  BY DEF IInv, Types, Owned, Known
<1> QED
  BY <1>1, <1>2 DEF IInv, Types, NoneAsked

LEMMA Goes ==
  ASSUME IInv, NEW t \in Task, NEW p \in Place, Goto(t, p),
         t \in Terminal => ((p \in Early) <=> (pc[t] \in Early)),
         t \in Child => p \notin Prompt
  PROVE  Placed
<1>1. /\ pc' \in [Task -> Place] /\ pc'[t] = p
      /\ \A u \in Task \ {t} : pc'[u] = pc[u]
  BY DEF IInv, Types, Goto
<1>2. \A u \in Terminal : (pc'[u] \in Early) <=> (pc[u] \in Early)
  BY <1>1 DEF Task
<1>3. \A u \in Child : pc'[u] \notin Prompt
  BY <1>1 DEF Task, IInv, Terminals
<1> QED
  BY <1>1, <1>2, <1>3 DEF Placed
-----------------------------------------------------------------------------
(* The main task *)

LEMMA KeepsPress ==
  ASSUME IInv, NEW layer \in Range(layer_stack_), NEW region, Press(layer, region)
  PROVE  IInv'
<1>1. PICK target : target = IF layer \in Fixed \ Box THEN 0 ELSE layer
  OBVIOUS
<1>2. PICK box : box = Activate(layer_stack_, target, layer_task_map, inbox).inbox
  OBVIOUS
<1>3. PICK t : t = TaskOf(layer_task_map, layer)
  OBVIOUS
<1>4. /\ inbox' = (IF target > 0 /\ region = "kCloseButton" /\ drag_layer_id_ = 0
                   THEN Post(box, t, WindowClose(layer)) ELSE box)
      /\ UNCHANGED <<layers_, latest_id_, layer_task_map, pc, layer_id_, held, opened, reader>>
  BY <1>1, <1>2, <1>3 DEF Press
<1>5. /\ inbox \in [Task -> Seq(Message)] /\ Mapped(layer_task_map)
      /\ latest_id_ \in Nat /\ latest_id_ <= MaxLayer /\ MaxLayer \in Nat
  BY Constants DEF IInv, Types
<1>6. NoneAsked(box, inbox)
  BY <1>2, <1>5, ActivateTells
<1>7. box \in [Task -> Seq(Message)] /\ NoneAsked(box, box)
  BY <1>6 DEF NoneAsked
<1>8. ASSUME t # NoTask
      PROVE  /\ t \in Task /\ layer \in Layer /\ layer <= latest_id_
             /\ t \in Terminal => Own(t, layer)
  <2>1. layer \in DOMAIN layer_task_map /\ t = layer_task_map[layer] /\ t \in Task
    BY <1>3, <1>5, <1>8 DEF TaskOf, Mapped
  <2>2. layer \in Nat \ {0} /\ layer <= latest_id_
    BY <2>1 DEF IInv, GivenOut
  <2>3. layer \in Layer
    BY <1>5, <2>2 DEF Layer
  <2>4. ASSUME t \in Terminal, NEW u \in Task, layer_id_[u] = layer
        PROVE  u = t
    BY <2>1, <2>2, <2>4, Constants DEF IInv, Terminals
  <2>5. t \in Terminal => Own(t, layer)
    BY <2>1, <2>4 DEF Own
  <2> QED
    BY <2>1, <2>2, <2>3, <2>5
<1>9. /\ inbox' \in [Task -> Seq(Message)]
      /\ \A u \in Task : \A l : Asked(inbox'[u], l) => Asked(inbox[u], l) \/ (t = u /\ l = layer)
  <2>1. CASE inbox' = box
    BY <1>6, <2>1 DEF NoneAsked
  <2>2. CASE inbox' = Post(box, t, WindowClose(layer)) /\ t = NoTask
    <3>1. inbox' = box
      BY <2>2 DEF Post
    <3> QED
      BY <2>1, <3>1
  <2>3. CASE inbox' = Post(box, t, WindowClose(layer)) /\ t # NoTask
    <3>1. t \in Task /\ WindowClose(layer) \in Message
      BY <1>8, <2>3, Messages
    <3>2. /\ inbox' \in [Task -> Seq(Message)]
          /\ \A u \in Task : \A l : Asked(inbox'[u], l) =>
               Asked(box[u], l) \/ (t = u /\ WindowClose(layer) = WindowClose(l))
      BY <1>7, <2>3, <3>1, PostOne
    <3>3. \A l : WindowClose(layer) = WindowClose(l) => l = layer
      BY Messages
    <3> QED
      BY <1>6, <3>2, <3>3 DEF NoneAsked
  <2> QED
    BY <1>4, <2>1, <2>2, <2>3
<1>10. AskedOwned'
  <2>1. \A u \in Task : \A l : Own(u, l)' <=> Own(u, l)
    BY <1>4 DEF Own
  <2>2. \A u \in Task : u # NoTask
    BY Constants
  <2> QED
    BY <1>4, <1>8, <1>9, <2>1, <2>2 DEF IInv, AskedOwned
<1> QED
  BY <1>4, <1>9, <1>10, Still, Kept

\* The steps of the main task that are not presses.
LEMMA KeepsMain ==
  ASSUME IInv, Drag \/ Release \/ PushKey \/ \E t \in Terminal : NewTerminal(t)
  PROVE  IInv'
<1>1. CASE Drag \/ Release
  <2>1. UNCHANGED <<layers_, latest_id_, layer_task_map, layer_id_, pc, held, opened, reader, inbox>>
    BY <1>1 DEF Drag, Release, screen
  <2> QED
    BY <2>1, Kept, Still, StillAsked
<1>2. CASE PushKey
  <2>1. PICK t : t = TaskOf(layer_task_map, active_layer_)
    OBVIOUS
  <2>2. /\ UNCHANGED <<layers_, latest_id_, layer_task_map, layer_id_, pc, held, opened, reader>>
        /\ inbox' = Post(inbox, t, Key)
    BY <1>2, <2>1 DEF PushKey, screen
  <2>3. t # NoTask => t \in Task
    BY <2>1 DEF TaskOf, IInv, Types, Mapped
  <2>4. Key \in Message /\ \A l : Key # WindowClose(l)
    BY Messages
  <2>5. inbox \in [Task -> Seq(Message)]
    BY Kept
  <2>6. /\ inbox' \in [Task -> Seq(Message)]
        /\ \A u \in Task : \A l : Asked(inbox'[u], l) => Asked(inbox[u], l) \/ (t = u /\ Key = WindowClose(l))
    BY <2>2, <2>3, <2>4, <2>5, PostOne
  <2>7. NoneAsked(inbox', inbox)
    BY <2>4, <2>6 DEF NoneAsked
  <2> QED
    BY <2>2, <2>6, <2>7, Kept, Still, StillAsked
<1>3. CASE \E t \in Terminal : NewTerminal(t)
  <2>1. PICK t \in Terminal : NewTerminal(t)
    BY <1>3
  <2>2. /\ UNCHANGED <<layers_, latest_id_, layer_task_map, layer_id_, held, opened, reader, inbox>>
        /\ Goto(t, "new") /\ pc[t] = "none"
    BY <2>1 DEF NewTerminal, screen, Goto
  <2>3. Placed
    BY <2>2, Goes, Constants DEF Task, Early, Place
  <2> QED
    BY <2>2, <2>3, Kept, Still, StillAsked
<1> QED
  BY <1>1, <1>2, <1>3
-----------------------------------------------------------------------------
(* The tasks: steps that make and remove no layer *)

\* A task that goes on and touches no layer.
LEMMA Walk ==
  ASSUME IInv, NEW t \in Task, NEW p \in Place, Goto(t, p), Known,
         t \in Terminal => ((p \in Early) <=> (pc[t] \in Early)),
         t \in Child => p \notin Prompt,
         UNCHANGED <<layers_, latest_id_, layer_task_map, layer_id_, reader>>,
         inbox' \in [Task -> Seq(Message)], NoneAsked(inbox', inbox)
  PROVE  IInv'
BY Goes, Kept, StillAsked, Still

LEMMA KeepsTakeKey ==
  ASSUME IInv, NEW t \in Task, TakeKey(t)
  PROVE  IInv'
<1>1. /\ UNCHANGED <<layers_, latest_id_, layer_task_map, layer_id_, held, opened>>
      /\ pc[t] = "loop" /\ Receive(t, Key)
  BY DEF TakeKey, screen
<1>2. NoneAsked(inbox', inbox) /\ inbox' \in [Task -> Seq(Message)]
  BY <1>1, Taken DEF IInv, NoneAsked
<1>3. t \in Terminal
  BY <1>1 DEF IInv, Terminals, Task, Prompt
<1>4. CASE UNCHANGED <<pc, reader>>
  BY <1>1, <1>2, <1>4, Kept, StillAsked, Still
<1>5. CASE Goto(t, "app") /\ UNCHANGED reader
  BY <1>1, <1>2, <1>5, Kept, Walk, Constants DEF Place, Early, Prompt
<1>6. CASE \E c \in Child :
             /\ pc[c] = "none"
             /\ pc' = [pc EXCEPT ![t] = "pipe", ![c] = "new"]
             /\ reader' = [reader EXCEPT ![t] = c]
  <2>1. PICK c \in Child :
          /\ pc[c] = "none"
          /\ pc' = [pc EXCEPT ![t] = "pipe", ![c] = "new"]
          /\ reader' = [reader EXCEPT ![t] = c]
    BY <1>6
  <2>2. c \in Task /\ c # t /\ c \notin Terminal
    BY <1>3, Constants DEF Task
  <2>3. /\ pc' \in [Task -> Place] /\ pc'[t] = "pipe" /\ pc'[c] = "new"
        /\ \A u \in Task \ {t, c} : pc'[u] = pc[u]
    BY <2>1, <2>2 DEF IInv, Types, Place
  <2>4. \A u \in Terminal : (pc'[u] \in Early) <=> (pc[u] \in Early)
    BY <1>1, <2>2, <2>3 DEF Task, Early
  <2>5. \A u \in Child : pc'[u] \notin Prompt
    BY <1>3, <2>3, Constants DEF Task, IInv, Terminals, Prompt
  <2>6. Placed
    BY <2>3, <2>4, <2>5 DEF Placed
  <2>7. reader' \in [Terminal -> Child \cup {NoTask}]
    BY <2>1 DEF IInv, Types
  <2> QED
    BY <1>1, <1>2, <2>6, <2>7, Kept, StillAsked, Still
<1> QED
  BY <1>4, <1>5, <1>6 DEF TakeKey

LEMMA KeepsTake ==
  ASSUME IInv, NEW t \in Task, TakeActive(t) \/ ReadEvent(t)
  PROVE  IInv'
<1>1. /\ UNCHANGED <<layers_, latest_id_, layer_task_map, layer_id_, pc, held, opened, reader>>
      /\ \E m : Receive(t, m)
  BY DEF TakeActive, ReadEvent, screen
<1>2. NoneAsked(inbox', inbox) /\ inbox' \in [Task -> Seq(Message)]
  BY <1>1, Taken DEF IInv, NoneAsked
<1> QED
  BY <1>1, <1>2, Kept, StillAsked, Still

\* Who gets a pointer to a layer that is there and its own.
LEMMA Holds ==
  ASSUME IInv, NEW t \in Task, NEW l \in Nat, held' = [held EXCEPT ![t] = l],
         l # 0 => l \in layers_ /\ Own(t, l),
         opened' \in [Task -> SUBSET (Nat \ {0})], \A u \in Task : opened'[u] \subseteq opened[u]
  PROVE  Known
<1>1. held' \in [Task -> Nat] /\ held'[t] = l /\ \A u \in Task \ {t} : held'[u] = held[u]
  BY DEF IInv, Types
<1>2. \A u \in Task : held'[u] # 0 => held'[u] \in layers_ /\ Own(u, held'[u])
  BY <1>1 DEF IInv, Owned
<1> QED
  BY <1>1, <1>2 DEF Known

LEMMA KeepsTakeClose ==
  ASSUME IInv, NEW t \in Task, TakeClose(t)
  PROVE  IInv'
<1>1. PICK l \in Layer :
        /\ pc[t] = "loop" /\ Receive(t, WindowClose(l))
        /\ IF l \in layers_
           THEN Goto(t, "close") /\ held' = [held EXCEPT ![t] = l]
           ELSE Goto(t, "finish") /\ UNCHANGED held
        /\ UNCHANGED <<layers_, latest_id_, layer_task_map, layer_id_, opened, reader>>
  BY DEF TakeClose, screen
<1>2. NoneAsked(inbox', inbox) /\ inbox' \in [Task -> Seq(Message)] /\ Asked(inbox[t], l)
  BY <1>1, Taken DEF IInv, NoneAsked
<1>3. t \in Terminal /\ t \notin Child
  BY <1>1, Constants DEF IInv, Terminals, Task, Prompt
<1>4. l \in layers_ => Own(t, l)
  BY <1>2, <1>3 DEF IInv, AskedOwned
<1>5. /\ opened' \in [Task -> SUBSET (Nat \ {0})] /\ \A u \in Task : opened'[u] \subseteq opened[u]
      /\ l \in Nat
  BY <1>1, Constants DEF IInv, Types
<1>6. CASE l \in layers_
  <2>1. Known
    BY <1>1, <1>4, <1>5, <1>6, Holds
  <2>2. Goto(t, "close")
    BY <1>1, <1>6
  <2>3. "close" \in Place /\ "close" \notin Early /\ pc[t] \notin Early
    BY <1>1 DEF Place, Early
  <2> QED
    BY <1>1, <1>2, <1>3, <2>1, <2>2, <2>3, Walk
<1>7. CASE l \notin layers_
  <2>1. Known
    BY <1>1, <1>7, Kept
  <2>2. Goto(t, "finish")
    BY <1>1, <1>7
  <2>3. "finish" \in Place /\ "finish" \notin Early /\ pc[t] \notin Early
    BY <1>1 DEF Place, Early
  <2> QED
    BY <1>1, <1>2, <1>3, <2>1, <2>2, <2>3, Walk
<1> QED
  BY <1>6, <1>7

LEMMA KeepsFinish ==
  ASSUME IInv, NEW t \in Task, Finish(t)
  PROVE  IInv'
<1>1. /\ pc[t] = "finish" /\ Goto(t, "done") /\ inbox' = [inbox EXCEPT ![t] = <<>>]
      /\ UNCHANGED <<layers_, latest_id_, layer_task_map, layer_id_, held, opened, reader>>
  BY DEF Finish, screen
<1>2. <<>> \in Seq(Message) /\ \A l : ~Asked(<<>>, l)
  <2>1. <<>> \in Seq(Message) /\ Len(<<>>) = 0
    BY EmptySeq
  <2> QED
    BY <2>1 DEF Asked
<1>3. /\ inbox' \in [Task -> Seq(Message)] /\ inbox'[t] = <<>>
      /\ \A u \in Task \ {t} : inbox'[u] = inbox[u]
  BY <1>1, <1>2, Kept
<1>4. NoneAsked(inbox', inbox)
  BY <1>2, <1>3 DEF NoneAsked
<1>5. "done" \in Place /\ "done" \notin Early /\ "done" \notin Prompt /\ pc[t] \notin Early
  BY <1>1 DEF Place, Early, Prompt
<1> QED
  BY <1>1, <1>3, <1>4, <1>5, Kept, Walk
-----------------------------------------------------------------------------
(* Applications *)

LEMMA KeepsDoWinFunc ==
  ASSUME IInv, NEW t \in Task, DoWinFunc(t) \/ CloseWindow(t)
  PROVE  IInv'
<1>1. PICK l \in opened[t] \cap layers_, p \in {"draw", "app close"} :
        /\ pc[t] = "app" /\ Goto(t, p) /\ held' = [held EXCEPT ![t] = l]
        /\ UNCHANGED opened \/ opened' = [opened EXCEPT ![t] = @ \ {l}]
        /\ UNCHANGED <<layers_, latest_id_, layer_task_map, layer_id_, inbox, reader>>
  BY DEF DoWinFunc, CloseWindow, screen
<1>2. opened' \in [Task -> SUBSET (Nat \ {0})] /\ \A u \in Task : opened'[u] \subseteq opened[u]
  <2>1. opened \in [Task -> SUBSET (Nat \ {0})]
    BY DEF IInv, Types
  <2> QED
    BY <1>1, <2>1
<1>3. l \in Nat /\ l \in layers_ /\ Own(t, l)
  BY DEF IInv, Types, Owned
<1>4. Known
  BY <1>1, <1>2, <1>3, Holds
<1>5. p \in Place /\ p \notin Early /\ p \notin Prompt /\ pc[t] \notin Early
  BY <1>1 DEF Place, Early, Prompt
<1> QED
  BY <1>1, <1>4, <1>5, Kept, Walk

LEMMA KeepsDrawn ==
  ASSUME IInv, NEW t \in Task, Drawn(t)
  PROVE  IInv'
<1>1. /\ pc[t] = "draw" /\ Goto(t, "app") /\ held' = [held EXCEPT ![t] = 0]
      /\ UNCHANGED <<layers_, latest_id_, layer_task_map, layer_id_, inbox, opened, reader>>
  BY DEF Drawn, screen
<1>2. opened' \in [Task -> SUBSET (Nat \ {0})] /\ \A u \in Task : opened'[u] \subseteq opened[u]
  BY <1>1 DEF IInv, Types
<1>3. Known
  BY <1>1, <1>2, Holds
<1>4. "app" \in Place /\ "app" \notin Early /\ "app" \notin Prompt /\ pc[t] \notin Early
  BY <1>1 DEF Place, Early, Prompt
<1> QED
  BY <1>1, <1>3, <1>4, Kept, Walk

LEMMA KeepsEndApp ==
  ASSUME IInv, NEW t \in Task, EndApp(t)
  PROVE  IInv'
<1>1. PICK p \in {"finish", "wait", "loop"} :
        /\ pc[t] = "app" /\ Goto(t, p) /\ (t \in Child => p = "finish")
        /\ opened' = [opened EXCEPT ![t] = {}]
        /\ UNCHANGED <<layers_, latest_id_, layer_task_map, layer_id_, inbox, held, reader>>
  BY DEF EndApp, screen
<1>2. opened' \in [Task -> SUBSET (Nat \ {0})] /\ \A u \in Task : opened'[u] \subseteq opened[u]
  <2>1. opened \in [Task -> SUBSET (Nat \ {0})] /\ {} \in SUBSET (Nat \ {0})
    BY DEF IInv, Types
  <2> QED
    BY <1>1, <2>1
<1>3. Known
  BY <1>1, <1>2 DEF Known, IInv, Types, Owned
<1>4. p \in Place /\ p \notin Early /\ pc[t] \notin Early /\ (t \in Child => p \notin Prompt)
  BY <1>1 DEF Place, Early, Prompt
<1> QED
  BY <1>1, <1>3, <1>4, Kept, Walk

-----------------------------------------------------------------------------
(* Layers come and go *)

\* A new layer, which is t's.
Made(t) ==
  /\ latest_id_' = latest_id_ + 1 /\ latest_id_ + 1 <= MaxLayer
  /\ layers_' = layers_ \cup {latest_id_ + 1}
  /\ layer_task_map' = With(layer_task_map, latest_id_ + 1, t)
  /\ NoneAsked(inbox', inbox)

LEMMA Makes ==
  ASSUME IInv, NEW t \in Task, Open(t) \/ OpenUntold(t)
  PROVE  Made(t)
<1>1. PICK map : map = With(layer_task_map, latest_id_ + 1, t)
  OBVIOUS
<1>2. Mapped(layer_task_map) /\ inbox \in [Task -> Seq(Message)]
  BY DEF IInv, Types
<1>3. Mapped(map)
  BY <1>1, <1>2 DEF With, Mapped
<1>4. \/ inbox' = Activate(layer_stack_, latest_id_ + 1, map, inbox).inbox
      \/ inbox' = Activate(layer_stack_, latest_id_ + 1, layer_task_map, inbox).inbox
  BY <1>1 DEF Open, OpenUntold
<1>5. NoneAsked(inbox', inbox)
  BY <1>2, <1>3, <1>4, ActivateTells
<1> QED
  BY <1>5 DEF Made, Open, OpenUntold

\* Nobody owned it, and who owned another still does.
LEMMA New ==
  ASSUME IInv, NEW t \in Task, Made(t), layer_id_' \in [Task -> Nat],
         \A u \in Task :
           (layer_id_'[u] = layer_id_[u]) \/ (u = t /\ layer_id_[u] = 0 /\ layer_id_'[u] = latest_id_ + 1)
  PROVE  /\ latest_id_ + 1 \notin layers_ \cup DOMAIN layer_task_map
         /\ DOMAIN layer_task_map' = DOMAIN layer_task_map \cup {latest_id_ + 1}
         /\ layer_task_map'[latest_id_ + 1] = t
         /\ \A l \in DOMAIN layer_task_map : layer_task_map'[l] = layer_task_map[l]
         /\ \A u \in Task : layer_id_[u] # latest_id_ + 1
         /\ \A u \in Task : \A l \in Nat \ {0} : l <= latest_id_ /\ Own(u, l) => Own(u, l)'
         /\ AskedOwned'
<1>1. latest_id_ \in Nat /\ latest_id_ + 1 \in Nat /\ \A l \in Nat : l <= latest_id_ => l # latest_id_ + 1
  BY DEF IInv, Types
<1>2. /\ latest_id_ + 1 \notin layers_ \cup DOMAIN layer_task_map
      /\ \A u \in Task : layer_id_[u] # latest_id_ + 1
  BY <1>1 DEF IInv, GivenOut, Types
<1>3. /\ DOMAIN layer_task_map' = DOMAIN layer_task_map \cup {latest_id_ + 1}
      /\ layer_task_map'[latest_id_ + 1] = t
      /\ \A l \in DOMAIN layer_task_map : layer_task_map'[l] = layer_task_map[l]
  BY <1>2 DEF Made, With
<1>4. ASSUME NEW u \in Task, NEW l \in Nat \ {0}, l <= latest_id_, Own(u, l)
      PROVE  Own(u, l)'
  <2>1. l # latest_id_ + 1
    BY <1>1, <1>4
  <2>2. CASE l = layer_id_[u]
    <3>1. layer_id_'[u] = layer_id_[u]
      BY <2>2
    <3> QED
      BY <2>2, <3>1 DEF Own
  <2>3. CASE /\ l \in DOMAIN layer_task_map /\ layer_task_map[l] = u
             /\ \A v \in Task : layer_id_[v] # l
    <3>1. \A v \in Task : layer_id_'[v] # l
      BY <2>1, <2>3
    <3> QED
      BY <1>3, <2>3, <3>1 DEF Own
  <2> QED
    BY <1>4, <2>2, <2>3 DEF Own
<1>5. AskedOwned'
  <2> SUFFICES ASSUME NEW u \in Task, NEW l \in Layer, Asked(inbox'[u], l)
               PROVE  l <= latest_id_' /\ (u \in Terminal /\ l \in layers_' => Own(u, l)')
    BY DEF AskedOwned
  <2>1. l <= latest_id_ /\ (u \in Terminal /\ l \in layers_ => Own(u, l))
    BY DEF Made, NoneAsked, IInv, AskedOwned
  <2>2. l \in Nat \ {0}
    BY Constants
  <2>3. l # latest_id_ + 1 /\ l <= latest_id_ + 1
    BY <1>1, <2>1, <2>2
  <2> QED
    BY <1>4, <2>1, <2>2, <2>3 DEF Made
<1> QED
  BY <1>2, <1>3, <1>4, <1>5
LEMMA KeepsStart ==
  ASSUME IInv, NEW t \in Task, Start(t)
  PROVE  IInv'
<1>1. /\ pc[t] = "new" /\ UNCHANGED <<held, opened, reader>>
      /\ pc[t] \in Early
  BY DEF Start, Early
<1>2. CASE t \in Child
  <2>1. /\ Goto(t, "app") /\ t \notin Terminal
        /\ UNCHANGED <<layers_, latest_id_, layer_task_map, layer_id_, inbox>>
    BY <1>2, Constants DEF Start, screen
  <2>2. "app" \in Place /\ "app" \notin Prompt
    BY DEF Place, Prompt
  <2> QED
    BY <1>1, <2>1, <2>2, Kept, Walk
<1>3. CASE t \in Terminal
  <2> DEFINE id == latest_id_ + 1
  <2>1. /\ Open(t) /\ layer_id_' = [layer_id_ EXCEPT ![t] = id] /\ Goto(t, "loop")
        /\ t \notin Child
    BY <1>3, Constants DEF Start
  <2>2. Made(t)
    BY <2>1, Makes
  <2>3. id \in Nat \ {0} /\ latest_id_ \in Nat /\ layer_id_[t] = 0 /\ id <= MaxLayer
    BY <1>1, <1>3, <2>2 DEF IInv, Types, Terminals, Made
  <2>4. /\ layer_id_' \in [Task -> Nat] /\ layer_id_'[t] = id
        /\ \A u \in Task \ {t} : layer_id_'[u] = layer_id_[u]
    BY <2>1, <2>3 DEF IInv, Types
  <2>5. /\ id \notin layers_ \cup DOMAIN layer_task_map
        /\ DOMAIN layer_task_map' = DOMAIN layer_task_map \cup {id}
        /\ layer_task_map'[id] = t
        /\ \A l \in DOMAIN layer_task_map : layer_task_map'[l] = layer_task_map[l]
        /\ \A u \in Task : layer_id_[u] # id
        /\ \A u \in Task : \A l \in Nat \ {0} : l <= latest_id_ /\ Own(u, l) => Own(u, l)'
        /\ AskedOwned'
    <3>1. \A u \in Task :
            (layer_id_'[u] = layer_id_[u]) \/ (u = t /\ layer_id_[u] = 0 /\ layer_id_'[u] = latest_id_ + 1)
      BY <2>3, <2>4
    <3> QED
      BY <2>2, <2>4, <3>1, New
  <2>6. /\ pc' \in [Task -> Place] /\ pc'[t] = "loop"
        /\ \A u \in Task \ {t} : pc'[u] = pc[u]
    BY <2>1 DEF IInv, Types, Goto, Place
  <2>7. /\ latest_id_' = id /\ layers_' = layers_ \cup {id} /\ NoneAsked(inbox', inbox)
    BY <2>2 DEF Made
  <2> HIDE DEF id
  <2>8. Mapped(layer_task_map)'
    BY <2>5 DEF Mapped, IInv, Types
  <2>9. Types'
    BY <1>1, <2>3, <2>4, <2>6, <2>7, <2>8 DEF IInv, Types, NoneAsked
  <2>10. id <= id /\ \A l \in Nat : l <= latest_id_ => l <= id
    BY <2>3 DEF id
  <2>11. GivenOut'
    <3>1. \A l \in layers_' \cup DOMAIN layer_task_map' : l \in Nat \ {0} /\ l <= id
      BY <2>3, <2>5, <2>7, <2>10 DEF IInv, GivenOut
    <3>2. \A u \in Task : layer_id_'[u] <= id /\ \A l \in opened'[u] : l <= id
      BY <1>1, <2>3, <2>4, <2>10 DEF IInv, Types, GivenOut
    <3> QED
      BY <2>7, <3>1, <3>2 DEF GivenOut
  <2>12. Terminals'
    <3>1. ASSUME NEW u \in Task
          PROVE  /\ u \in Terminal => ((layer_id_'[u] = 0) <=> (pc'[u] \in Early))
                 /\ u \in Child => layer_id_'[u] = 0 /\ pc'[u] \notin Prompt
      BY <2>1, <2>3, <2>4, <2>6 DEF IInv, Terminals, Early
    <3>2. ASSUME NEW u \in Task, layer_id_'[u] # 0
          PROVE  /\ \A v \in Task \ {u} : layer_id_'[v] # layer_id_'[u]
                 /\ layer_id_'[u] \in DOMAIN layer_task_map' =>
                      layer_task_map'[layer_id_'[u]] \in {u, NoTask} \cup Child
      <4>1. CASE u = t
        BY <2>4, <2>5, <4>1
      <4>2. CASE u # t
        BY <2>4, <2>5, <3>2, <4>2 DEF IInv, Terminals
      <4> QED
        BY <4>1, <4>2
    <3> QED
      BY <3>1, <3>2 DEF Terminals
  <2>13. Owned'
    <3>1. ASSUME NEW u \in Task, held[u] # 0
          PROVE  held'[u] \in layers_' /\ Own(u, held[u])'
      <4>1. PICK l : l = held[u]
        OBVIOUS
      <4>2. l \in layers_ /\ Own(u, l)
        BY <3>1, <4>1 DEF IInv, Owned
      <4>3. l \in Nat \ {0} /\ l <= latest_id_
        BY <4>2 DEF IInv, GivenOut
      <4>4. Own(u, l)' /\ held'[u] = l
        BY <1>1, <2>5, <4>1, <4>2, <4>3
      <4> QED
        BY <2>7, <4>2, <4>4 DEF Own
    <3>2. ASSUME NEW u \in Task, NEW l \in opened[u] \cap layers_'
          PROVE  Own(u, l)'
      <4>1. l <= latest_id_ /\ l \in Nat \ {0}
        BY DEF IInv, GivenOut, Types
      <4>2. l # id
        BY <2>3, <4>1 DEF id
      <4> QED
        BY <2>5, <2>7, <4>1, <4>2 DEF IInv, Owned
    <3> QED
      BY <1>1, <3>1, <3>2 DEF Owned
  <2> QED
    BY <2>5, <2>9, <2>11, <2>12, <2>13 DEF IInv
<1> QED
  BY <1>2, <1>3 DEF Task
LEMMA KeepsOpenWindow ==
  ASSUME IInv, NEW t \in Task, OpenWindow(t)
  PROVE  IInv'
<1> DEFINE id == latest_id_ + 1
<1>1. /\ OpenUntold(t) /\ opened' = [opened EXCEPT ![t] = @ \cup {id}]
      /\ UNCHANGED <<pc, layer_id_, held, reader>>
  BY DEF OpenWindow
<1>2. Made(t)
  BY <1>1, Makes
<1>3. id \in Nat \ {0} /\ latest_id_ \in Nat /\ id <= MaxLayer /\ layer_id_' \in [Task -> Nat]
  BY <1>1, <1>2 DEF IInv, Types, Made
<1>4. /\ opened' \in [Task -> SUBSET (Nat \ {0})] /\ opened'[t] = opened[t] \cup {id}
      /\ \A u \in Task \ {t} : opened'[u] = opened[u]
  BY <1>1, <1>3 DEF IInv, Types
<1>5. /\ id \notin layers_ \cup DOMAIN layer_task_map
      /\ DOMAIN layer_task_map' = DOMAIN layer_task_map \cup {id}
      /\ layer_task_map'[id] = t
      /\ \A l \in DOMAIN layer_task_map : layer_task_map'[l] = layer_task_map[l]
      /\ \A u \in Task : layer_id_[u] # id
      /\ \A u \in Task : \A l \in Nat \ {0} : l <= latest_id_ /\ Own(u, l) => Own(u, l)'
      /\ AskedOwned'
  BY <1>1, <1>2, <1>3, New
<1>6. /\ latest_id_' = id /\ layers_' = layers_ \cup {id} /\ NoneAsked(inbox', inbox)
  BY <1>2 DEF Made
<1>7. id <= id /\ \A l \in Nat : l <= latest_id_ => l <= id /\ l # id
  BY <1>3 DEF id
<1> HIDE DEF id
<1>8. Mapped(layer_task_map)'
  BY <1>5 DEF Mapped, IInv, Types
<1>9. Types'
  BY <1>1, <1>3, <1>4, <1>6, <1>8 DEF IInv, Types, NoneAsked
<1>10. GivenOut'
  <2>1. \A l \in layers_' \cup DOMAIN layer_task_map' : l \in Nat \ {0} /\ l <= id
    BY <1>3, <1>5, <1>6, <1>7 DEF IInv, GivenOut
  <2>2. \A u \in Task : layer_id_'[u] <= id
    BY <1>1, <1>7 DEF IInv, Types, GivenOut
  <2>3. ASSUME NEW u \in Task, NEW l \in opened'[u]
        PROVE  l <= id
    <3>1. l \in opened[u] \/ l = id
      BY <1>4
    <3>2. l \in opened[u] => l \in Nat /\ l <= latest_id_
      BY DEF IInv, Types, GivenOut
    <3> QED
      BY <1>7, <3>1, <3>2
  <2> QED
    BY <1>6, <2>1, <2>2, <2>3 DEF GivenOut
<1>11. Terminals'
  BY <1>1, <1>5 DEF IInv, Terminals
<1>12. Owned'
  <2>1. ASSUME NEW u \in Task, held[u] # 0
        PROVE  held'[u] \in layers_' /\ Own(u, held[u])'
    <3>1. PICK l : l = held[u]
      OBVIOUS
    <3>2. l \in layers_ /\ Own(u, l)
      BY <2>1, <3>1 DEF IInv, Owned
    <3>3. l \in Nat \ {0} /\ l <= latest_id_
      BY <3>2 DEF IInv, GivenOut
    <3>4. Own(u, l)' /\ held'[u] = l
      BY <1>1, <1>5, <3>1, <3>2, <3>3
    <3> QED
      BY <1>6, <3>2, <3>4 DEF Own
  <2>2. ASSUME NEW u \in Task, NEW l \in opened'[u] \cap layers_'
        PROVE  Own(u, l)'
    <3>1. CASE l = id
      <4>1. u = t
        BY <1>4, <1>7, <3>1 DEF IInv, Types, GivenOut
      <4> QED
        BY <1>1, <1>5, <3>1, <4>1 DEF Own
    <3>2. CASE l # id
      <4>1. l \in opened[u] \cap layers_
        BY <1>4, <1>6, <3>2
      <4>2. l <= latest_id_ /\ l \in Nat \ {0} /\ Own(u, l)
        BY <4>1 DEF IInv, GivenOut, Types, Owned
      <4> QED
        BY <1>5, <4>2
    <3> QED
      BY <3>1, <3>2
  <2> QED
    BY <1>1, <2>1, <2>2 DEF Owned
<1> QED
  BY <1>5, <1>9, <1>10, <1>11, <1>12 DEF IInv

\* Only its owner has a pointer to the layer that is removed.
LEMMA KeepsCloseLayer ==
  ASSUME IInv, NEW t \in Task, CloseLayer(t)
  PROVE  IInv'
<1>1. PICK h : h = held[t]
  OBVIOUS
<1>2. PICK p \in {"finish", "app"} :
        /\ pc[t] \in {"close", "app close"} /\ Goto(t, p)
        /\ inbox' = Activate(layer_stack_, 0, layer_task_map, inbox).inbox
        /\ layers_' = layers_ \ {h} /\ layer_task_map' = Without(layer_task_map, h)
        /\ held' = [held EXCEPT ![t] = 0]
        /\ UNCHANGED <<latest_id_, layer_id_, opened, reader>>
  BY <1>1 DEF CloseLayer
<1>3. Mapped(layer_task_map) /\ inbox \in [Task -> Seq(Message)]
  BY DEF IInv, Types
<1>4. NoneAsked(inbox', inbox)
  BY <1>2, <1>3, ActivateTells
<1>5. /\ DOMAIN layer_task_map' = DOMAIN layer_task_map \ {h}
      /\ \A l \in DOMAIN layer_task_map' : layer_task_map'[l] = layer_task_map[l]
  BY <1>2 DEF Without
<1>6. \A u \in Task : \A l : l # h /\ Own(u, l) => Own(u, l)'
  BY <1>2, <1>5 DEF Own
<1>7. Mapped(layer_task_map)'
  BY <1>3, <1>5 DEF Mapped
<1>8. /\ pc' \in [Task -> Place] /\ pc'[t] = p /\ \A u \in Task \ {t} : pc'[u] = pc[u]
      /\ held' \in [Task -> Nat] /\ held'[t] = 0 /\ \A u \in Task \ {t} : held'[u] = held[u]
  BY <1>2 DEF IInv, Types, Goto, Place
<1>9. Types'
  BY <1>2, <1>4, <1>7, <1>8 DEF IInv, Types, NoneAsked
<1>10. GivenOut'
  BY <1>2, <1>5 DEF IInv, GivenOut
<1>11. Terminals'
  <2>1. /\ p \notin Early /\ p \notin Prompt /\ pc[t] \notin Early
    BY <1>2 DEF Early, Prompt
  <2> QED
    BY <1>2, <1>5, <1>8, <2>1 DEF IInv, Terminals
<1>12. Owned'
  <2>1. ASSUME NEW u \in Task, held'[u] # 0
        PROVE  held'[u] \in layers_' /\ Own(u, held[u])'
    <3>1. PICK l : l = held[u]
      OBVIOUS
    <3>2. u # t /\ held'[u] = l /\ l # 0
      BY <1>8, <2>1, <3>1
    <3>3. l \in layers_ /\ Own(u, l)
      BY <3>1, <3>2 DEF IInv, Owned
    <3>4. l # h
      <4>1. SUFFICES ASSUME l = h PROVE FALSE
        OBVIOUS
      <4>2. Own(t, l)
        BY <1>1, <3>2, <4>1 DEF IInv, Owned
      <4> QED
        BY <3>2, <3>3, <4>2, OneOwner DEF IInv
    <3>5. Own(u, l)'
      BY <1>6, <3>3, <3>4
    <3>6. l \in layers_'
      BY <1>2, <3>3, <3>4
    <3> QED
      BY <3>2, <3>5, <3>6 DEF Own
  <2>2. ASSUME NEW u \in Task, NEW l \in opened'[u] \cap layers_'
        PROVE  Own(u, l)'
    BY <1>2, <1>6 DEF IInv, Owned
  <2> QED
    BY <2>1, <2>2 DEF Owned
<1>13. AskedOwned'
  <2>1. \A u \in Task : \A l : Asked(inbox'[u], l) => Asked(inbox[u], l)
    BY <1>4 DEF NoneAsked
  <2> QED
    BY <1>2, <1>6, <2>1 DEF IInv, AskedOwned
<1> QED
  BY <1>9, <1>10, <1>11, <1>12, <1>13 DEF IInv

\* A window whose keys go to another task, or back.
LEMMA KeepsPipe ==
  ASSUME IInv, NEW t \in Terminal, Pipe(t) \/ WaitFinish(t)
  PROVE  IInv'
<1>1. PICK v \in {t, NoTask} \cup Child, p \in {"app", "loop"} :
        /\ pc[t] \in {"pipe", "wait"} /\ Goto(t, p)
        /\ layer_task_map' = Routed(layer_task_map, layer_id_[t], v)
        /\ UNCHANGED reader \/ reader' = [reader EXCEPT ![t] = NoTask]
        /\ UNCHANGED <<layers_, latest_id_, layer_id_, inbox, held, opened>>
  <2>1. reader[t] \in Child \cup {NoTask}
    BY DEF IInv, Types
  <2> QED
    BY <2>1 DEF Pipe, WaitFinish, screen
<1>2. t \in Task /\ t \notin Child /\ \A u \in Child : u \in Task
  BY Constants DEF Task
<1>3. PICK k : k = layer_id_[t]
  OBVIOUS
<1>4. /\ DOMAIN layer_task_map' = DOMAIN layer_task_map \cup {k} /\ layer_task_map'[k] = v
      /\ \A l \in DOMAIN layer_task_map \ {k} : layer_task_map'[l] = layer_task_map[l]
  BY <1>1, <1>3 DEF Routed
<1>5. k \in Nat \ {0} /\ k <= latest_id_
  <2>1. pc[t] \notin Early
    BY <1>1 DEF Early
  <2> QED
    BY <1>2, <1>3, <2>1 DEF IInv, Types, Terminals, GivenOut
<1>6. \A u \in Task : \A l : Own(u, l) => Own(u, l)'
  BY <1>1, <1>2, <1>3, <1>4 DEF Own
<1>7. Mapped(layer_task_map)'
  BY <1>2, <1>4 DEF IInv, Types, Mapped
<1>8. Types'
  <2>1. pc' \in [Task -> Place]
    BY <1>1 DEF IInv, Types, Goto, Place
  <2>2. reader' \in [Terminal -> Child \cup {NoTask}]
    BY <1>1 DEF IInv, Types
  <2> QED
    BY <1>1, <1>7, <2>1, <2>2 DEF IInv, Types
<1>9. GivenOut'
  BY <1>1, <1>4, <1>5 DEF IInv, GivenOut
<1>10. Terminals'
  <2>1. Placed
    <3>1. p \in Place /\ p \notin Early /\ pc[t] \notin Early
      BY <1>1 DEF Place, Early
    <3> QED
      BY <1>1, <1>2, <3>1, Goes
  <2>2. ASSUME NEW u \in Task, layer_id_[u] # 0, layer_id_[u] \in DOMAIN layer_task_map'
        PROVE  layer_task_map'[layer_id_[u]] \in {u, NoTask} \cup Child
    <3>1. CASE u = t
      BY <1>3, <1>4, <3>1
    <3>2. CASE u # t
      <4>1. layer_id_[u] # k
        BY <1>2, <1>3, <1>5, <3>2 DEF IInv, Terminals
      <4> QED
        BY <1>4, <2>2, <4>1 DEF IInv, Terminals
    <3> QED
      BY <3>1, <3>2
  <2> QED
    BY <1>1, <2>1, <2>2 DEF IInv, Terminals, Placed
<1>11. Owned' /\ AskedOwned'
  <2>1. Owned'
    BY <1>1, <1>6 DEF IInv, Owned
  <2>2. AskedOwned'
    BY <1>1, <1>6 DEF IInv, AskedOwned
  <2> QED
    BY <2>1, <2>2
<1> QED
  BY <1>8, <1>9, <1>10, <1>11 DEF IInv
-----------------------------------------------------------------------------
(* Theorems *)

LEMMA KeepsTask ==
  ASSUME IInv, NEW t \in Task, TaskStep(t) \/ AppStep(t)
  PROVE  IInv'
<1>1. CASE TaskStep(t)
  BY <1>1, KeepsStart, KeepsTakeKey, KeepsTake, KeepsTakeClose, KeepsCloseLayer, KeepsFinish,
     KeepsDrawn, KeepsPipe DEF TaskStep
<1>2. CASE AppStep(t)
  BY <1>2, KeepsOpenWindow, KeepsDoWinFunc, KeepsTake, KeepsEndApp DEF AppStep
<1> QED
  BY <1>1, <1>2

LEMMA KeepsInvariant == IInv /\ [Next]_vars => IInv'
<1> SUFFICES ASSUME IInv, [Next]_vars
             PROVE  IInv'
  OBVIOUS
<1>1. CASE MainStep
  <2>1. \/ Drag \/ Release \/ PushKey \/ \E t \in Terminal : NewTerminal(t)
        \/ \E layer \in Range(layer_stack_), region \in {"kTitleBar", "kCloseButton", "kOther"} :
             Press(layer, region)
    BY <1>1 DEF MainStep
  <2> QED
    BY <2>1, KeepsMain, KeepsPress
<1>2. CASE \E t \in Task : TaskStep(t) \/ AppStep(t)
  BY <1>2, KeepsTask
<1>3. CASE UNCHANGED vars
  <2>1. UNCHANGED <<layers_, latest_id_, layer_task_map, layer_id_, pc, held, opened, reader, inbox>>
    BY <1>3 DEF vars, screen
  <2> QED
    BY <2>1, Kept, StillAsked, Still
<1> QED
  BY <1>1, <1>2, <1>3 DEF Next

THEOREM Invariant == Spec => []IInv
BY InitHolds, KeepsInvariant, PTL DEF Spec

\* Types, and every message that asks a task to close a window names one that
\* was made; what a terminal is asked to close is its own or its application's
\* (mouse.cpp:102-113, terminal.cpp:921-925).
THEOREM AskedOwnedCorrect == Spec => [](Types /\ AskedOwned)
<1>1. IInv => Types /\ AskedOwned
  BY DEF IInv
<1> QED
  BY <1>1, Invariant, PTL

\* However many windows are opened, clicked and closed by however many tasks, a
\* layer that a task found under one cli is there when it uses the pointer
\* after the sti (syscall.cpp:96-103, layer.cpp:324-338).
THEOREM HeldExistCorrect == Spec => []HeldExist
<1>1. IInv => HeldExist
  BY DEF IInv, Owned, HeldExist
<1> QED
  BY <1>1, Invariant, PTL

-----------------------------------------------------------------------------
(* The stack of layers *)

\* The desktop is at the bottom of s, and the pointer on top.
Stacked(s) ==
  /\ s \in Seq(Nat) /\ s # <<>> /\ IsInjective(s)
  /\ s[1] = Desktop /\ s[Len(s)] = mouse_layer_

\* The layers that are on the screen.
Screen ==
  /\ Stacked(layer_stack_) /\ Range(layer_stack_) = layers_
  /\ active_layer_ # 0 =>
       /\ active_layer_ \in Box \cup (layers_ \ Fixed)
       /\ layer_stack_[Len(layer_stack_) - 1] = active_layer_
  /\ DOMAIN layer_task_map = layers_ \ Fixed

\* The window of a terminal is not one of the layers made at boot, and not one
\* of its application, which cannot close it.
Apart ==
  \A t \in Task :
    /\ layer_id_[t] \notin Fixed /\ layer_id_[t] \notin opened[t]
    /\ pc[t] = "app close" => held[t] # layer_id_[t]

\* A terminal has its window from its start until it is asked to close it.
Gone == {"none", "new", "finish", "done"}
Alive == \A t \in Terminal : pc[t] \notin Gone => layer_id_[t] \in layers_

SInv == Screen /\ Apart /\ Alive

-----------------------------------------------------------------------------
(* Lemmas about stacks *)

LEMMA FixedLayers ==
  /\ Desktop \in Nat /\ mouse_layer_ \in Nat /\ Desktop < mouse_layer_
  /\ Box \subseteq Fixed /\ Desktop \in Fixed \ Box /\ mouse_layer_ \in Fixed \ Box
  /\ 0 \notin Fixed /\ \A l \in Fixed : l \in Nat /\ l <= mouse_layer_
  BY WindowsAssumption DEF Desktop, mouse_layer_, Box, Fixed

\* find, and erase at the place found
LEMMA HiddenAt ==
  ASSUME NEW s \in Seq(Nat), IsInjective(s), NEW k \in 1..Len(s)
  PROVE  /\ Hide(s, s[k]) \in Seq(Nat) /\ IsInjective(Hide(s, s[k]))
         /\ Range(Hide(s, s[k])) = Range(s) \ {s[k]} /\ Len(Hide(s, s[k])) = Len(s) - 1
         /\ \A i \in 1..(Len(s) - 1) : Hide(s, s[k])[i] = IF i < k THEN s[i] ELSE s[i + 1]
<1> DEFINE id == s[k]
           r == SubSeq(s, 1, k - 1) \o SubSeq(s, k + 1, Len(s))
<1>1. DOMAIN s = 1..Len(s) /\ \A i, j \in 1..Len(s) : s[i] = s[j] => i = j
  BY Indices
<1>2. PICK c : c = CHOOSE i \in DOMAIN s : s[i] = id
  OBVIOUS
<1>3. c = k /\ \E i \in DOMAIN s : s[i] = id
  BY <1>1, <1>2
<1>4. Hide(s, id) = RemoveAt(s, c)
  BY <1>2, <1>3 DEF Hide
<1>5. Hide(s, id) = r
  BY <1>3, <1>4 DEF RemoveAt
<1>6. r \in Seq(Nat) /\ IsInjective(r) /\ Range(r) = Range(s) \ {s[k]}
  BY RemoveOne
<1>7. Len(r) = Len(s) - 1 /\ \A i \in 1..(Len(s) - 1) : r[i] = IF i < k THEN s[i] ELSE s[i + 1]
  BY Cut
<1> HIDE DEF r
<1> QED
  BY <1>5, <1>6, <1>7

LEMMA NotThere ==
  ASSUME NEW s \in Seq(Nat), NEW id, id \notin Range(s)
  PROVE  Hide(s, id) = s
<1>1. DOMAIN s = 1..Len(s) /\ Range(s) = { s[i] : i \in 1..Len(s) }
  BY Indices
<1> QED
  BY <1>1 DEF Hide

\* A stack without one of its windows is a stack.
LEMMA HiddenStacked ==
  ASSUME NEW s, Stacked(s), NEW id, id \notin {Desktop, mouse_layer_}
  PROVE  /\ Stacked(Hide(s, id)) /\ Range(Hide(s, id)) = Range(s) \ {id}
         /\ Len(Hide(s, id)) \in Nat /\ Len(Hide(s, id)) >= 2
<1>1. /\ s \in Seq(Nat) /\ IsInjective(s) /\ Len(s) \in Nat /\ Len(s) >= 1
      /\ s[1] = Desktop /\ s[Len(s)] = mouse_layer_
      /\ DOMAIN s = 1..Len(s) /\ Range(s) = { s[i] : i \in 1..Len(s) }
  BY LenProperties, EmptySeq, Indices DEF Stacked
<1>2. Desktop # mouse_layer_
  BY FixedLayers
<1>3. CASE id \notin Range(s)
  <2>1. Hide(s, id) = s
    BY <1>1, <1>3, NotThere
  <2>2. Len(s) >= 2 /\ Range(s) = Range(s) \ {id}
    BY <1>1, <1>2, <1>3
  <2> QED
    BY <1>1, <2>1, <2>2
<1>4. CASE id \in Range(s)
  <2>1. PICK k \in 1..Len(s) : s[k] = id
    BY <1>1, <1>4
  <2> DEFINE r == Hide(s, s[k])
  <2>2. s \in Seq(Nat) /\ IsInjective(s)
    BY <1>1
  <2>3. /\ r \in Seq(Nat) /\ IsInjective(r) /\ Range(r) = Range(s) \ {s[k]} /\ Len(r) = Len(s) - 1
        /\ \A i \in 1..(Len(s) - 1) : r[i] = IF i < k THEN s[i] ELSE s[i + 1]
    BY <2>1, <2>2, HiddenAt
  <2> HIDE DEF r
  <2>4. k # 1 /\ k # Len(s)
    BY <1>1, <2>1
  <2>5. Len(s) >= 3 /\ 1 < k /\ ~(Len(s) - 1 < k)
    <3>1. Len(s) \in Nat /\ k \in 1..Len(s)
      BY <1>1, <2>1
    <3> QED
      BY <2>4, <3>1
  <2>6. 1 \in 1..(Len(s) - 1) /\ Len(s) - 1 \in 1..(Len(s) - 1) /\ (Len(s) - 1) + 1 = Len(s)
    BY <1>1, <2>5
  <2>7. r[1] = s[1] /\ r[Len(s) - 1] = s[Len(s)]
    BY <2>3, <2>5, <2>6
  <2>8. r # <<>> /\ Len(r) \in Nat /\ Len(r) >= 2
    BY <1>1, <2>3, <2>5, EmptySeq
  <2> QED
    BY <1>1, <2>1, <2>3, <2>7, <2>8 DEF Stacked, r
<1> QED
  BY <1>3, <1>4

\* A window that is raised is right below the pointer.
LEMMA Raised ==
  ASSUME NEW s, Stacked(s), NEW id \in Nat, id \notin {Desktop, mouse_layer_}
  PROVE  /\ Stacked(Raise(s, id)) /\ Range(Raise(s, id)) = Range(s) \cup {id}
         /\ Raise(s, id)[Len(Raise(s, id)) - 1] = id
<1> DEFINE rest == Hide(s, id)
           n == Len(rest)
           down == UpDown(s, id, 0)
<1>1. /\ Stacked(rest) /\ Range(rest) = Range(s) \ {id} /\ n \in Nat /\ n >= 2
  BY HiddenStacked
<1>2. /\ rest \in Seq(Nat) /\ IsInjective(rest) /\ rest[1] = Desktop /\ rest[n] = mouse_layer_
      /\ id \notin Range(rest)
  BY <1>1 DEF Stacked
<1>3. /\ DOMAIN rest = 1..n /\ \A i, j \in 1..n : rest[i] = rest[j] => i = j
  BY <1>2, Indices
<1>4. down = InsertAt(rest, 1, id)
  <2>1. (IF 0 > n THEN n ELSE 0) + 1 = 1
    BY <1>1
  <2> QED
    BY <2>1 DEF UpDown
<1>5. \A k \in 1..(n + 1) :
        /\ InsertAt(rest, k, id) \in Seq(Nat) /\ Len(InsertAt(rest, k, id)) = n + 1
        /\ \A i \in 1..(n + 1) :
             InsertAt(rest, k, id)[i] = IF i < k THEN rest[i] ELSE IF i = k THEN id ELSE rest[i - 1]
        /\ Range(InsertAt(rest, k, id)) = Range(rest) \cup {id} /\ IsInjective(InsertAt(rest, k, id))
  <2> HIDE DEF rest
  <2> QED
    BY <1>2, InsertOne DEF InsertAt
<1> HIDE DEF rest, down
<1>6. /\ down \in Seq(Nat) /\ Len(down) = n + 1 /\ IsInjective(down)
      /\ down[1] = id /\ \A i \in 2..(n + 1) : down[i] = rest[i - 1]
  <2>1. 1 \in 1..(n + 1) /\ \A i \in 2..(n + 1) : i \in 1..(n + 1) /\ ~(i < 1) /\ i # 1
    BY <1>1
  <2> QED
    BY <1>4, <1>5, <2>1
<1>7. GetHeight(down, mouse_layer_) = n
  <2>1. n \in 0..(Len(down) - 1) /\ down[n + 1] = mouse_layer_
    <3>1. n \in 0..(n + 1 - 1) /\ n + 1 \in 2..(n + 1) /\ (n + 1) - 1 = n
      BY <1>1
    <3> QED
      BY <1>2, <1>6, <3>1
  <2>2. ASSUME NEW h \in 0..(Len(down) - 1), down[h + 1] = mouse_layer_
        PROVE  h = n
    <3>1. h + 1 \in 1..Len(down) /\ n + 1 \in 1..Len(down) /\ h \in Int
      BY <1>1, <1>6
    <3>2. \A i, j \in 1..Len(down) : down[i] = down[j] => i = j
      BY <1>6, Indices
    <3>3. h + 1 = n + 1
      BY <2>1, <2>2, <3>1, <3>2
    <3> QED
      BY <1>1, <3>1, <3>3
  <2> QED
    BY <2>1, <2>2, Zenon DEF GetHeight
<1>8. Hide(down, id) = rest
  <2>1. 1 \in 1..Len(down) /\ down[1] = id
    BY <1>1, <1>6
  <2>2. /\ Hide(down, id) \in Seq(Nat) /\ Len(Hide(down, id)) = Len(down) - 1
        /\ \A i \in 1..(Len(down) - 1) : Hide(down, id)[i] = IF i < 1 THEN down[i] ELSE down[i + 1]
    <3>1. /\ Hide(down, down[1]) \in Seq(Nat) /\ Len(Hide(down, down[1])) = Len(down) - 1
          /\ \A i \in 1..(Len(down) - 1) :
               Hide(down, down[1])[i] = IF i < 1 THEN down[i] ELSE down[i + 1]
      BY <1>6, <2>1, HiddenAt
    <3> QED
      BY <2>1, <3>1
  <2>3. ASSUME NEW i \in 1..n
        PROVE  Hide(down, id)[i] = rest[i]
    <3>1. i \in 1..(Len(down) - 1) /\ ~(i < 1) /\ i + 1 \in 2..(n + 1) /\ (i + 1) - 1 = i
      BY <1>1, <1>6
    <3> QED
      BY <1>6, <2>2, <3>1
  <2>4. Len(Hide(down, id)) = n
    BY <1>1, <1>6, <2>2
  <2> QED
    BY <1>2, <2>2, <2>3, <2>4, SeqEqual
<1>9. Raise(s, id) = InsertAt(rest, n, id)
  <2>1. (IF n - 1 > n THEN n ELSE n - 1) + 1 = n
    BY <1>1
  <2>2. UpDown(down, id, n - 1) = InsertAt(rest, n, id)
    BY <1>8, <2>1 DEF UpDown
  <2> QED
    BY <1>7, <2>2 DEF Raise, down
<1> DEFINE q == InsertAt(rest, n, id)
<1>10. /\ q \in Seq(Nat) /\ Len(q) = n + 1 /\ Range(q) = Range(rest) \cup {id} /\ IsInjective(q)
       /\ \A i \in 1..(n + 1) : q[i] = IF i < n THEN rest[i] ELSE IF i = n THEN id ELSE rest[i - 1]
  <2>1. n \in 1..(n + 1)
    BY <1>1
  <2> QED
    BY <1>5, <2>1
<1> HIDE DEF q
<1>11. q[1] = Desktop /\ q[n] = id /\ q[n + 1] = mouse_layer_
  <2>1. /\ 1 \in 1..(n + 1) /\ n \in 1..(n + 1) /\ n + 1 \in 1..(n + 1)
        /\ 1 < n /\ ~(n < n) /\ ~(n + 1 < n) /\ n + 1 # n /\ (n + 1) - 1 = n
    BY <1>1
  <2> QED
    BY <1>2, <1>10, <2>1
<1>12. q # <<>> /\ Len(q) - 1 = n
  BY <1>1, <1>10, EmptySeq
<1>13. Stacked(q) /\ Range(q) = Range(s) \cup {id} /\ q[Len(q) - 1] = id
  BY <1>1, <1>10, <1>11, <1>12 DEF Stacked
<1> QED
  BY <1>9, <1>13 DEF q
-----------------------------------------------------------------------------
(* What steps keep *)

\* Who owns a layer did not get it at boot.
LEMMA OwnNotFixed ==
  ASSUME SInv, NEW t \in Task, NEW l, Own(t, l)
  PROVE  l \notin Fixed /\ l \notin {Desktop, mouse_layer_}
<1>1. l \notin Fixed
  BY DEF SInv, Screen, Apart, Own
<1> QED
  BY <1>1, FixedLayers

\* Activate(layer) makes a sound stack of a sound one.
LEMMA Activated ==
  ASSUME Screen, NEW layer \in Nat, layer \notin {Desktop, mouse_layer_}, NEW map, NEW box
  PROVE  LET s == Activate(layer_stack_, layer, map, box).stack
         IN /\ Stacked(s) /\ Range(s) = IF layer = 0 THEN layers_ ELSE layers_ \cup {layer}
            /\ layer # 0 => s[Len(s) - 1] = layer
<1>1. Stacked(layer_stack_) /\ Range(layer_stack_) = layers_
  BY DEF Screen
<1>2. PICK told : told = SendWindowActiveMessage(box, map, active_layer_, 0)
  OBVIOUS
<1>3. PICK new : new = SendWindowActiveMessage(told, map, layer, 1)
  OBVIOUS
<1>4. Activate(layer_stack_, layer, map, box) =
        IF layer = active_layer_ THEN [stack |-> layer_stack_, inbox |-> box]
        ELSE [stack |-> IF layer > 0 THEN Raise(layer_stack_, layer) ELSE layer_stack_, inbox |-> new]
  BY <1>2, <1>3 DEF Activate
<1>5. CASE layer = 0
  <2>1. Activate(layer_stack_, layer, map, box).stack = layer_stack_
    BY <1>4, <1>5
  <2> QED
    BY <1>1, <1>5, <2>1
<1>6. CASE layer # 0 /\ layer = active_layer_
  <2>1. Activate(layer_stack_, layer, map, box).stack = layer_stack_
    BY <1>4, <1>6
  <2>2. layer_stack_[Len(layer_stack_) - 1] = layer
    BY <1>6 DEF Screen
  <2>3. /\ layer_stack_ \in Seq(Nat) /\ Len(layer_stack_) \in Nat /\ Len(layer_stack_) >= 1
        /\ layer_stack_[1] = Desktop /\ layer_stack_[Len(layer_stack_)] = mouse_layer_
    BY <1>1, LenProperties, EmptySeq DEF Stacked
  <2>4. Len(layer_stack_) # 1
    BY <2>3, FixedLayers
  <2>5. Len(layer_stack_) - 1 \in 1..Len(layer_stack_)
    <3>1. \A n \in Nat : n >= 1 /\ n # 1 => n - 1 \in 1..n
      OBVIOUS
    <3> QED
      BY <2>3, <2>4, <3>1, Zenon
  <2>6. layer \in layers_
    <3>1. Range(layer_stack_) = { layer_stack_[i] : i \in 1..Len(layer_stack_) }
      BY <2>3, Indices
    <3> QED
      BY <1>1, <2>2, <2>5, <3>1
  <2> QED
    BY <1>1, <1>6, <2>1, <2>2, <2>6
<1>7. CASE layer # 0 /\ layer # active_layer_
  <2>1. Activate(layer_stack_, layer, map, box).stack = Raise(layer_stack_, layer)
    BY <1>4, <1>7
  <2>2. /\ Stacked(Raise(layer_stack_, layer)) /\ Range(Raise(layer_stack_, layer)) = layers_ \cup {layer}
        /\ Raise(layer_stack_, layer)[Len(Raise(layer_stack_, layer)) - 1] = layer
    BY <1>1, Raised
  <2> QED
    BY <1>7, <2>1, <2>2
<1> QED
  BY <1>5, <1>6, <1>7

LEMMA StillScreen ==
  ASSUME SInv, UNCHANGED <<layers_, layer_stack_, active_layer_, layer_task_map>>
  PROVE  Screen'
BY DEF SInv, Screen, Stacked

LEMMA StillApart ==
  ASSUME SInv, UNCHANGED layer_id_, \A u \in Task : opened'[u] \subseteq opened[u],
         \A u \in Task : pc'[u] = "app close" => held'[u] # layer_id_[u]
  PROVE  Apart'
BY DEF SInv, Apart

LEMMA StillAlive ==
  ASSUME SInv, UNCHANGED layer_id_, layers_ \subseteq layers_',
         \A u \in Terminal : pc[u] \in Gone => pc'[u] \in Gone
  PROVE  Alive'
BY DEF SInv, Alive

\* Most steps touch no layer, and move one task.
LEMMA Walked ==
  ASSUME IInv, SInv, NEW t \in Task, NEW p, Goto(t, p), p # "app close",
         p \in Gone \/ pc[t] \notin Gone \/ t \notin Terminal,
         UNCHANGED <<layers_, layer_stack_, active_layer_, layer_task_map, layer_id_>>,
         \A u \in Task : opened'[u] \subseteq opened[u],
         \A u \in Task \ {t} : held'[u] = held[u]
  PROVE  SInv'
<1>1. pc'[t] = p /\ \A u \in Task \ {t} : pc'[u] = pc[u]
  BY DEF IInv, Types, Goto
<1>2. \A u \in Task : pc'[u] = "app close" => held'[u] # layer_id_[u]
  BY <1>1 DEF SInv, Apart
<1>3. \A u \in Terminal : pc[u] \in Gone => pc'[u] \in Gone
  BY <1>1 DEF Task
<1> QED
  BY <1>2, <1>3, StillScreen, StillApart, StillAlive DEF SInv

\* ... or none.
LEMMA Stood ==
  ASSUME SInv, UNCHANGED <<layers_, layer_stack_, active_layer_, layer_task_map, layer_id_, opened, held, pc>>
  PROVE  SInv'
BY StillScreen, StillApart, StillAlive DEF SInv, Apart
-----------------------------------------------------------------------------
(* The initial state and the steps *)

LEMMA InitSound == Init => SInv
<1> SUFFICES ASSUME Init PROVE SInv
  OBVIOUS
<1>1. mouse_layer_ \in Nat /\ mouse_layer_ >= 1 /\ Fixed = 1..mouse_layer_ /\ Desktop = 1
  BY FixedLayers DEF Fixed, Desktop
<1> DEFINE s == [l \in 1..mouse_layer_ |-> l]
<1>2. layer_stack_ = s /\ layers_ = 1..mouse_layer_
  BY <1>1 DEF Init
<1>3. s \in Seq(Nat) /\ Len(s) = mouse_layer_ /\ \A l \in 1..mouse_layer_ : s[l] = l
  BY <1>1
<1> HIDE DEF s
<1>4. s # <<>>
  BY <1>1, <1>3, EmptySeq
<1>5. IsInjective(s) /\ Range(s) = 1..mouse_layer_
  <2>1. /\ Range(s) = { s[i] : i \in 1..mouse_layer_ }
        /\ IsInjective(s) <=> \A i, j \in 1..mouse_layer_ : s[i] = s[j] => i = j
    BY <1>3, Indices
  <2> QED
    BY <1>3, <2>1
<1>6. s[1] = Desktop /\ s[Len(s)] = mouse_layer_
  BY <1>1, <1>3
<1>7. Stacked(s)
  BY <1>3, <1>4, <1>5, <1>6 DEF Stacked
<1>8. active_layer_ = 0 /\ DOMAIN layer_task_map = {} /\ layers_ = Fixed
  BY DEF Init
<1>9. Screen
  BY <1>2, <1>5, <1>7, <1>8 DEF Screen
<1>10. Apart /\ Alive
  <2>1. 0 \notin Fixed
    BY FixedLayers
  <2>2. Apart
    BY <2>1 DEF Init, Apart
  <2>3. Alive
    BY DEF Init, Alive, Gone, Task
  <2> QED
    BY <2>2, <2>3
<1> QED
  BY <1>9, <1>10 DEF SInv

LEMMA SoundPress ==
  ASSUME IInv, SInv, NEW layer \in Range(layer_stack_), NEW region, Press(layer, region)
  PROVE  SInv'
<1> DEFINE target == IF layer \in Fixed \ Box THEN 0 ELSE layer
           s == Activate(layer_stack_, target, layer_task_map, inbox).stack
<1>1. /\ active_layer_' = target /\ layer_stack_' = s
      /\ UNCHANGED <<layers_, layer_task_map, pc, layer_id_, held, opened>>
  BY DEF Press
<1>2. layer \in layers_ /\ layer \in Nat \ {0}
  BY DEF SInv, Screen, IInv, GivenOut
<1>3. /\ target \in Nat /\ target \notin {Desktop, mouse_layer_}
      /\ target # 0 => target \in layers_ /\ target \in Box \cup (layers_ \ Fixed)
  <2>1. Desktop \in Fixed \ Box /\ mouse_layer_ \in Fixed \ Box
        /\ Desktop # 0 /\ mouse_layer_ # 0
    BY FixedLayers
  <2>2. CASE layer \in Fixed \ Box
    BY <2>1, <2>2
  <2>3. CASE layer \notin Fixed \ Box
    BY <1>2, <2>1, <2>3
  <2> QED
    BY <2>2, <2>3
<1> HIDE DEF target
<1>4. /\ Stacked(s) /\ Range(s) = IF target = 0 THEN layers_ ELSE layers_ \cup {target}
      /\ target # 0 => s[Len(s) - 1] = target
  <2>1. Screen
    BY DEF SInv
  <2> QED
    BY <1>3, <2>1, Activated
<1> HIDE DEF s
<1>5. Range(s) = layers_
  BY <1>3, <1>4
<1>6. Screen'
  <2>1. DOMAIN layer_task_map' = layers_' \ Fixed
    BY <1>1 DEF SInv, Screen
  <2>2. Stacked(layer_stack_)'
    BY <1>1, <1>4 DEF Stacked
  <2> QED
    BY <1>1, <1>3, <1>4, <1>5, <2>1, <2>2 DEF Screen
<1>7. Apart'
  BY <1>1 DEF SInv, Apart
<1>8. Alive'
  BY <1>1 DEF SInv, Alive
<1> QED
  BY <1>6, <1>7, <1>8 DEF SInv

LEMMA SoundMain ==
  ASSUME IInv, SInv, MainStep
  PROVE  SInv'
<1>1. CASE Drag \/ Release \/ PushKey
  <2>1. UNCHANGED <<layers_, layer_stack_, active_layer_, layer_task_map, layer_id_, opened, held, pc>>
    BY <1>1 DEF Drag, Release, PushKey, screen
  <2> QED
    BY <2>1, Stood
<1>2. CASE \E t \in Terminal : NewTerminal(t)
  <2>1. PICK t \in Terminal : NewTerminal(t)
    BY <1>2
  <2>2. /\ t \in Task /\ Goto(t, "new") /\ "new" \in Gone
        /\ UNCHANGED <<layers_, layer_stack_, active_layer_, layer_task_map, layer_id_, opened, held>>
    BY <2>1 DEF NewTerminal, screen, Goto, Gone, Task
  <2> QED
    BY <2>2, Walked
<1>3. CASE \E layer \in Range(layer_stack_), region \in {"kTitleBar", "kCloseButton", "kOther"} :
             Press(layer, region)
  BY <1>3, SoundPress
<1> QED
  BY <1>1, <1>2, <1>3 DEF MainStep

\* The steps of a task at its prompt.
LEMMA SoundPrompt ==
  ASSUME IInv, SInv, NEW t \in Task, TakeKey(t) \/ TakeActive(t) \/ TakeClose(t) \/ Finish(t)
  PROVE  SInv'
<1>1. UNCHANGED <<layers_, layer_stack_, active_layer_, layer_task_map, layer_id_, opened>>
  BY DEF TakeKey, TakeActive, TakeClose, Finish, screen
<1>2. CASE TakeKey(t)
  <2>1. pc[t] = "loop" /\ pc[t] \notin Gone /\ UNCHANGED held
    BY <1>2 DEF TakeKey, Gone
  <2>2. CASE UNCHANGED pc
    BY <1>1, <2>1, <2>2, Stood
  <2>3. CASE Goto(t, "app")
    BY <1>1, <2>1, <2>3, Walked
  <2>4. CASE \E c \in Child : pc[c] = "none" /\ pc' = [pc EXCEPT ![t] = "pipe", ![c] = "new"]
    <3>1. PICK c \in Child : pc' = [pc EXCEPT ![t] = "pipe", ![c] = "new"]
      BY <2>4
    <3>2. \A u \in Task : pc'[u] \in {pc[u], "pipe", "new"}
      BY <3>1 DEF IInv, Types
    <3>3. \A u \in Task : pc'[u] = "app close" => pc[u] = "app close"
      BY <3>2
    <3>4. t \in Terminal /\ \A u \in Terminal : u \in Task /\ u # c
      BY <2>1, Constants DEF IInv, Terminals, Task, Prompt
    <3>5. \A u \in Terminal : u # t => pc'[u] = pc[u]
      BY <3>1, <3>4 DEF IInv, Types
    <3>6. \A u \in Terminal : pc[u] \in Gone => pc'[u] \in Gone
      BY <2>1, <3>5
    <3>7. \A u \in Task : pc'[u] = "app close" => held'[u] # layer_id_[u]
      BY <2>1, <3>3 DEF SInv, Apart
    <3> QED
      BY <1>1, <3>6, <3>7, StillScreen, StillApart, StillAlive DEF SInv
  <2> QED
    BY <1>2, <2>2, <2>3, <2>4 DEF TakeKey
<1>3. CASE TakeActive(t)
  <2>1. UNCHANGED <<held, pc>>
    BY <1>3 DEF TakeActive
  <2> QED
    BY <1>1, <2>1, Stood
<1>4. CASE TakeClose(t)
  <2>1. PICK p \in {"close", "finish"} :
          /\ pc[t] = "loop" /\ Goto(t, p)
          /\ \A u \in Task \ {t} : held'[u] = held[u]
    BY <1>4 DEF TakeClose, IInv, Types
  <2> QED
    BY <1>1, <2>1, Walked DEF Gone
<1>5. CASE Finish(t)
  <2>1. Goto(t, "done") /\ "done" \in Gone /\ UNCHANGED held
    BY <1>5 DEF Finish, Gone
  <2> QED
    BY <1>1, <2>1, Walked
<1> QED
  BY <1>2, <1>3, <1>4, <1>5

\* The steps of an application that leave its windows where they are.
LEMMA SoundApp ==
  ASSUME IInv, SInv, NEW t \in Task,
         Drawn(t) \/ DoWinFunc(t) \/ CloseWindow(t) \/ ReadEvent(t) \/ EndApp(t)
  PROVE  SInv'
<1>1. UNCHANGED <<layers_, layer_stack_, active_layer_, layer_task_map, layer_id_>>
  BY DEF Drawn, DoWinFunc, CloseWindow, ReadEvent, EndApp, screen
<1>2. CASE Drawn(t) \/ DoWinFunc(t)
  <2>1. PICK p \in {"app", "draw"} : Goto(t, p)
    BY <1>2 DEF Drawn, DoWinFunc
  <2>2. /\ pc[t] \notin Gone /\ UNCHANGED opened
        /\ \A u \in Task \ {t} : held'[u] = held[u]
    BY <1>2 DEF Drawn, DoWinFunc, IInv, Types, Gone
  <2> QED
    BY <1>1, <2>1, <2>2, Walked
<1>3. CASE ReadEvent(t)
  <2>1. UNCHANGED <<opened, held, pc>>
    BY <1>3 DEF ReadEvent
  <2> QED
    BY <1>1, <2>1, Stood
<1>4. CASE EndApp(t)
  <2>1. PICK p \in {"finish", "wait", "loop"} : Goto(t, p)
    BY <1>4 DEF EndApp
  <2>2. /\ pc[t] \notin Gone /\ UNCHANGED held
        /\ \A u \in Task : opened'[u] \subseteq opened[u]
    BY <1>4 DEF EndApp, IInv, Types, Gone
  <2> QED
    BY <1>1, <2>1, <2>2, Walked
<1>5. CASE CloseWindow(t)
  <2>1. PICK l \in opened[t] :
          /\ held' = [held EXCEPT ![t] = l] /\ opened' = [opened EXCEPT ![t] = @ \ {l}]
          /\ pc[t] = "app" /\ Goto(t, "app close")
    BY <1>5 DEF CloseWindow
  <2>2. l # layer_id_[t]
    BY DEF SInv, Apart
  <2>3. /\ pc'[t] = "app close" /\ held'[t] = l
        /\ \A u \in Task \ {t} : pc'[u] = pc[u] /\ held'[u] = held[u]
        /\ \A u \in Task : opened'[u] \subseteq opened[u]
    BY <2>1 DEF IInv, Types, Goto
  <2>4. \A u \in Task : pc'[u] = "app close" => held'[u] # layer_id_[u]
    BY <2>2, <2>3 DEF SInv, Apart
  <2>5. \A u \in Terminal : pc[u] \in Gone => pc'[u] \in Gone
    BY <2>1, <2>3 DEF Task, Gone
  <2> QED
    BY <1>1, <2>3, <2>4, <2>5, StillScreen, StillApart, StillAlive DEF SInv
<1> QED
  BY <1>2, <1>3, <1>4, <1>5

\* A new layer is in front, and no boot layer.
LEMMA SoundMade ==
  ASSUME IInv, SInv, NEW t \in Task, Open(t) \/ OpenUntold(t)
  PROVE  /\ Screen' /\ layers_' = layers_ \cup {latest_id_ + 1}
         /\ latest_id_ + 1 \notin Fixed
         /\ \A u \in Task : layer_id_[u] # latest_id_ + 1 /\ latest_id_ + 1 \notin opened[u]
<1> DEFINE id == latest_id_ + 1
           new == With(layer_task_map, id, t)
<1>1. PICK map \in {layer_task_map, new} :
        /\ layers_' = layers_ \cup {id} /\ active_layer_' = id /\ layer_task_map' = new
        /\ layer_stack_' = Activate(layer_stack_, id, map, inbox).stack
  BY DEF Open, OpenUntold
<1>2. latest_id_ \in Nat /\ mouse_layer_ <= latest_id_
  <2>1. Stacked(layer_stack_) /\ Range(layer_stack_) = layers_
    BY DEF SInv, Screen
  <2>2. /\ Len(layer_stack_) \in 1..Len(layer_stack_)
        /\ Range(layer_stack_) = { layer_stack_[i] : i \in 1..Len(layer_stack_) }
    BY <2>1, LenProperties, EmptySeq, Indices DEF Stacked
  <2>3. mouse_layer_ \in layers_
    BY <2>1, <2>2 DEF Stacked
  <2> QED
    BY <2>3 DEF IInv, GivenOut, Types
<1>3. /\ id \in Nat /\ id # 0 /\ id \notin Fixed
      /\ \A l \in Nat : l <= latest_id_ => l # id
  BY <1>2, FixedLayers
<1>4. \A u \in Task : layer_id_[u] # id /\ id \notin opened[u]
  BY <1>3 DEF IInv, Types, GivenOut
<1>5. id \notin {Desktop, mouse_layer_}
  BY <1>3, FixedLayers
<1>6. DOMAIN layer_task_map' = DOMAIN layer_task_map \cup {id}
  BY <1>1 DEF With
<1> HIDE DEF id, new
<1> DEFINE s == Activate(layer_stack_, id, map, inbox).stack
<1>7. Stacked(s) /\ Range(s) = layers_ \cup {id} /\ s[Len(s) - 1] = id
  <2>1. Screen
    BY DEF SInv
  <2> QED
    BY <1>3, <1>5, <2>1, Activated
<1>8. layer_stack_' = s
  BY <1>1
<1> HIDE DEF s
<1>9. Screen'
  <2>1. Stacked(layer_stack_)'
    BY <1>7, <1>8 DEF Stacked
  <2>2. DOMAIN layer_task_map' = layers_' \ Fixed
    BY <1>1, <1>3, <1>6 DEF SInv, Screen
  <2>3. active_layer_' \in layers_' \ Fixed
    BY <1>1, <1>3
  <2> QED
    BY <1>1, <1>7, <1>8, <2>1, <2>2, <2>3 DEF Screen
<1> QED
  BY <1>1, <1>3, <1>4, <1>9 DEF id

LEMMA SoundStart ==
  ASSUME IInv, SInv, NEW t \in Task, Start(t)
  PROVE  SInv'
<1>1. CASE t \in Child
  <2>1. /\ Goto(t, "app") /\ t \notin Terminal
        /\ UNCHANGED <<layers_, layer_stack_, active_layer_, layer_task_map, layer_id_, opened, held>>
    BY <1>1, Constants DEF Start, screen
  <2> QED
    BY <2>1, Walked
<1>2. CASE t \in Terminal
  <2> DEFINE id == latest_id_ + 1
  <2>1. /\ Open(t) /\ layer_id_' = [layer_id_ EXCEPT ![t] = id] /\ Goto(t, "loop")
        /\ UNCHANGED <<opened, held>>
    BY <1>2, Constants DEF Start
  <2>2. /\ Screen' /\ layers_' = layers_ \cup {id} /\ id \notin Fixed
        /\ \A u \in Task : layer_id_[u] # id /\ id \notin opened[u]
    BY <2>1, SoundMade
  <2> HIDE DEF id
  <2>3. /\ layer_id_'[t] = id /\ pc'[t] = "loop"
        /\ \A u \in Task \ {t} : layer_id_'[u] = layer_id_[u] /\ pc'[u] = pc[u]
    BY <2>1 DEF IInv, Types, Goto
  <2>4. Apart'
    BY <2>1, <2>2, <2>3 DEF SInv, Apart
  <2>5. Alive'
    BY <2>2, <2>3 DEF SInv, Alive, Task
  <2> QED
    BY <2>2, <2>4, <2>5 DEF SInv
<1> QED
  BY <1>1, <1>2 DEF Task

LEMMA SoundOpenWindow ==
  ASSUME IInv, SInv, NEW t \in Task, OpenWindow(t)
  PROVE  SInv'
<1> DEFINE id == latest_id_ + 1
<1>1. /\ OpenUntold(t) /\ opened' = [opened EXCEPT ![t] = @ \cup {id}]
      /\ UNCHANGED <<pc, layer_id_, held>>
  BY DEF OpenWindow
<1>2. /\ Screen' /\ layers_' = layers_ \cup {id} /\ id \notin Fixed
      /\ \A u \in Task : layer_id_[u] # id
  BY <1>1, SoundMade
<1> HIDE DEF id
<1>3. \A u \in Task : opened'[u] \subseteq opened[u] \cup {id}
  BY <1>1 DEF IInv, Types
<1>4. Apart'
  BY <1>1, <1>2, <1>3 DEF SInv, Apart
<1>5. Alive'
  BY <1>1, <1>2 DEF SInv, Alive
<1> QED
  BY <1>2, <1>4, <1>5 DEF SInv

\* No terminal but the one that closes it has the layer for its window.
LEMMA SoundCloseLayer ==
  ASSUME IInv, SInv, NEW t \in Task, CloseLayer(t)
  PROVE  SInv'
<1> DEFINE h == held[t]
           s == Hide(layer_stack_, h)
<1>1. /\ pc[t] \in {"close", "app close"} /\ Goto(t, IF pc[t] = "close" THEN "finish" ELSE "app")
      /\ active_layer_' = 0 /\ layers_' = layers_ \ {h} /\ layer_stack_' = s
      /\ layer_task_map' = Without(layer_task_map, h)
      /\ held' = [held EXCEPT ![t] = 0] /\ UNCHANGED <<layer_id_, opened>>
  BY DEF CloseLayer
<1>2. h # 0 => Own(t, h)
  BY DEF IInv, Owned
<1> HIDE DEF h
<1>3. h \notin Fixed /\ h \notin {Desktop, mouse_layer_}
  BY <1>2, OwnNotFixed, FixedLayers
<1>4. Stacked(s) /\ Range(s) = layers_ \ {h}
  <2>1. Stacked(layer_stack_) /\ Range(layer_stack_) = layers_
    BY DEF SInv, Screen
  <2> QED
    BY <1>3, <2>1, HiddenStacked
<1> HIDE DEF s
<1>5. Screen'
  <2>1. Stacked(layer_stack_)'
    BY <1>1, <1>4 DEF Stacked
  <2>2. DOMAIN layer_task_map' = layers_' \ Fixed
    BY <1>1 DEF SInv, Screen, Without
  <2> QED
    BY <1>1, <1>4, <2>1, <2>2 DEF Screen
<1>6. /\ pc'[t] = (IF pc[t] = "close" THEN "finish" ELSE "app")
      /\ \A u \in Task \ {t} : pc'[u] = pc[u] /\ held'[u] = held[u]
  BY <1>1 DEF IInv, Types, Goto
<1>7. Apart'
  BY <1>1, <1>6 DEF SInv, Apart
<1>8. Alive'
  <2> SUFFICES ASSUME NEW u \in Terminal, pc'[u] \notin Gone
               PROVE  layer_id_[u] \in layers_'
    BY <1>1 DEF Alive
  <2>1. u \in Task
    BY DEF Task
  <2>2. CASE u = t
    <3>1. pc[t] = "app close"
      BY <1>1, <1>6, <2>2 DEF Gone
    <3>2. h # layer_id_[t]
      BY <3>1 DEF SInv, Apart, h
    <3>3. layer_id_[t] \in layers_
      BY <2>2, <3>1 DEF SInv, Alive, Gone
    <3> QED
      BY <1>1, <2>2, <3>2, <3>3
  <2>3. CASE u # t
    <3>1. pc[u] \notin Gone
      BY <1>6, <2>1, <2>3
    <3>2. layer_id_[u] \in layers_
      BY <3>1 DEF SInv, Alive
    <3>3. layer_id_[u] # 0
      BY <3>2 DEF IInv, GivenOut
    <3>4. layer_id_[u] # h
      BY <1>2, <2>1, <2>3, <3>3 DEF IInv, Terminals, Own
    <3> QED
      BY <1>1, <3>2, <3>4
  <2> QED
    BY <2>2, <2>3
<1> QED
  BY <1>5, <1>7, <1>8 DEF SInv

\* The window has a task, this one or that.
LEMMA SoundPipe ==
  ASSUME IInv, SInv, NEW t \in Terminal, Pipe(t) \/ WaitFinish(t)
  PROVE  SInv'
<1>1. /\ pc[t] \in {"pipe", "wait"} /\ \E p \in {"app", "loop"} : Goto(t, p)
      /\ \E v : layer_task_map' = Routed(layer_task_map, layer_id_[t], v)
      /\ UNCHANGED <<layers_, layer_stack_, active_layer_, layer_id_, held, opened>>
  BY DEF Pipe, WaitFinish, screen
<1>2. t \in Task
  BY DEF Task
<1>3. layer_id_[t] \in layers_ \ Fixed /\ pc[t] \notin Gone
  BY <1>1, <1>2 DEF SInv, Alive, Apart, Gone
<1>4. DOMAIN layer_task_map' = layers_' \ Fixed
  BY <1>1, <1>3 DEF SInv, Screen, Routed
<1>5. Screen'
  BY <1>1, <1>4 DEF SInv, Screen, Stacked
<1>6. pc'[t] \in {"app", "loop"} /\ \A u \in Task \ {t} : pc'[u] = pc[u]
  BY <1>1, <1>2 DEF IInv, Types, Goto
<1>7. Apart'
  BY <1>1, <1>6 DEF SInv, Apart
<1>8. \A u \in Terminal : pc[u] \in Gone => pc'[u] \in Gone
  BY <1>3, <1>6 DEF Task
<1>9. Alive'
  BY <1>1, <1>8, StillAlive
<1> QED
  BY <1>5, <1>7, <1>9 DEF SInv
-----------------------------------------------------------------------------
(* Theorems *)

LEMMA KeepsSound == IInv /\ SInv /\ [Next]_vars => SInv'
<1> SUFFICES ASSUME IInv, SInv, [Next]_vars
             PROVE  SInv'
  OBVIOUS
<1>1. CASE MainStep
  BY <1>1, SoundMain
<1>2. CASE \E t \in Task : TaskStep(t) \/ AppStep(t)
  <2>1. PICK t \in Task : TaskStep(t) \/ AppStep(t)
    BY <1>2
  <2>2. CASE TaskStep(t)
    BY <2>2, SoundStart, SoundPrompt, SoundCloseLayer, SoundApp, SoundPipe DEF TaskStep
  <2>3. CASE AppStep(t)
    BY <2>3, SoundOpenWindow, SoundApp DEF AppStep
  <2> QED
    BY <2>1, <2>2, <2>3
<1>3. CASE UNCHANGED vars
  <2>1. UNCHANGED <<layers_, layer_stack_, active_layer_, layer_task_map, layer_id_, opened, held, pc>>
    BY <1>3 DEF vars, screen
  <2> QED
    BY <2>1, Stood
<1> QED
  BY <1>1, <1>2, <1>3 DEF Next

THEOREM SoundInvariant == Spec => []SInv
BY InitSound, KeepsSound, Invariant, PTL DEF Spec

\* However many windows are opened, clicked and closed by however many tasks,
\* the stack holds every layer once, between the desktop and the pointer; the
\* active layer exists and is in front, and every window has a task
\* (layer.cpp:133-164, 231-252, 333-338).
THEOREM StackSoundCorrect == Spec => []StackSound
<1>1. Stacked(layer_stack_) => /\ IsInjective(layer_stack_)
                               /\ Head(layer_stack_) = Desktop /\ Last(layer_stack_) = mouse_layer_
  <2> SUFFICES ASSUME Stacked(layer_stack_)
               PROVE  Head(layer_stack_) = Desktop /\ Last(layer_stack_) = mouse_layer_
    BY DEF Stacked
  <2>1. Head(layer_stack_) = layer_stack_[1]
    BY HeadTailProperties DEF Stacked
  <2> QED
    BY <2>1 DEF Stacked, Last
<1>2. SInv => StackSound
  BY <1>1 DEF SInv, Screen, StackSound
<1> QED
  BY <1>2, SoundInvariant, PTL

-----------------------------------------------------------------------------
(* Who knows which window is active *)

\* The last message of q that tells whether a window is active is
\* WindowActive(a); if there is none, light says the same.
IsActive(m) == m \in {WindowActive(0), WindowActive(1)}

Foretold(q, light, a) ==
  /\ \A i \in 1..Len(q) :
       IsActive(q[i]) /\ (\A j \in 1..Len(q) : j > i => ~IsActive(q[j])) => q[i] = WindowActive(a)
  /\ (\A i \in 1..Len(q) : ~IsActive(q[i])) => light = (a = 1)

ActiveArg(t) == IF active_layer_ = layer_id_[t] THEN 1 ELSE 0

AppPlace == {"pipe", "wait", "app", "app close", "draw"}

\* A terminal that has run no command has one window, and gets every message
\* about it.
Fresh(t) ==
  /\ pc[t] \notin AppPlace
  /\ \A l : TaskOf(layer_task_map, l) = t => l = layer_id_[t]
  /\ pc[t] = "loop" => /\ TaskOf(layer_task_map, layer_id_[t]) = t
                       /\ Foretold(inbox[t], lit[t], ActiveArg(t))

FInv == lit \in [Task -> BOOLEAN] /\ \A t \in Terminal \ ran : Fresh(t)

LEMMA ActiveMessages ==
  /\ \A a \in 0..1 : IsActive(WindowActive(a)) /\ WindowActive(a) \in Message
  /\ \A m : IsActive(m) => \E a \in 0..1 : m = WindowActive(a)
  /\ \A a, c : WindowActive(a) = WindowActive(c) => a = c
  /\ ~IsActive(Key) /\ \A l : ~IsActive(WindowClose(l))
<1>1. \A a \in 0..1 : a = 0 \/ a = 1
  OBVIOUS
<1>2. \A a, c : WindowActive(a) = WindowActive(c) => a = c
  BY DEF WindowActive
<1>3. ~IsActive(Key) /\ \A l : ~IsActive(WindowClose(l))
  BY DEF IsActive, WindowActive, WindowClose, Key
<1> QED
  BY <1>1, <1>2, <1>3, Messages DEF IsActive

LEMMA ForetoldComes ==
  ASSUME NEW q \in Seq(Message), NEW m \in Message, NEW light, NEW a
  PROVE  /\ ~IsActive(m) /\ Foretold(q, light, a) => Foretold(Append(q, m), light, a)
         /\ IsActive(m) /\ m = WindowActive(a) => Foretold(Append(q, m), light, a)
<1>1. PICK n \in Nat : n = Len(q)
  OBVIOUS
<1>2. PICK r : r = Append(q, m)
  OBVIOUS
<1>3. Len(r) = n + 1 /\ r[n + 1] = m /\ \A i \in 1..n : r[i] = q[i]
  BY <1>1, <1>2, AppendProperties
<1>4. /\ n + 1 \in 1..(n + 1)
      /\ \A i \in 1..(n + 1) : i \in 1..n \/ i = n + 1
      /\ \A i \in 1..n : i \in 1..(n + 1) /\ n + 1 > i
  OBVIOUS
<1>5. ASSUME ~IsActive(m), Foretold(q, light, a) PROVE Foretold(r, light, a)
  <2>1. ASSUME NEW i \in 1..(n + 1), IsActive(r[i]), \A j \in 1..(n + 1) : j > i => ~IsActive(r[j])
        PROVE  r[i] = WindowActive(a)
    <3>1. i \in 1..n
      BY <1>3, <1>4, <1>5, <2>1
    <3>2. IsActive(q[i]) /\ \A j \in 1..n : j > i => ~IsActive(q[j])
      BY <1>3, <1>4, <2>1, <3>1
    <3> QED
      BY <1>1, <1>3, <1>5, <3>1, <3>2 DEF Foretold
  <2>2. ASSUME \A i \in 1..(n + 1) : ~IsActive(r[i]) PROVE light = (a = 1)
    <3>1. \A i \in 1..n : ~IsActive(q[i])
      BY <1>3, <1>4, <2>2
    <3> QED
      BY <1>1, <1>5, <3>1 DEF Foretold
  <2> QED
    BY <1>3, <2>1, <2>2 DEF Foretold
<1>6. ASSUME IsActive(m), m = WindowActive(a) PROVE Foretold(r, light, a)
  <2>1. ASSUME NEW i \in 1..(n + 1), IsActive(r[i]), \A j \in 1..(n + 1) : j > i => ~IsActive(r[j])
        PROVE  r[i] = WindowActive(a)
    BY <1>3, <1>4, <1>6, <2>1
  <2>2. ~(\A i \in 1..(n + 1) : ~IsActive(r[i]))
    BY <1>3, <1>4, <1>6
  <2> QED
    BY <1>3, <2>1, <2>2 DEF Foretold
<1> QED
  BY <1>2, <1>5, <1>6

LEMMA ForetoldGoes ==
  ASSUME NEW q \in Seq(Message), q # <<>>, NEW light, NEW a, Foretold(q, light, a)
  PROVE  /\ ~IsActive(Head(q)) => Foretold(Tail(q), light, a)
         /\ \A c, new : Head(q) = WindowActive(c) /\ c \in 0..1 /\ new = (c = 1) => Foretold(Tail(q), new, a)
<1>1. PICK n \in Nat : n = Len(q)
  OBVIOUS
<1>2. PICK r : r = Tail(q)
  OBVIOUS
<1>3. n >= 1 /\ Len(r) = n - 1 /\ q[1] = Head(q) /\ \A i \in 1..(n - 1) : r[i] = q[i + 1]
  BY <1>1, <1>2, HeadTailProperties, EmptySeq
<1>4. /\ 1 \in 1..n
      /\ \A i \in 1..(n - 1) : i + 1 \in 1..n
      /\ \A i \in 1..n : i = 1 \/ i - 1 \in 1..(n - 1)
      /\ \A i \in 1..n : (i - 1) + 1 = i
      /\ \A i \in 1..(n - 1), j \in 1..n : j > i + 1 => j - 1 \in 1..(n - 1) /\ j - 1 > i
      /\ \A j \in 1..n : j > 1 => j - 1 \in 1..(n - 1)
  BY <1>3
<1>5. ASSUME NEW i \in 1..(n - 1), IsActive(r[i]), \A j \in 1..(n - 1) : j > i => ~IsActive(r[j])
      PROVE  r[i] = WindowActive(a)
  <2>1. IsActive(q[i + 1]) /\ i + 1 \in 1..n
    BY <1>3, <1>4, <1>5
  <2>2. \A j \in 1..n : j > i + 1 => ~IsActive(q[j])
    BY <1>3, <1>4, <1>5
  <2>3. q[i + 1] = WindowActive(a)
    BY <1>1, <2>1, <2>2 DEF Foretold
  <2> QED
    BY <1>3, <2>3
<1>6. ASSUME \A i \in 1..(n - 1) : ~IsActive(r[i]) PROVE \A j \in 1..n : j > 1 => ~IsActive(q[j])
  BY <1>3, <1>4, <1>6
<1>7. ASSUME ~IsActive(Head(q)) PROVE Foretold(r, light, a)
  <2>1. ASSUME \A i \in 1..(n - 1) : ~IsActive(r[i]) PROVE light = (a = 1)
    <3>1. \A j \in 1..n : ~IsActive(q[j])
      BY <1>3, <1>4, <1>6, <1>7, <2>1
    <3> QED
      BY <1>1, <3>1 DEF Foretold
  <2> QED
    BY <1>3, <1>5, <2>1 DEF Foretold
<1>8. ASSUME NEW c, NEW new, Head(q) = WindowActive(c), c \in 0..1, new = (c = 1)
      PROVE  Foretold(r, new, a)
  <2>1. ASSUME \A i \in 1..(n - 1) : ~IsActive(r[i]) PROVE new = (a = 1)
    <3>1. IsActive(q[1]) /\ \A j \in 1..n : j > 1 => ~IsActive(q[j])
      BY <1>3, <1>6, <1>8, <2>1, ActiveMessages
    <3>2. q[1] = WindowActive(a)
      BY <1>1, <1>4, <3>1 DEF Foretold
    <3>3. a = c
      BY <1>3, <1>8, <3>2, ActiveMessages
    <3> QED
      BY <1>8, <3>3
  <2> QED
    BY <1>3, <1>5, <2>1 DEF Foretold
<1> QED
  BY <1>2, <1>7, <1>8

\* A message reaches the mailbox of t if it is for t.
LEMMA PostReaches ==
  ASSUME NEW box \in [Task -> Seq(Message)], NEW t \in Task, pc[t] # "done", NEW u, NEW m \in Message,
         u # NoTask => u \in Task
  PROVE  /\ Post(box, u, m) \in [Task -> Seq(Message)]
         /\ u = t => Post(box, u, m)[t] = Append(box[t], m)
         /\ u # t => Post(box, u, m)[t] = box[t]
<1>1. \A v \in Task : Append(box[v], m) \in Seq(Message)
  BY AppendProperties
<1>2. t # NoTask
  BY Constants
<1> QED
  BY <1>1, <1>2 DEF Post

\* To activate a layer tells the terminal t, whose window is l, what it is to know.
LEMMA ActivateForetells ==
  ASSUME NEW box \in [Task -> Seq(Message)], NEW t \in Task, pc[t] # "done", NEW map, Mapped(map),
         NEW l, l # 0, TaskOf(map, l) = t, \A k : TaskOf(map, k) = t => k = l, NEW s, NEW layer, NEW light,
         Foretold(box[t], light, IF active_layer_ = l THEN 1 ELSE 0)
  PROVE  /\ Activate(s, layer, map, box).inbox \in [Task -> Seq(Message)]
         /\ Foretold(Activate(s, layer, map, box).inbox[t], light, IF layer = l THEN 1 ELSE 0)
<1>1. \A k : TaskOf(map, k) # NoTask => TaskOf(map, k) \in Task
  BY DEF TaskOf, Mapped
<1>2. ASSUME NEW b \in [Task -> Seq(Message)], NEW k, NEW a \in 0..1
      PROVE  LET c == SendWindowActiveMessage(b, map, k, a)
             IN /\ c \in [Task -> Seq(Message)]
                /\ k = l => c[t] = Append(b[t], WindowActive(a))
                /\ k # l => c[t] = b[t]
  <2>1. WindowActive(a) \in Message
    BY ActiveMessages
  <2>2. CASE k = 0
    BY <2>2 DEF SendWindowActiveMessage
  <2>3. CASE k # 0
    <3>1. SendWindowActiveMessage(b, map, k, a) = Post(b, TaskOf(map, k), WindowActive(a))
      BY <2>3 DEF SendWindowActiveMessage
    <3>2. k = l <=> TaskOf(map, k) = t
      OBVIOUS
    <3>3. PICK u : u = TaskOf(map, k)
      OBVIOUS
    <3>4. u # NoTask => u \in Task
      BY <1>1, <3>3
    <3>5. /\ Post(b, u, WindowActive(a)) \in [Task -> Seq(Message)]
          /\ u = t => Post(b, u, WindowActive(a))[t] = Append(b[t], WindowActive(a))
          /\ u # t => Post(b, u, WindowActive(a))[t] = b[t]
      BY <2>1, <3>4, PostReaches
    <3> QED
      BY <3>1, <3>2, <3>3, <3>5
  <2> QED
    BY <2>2, <2>3
<1>3. PICK told : told = SendWindowActiveMessage(box, map, active_layer_, 0)
  OBVIOUS
<1>4. /\ told \in [Task -> Seq(Message)]
      /\ active_layer_ = l => told[t] = Append(box[t], WindowActive(0))
      /\ active_layer_ # l => told[t] = box[t]
  <2>1. 0 \in 0..1
    OBVIOUS
  <2> QED
    BY <1>2, <1>3, <2>1
<1>5. WindowActive(0) \in Message /\ IsActive(WindowActive(0))
      /\ WindowActive(1) \in Message /\ IsActive(WindowActive(1))
  <2>1. 0 \in 0..1 /\ 1 \in 0..1
    OBVIOUS
  <2> QED
    BY <2>1, ActiveMessages
<1>6. Foretold(told[t], light, 0)
  <2>1. CASE active_layer_ = l
    BY <1>4, <1>5, <2>1, ForetoldComes
  <2>2. CASE active_layer_ # l
    BY <1>4, <2>2
  <2> QED
    BY <2>1, <2>2
<1>7. PICK new : new = SendWindowActiveMessage(told, map, layer, 1)
  OBVIOUS
<1>8. /\ new \in [Task -> Seq(Message)]
      /\ layer = l => new[t] = Append(told[t], WindowActive(1))
      /\ layer # l => new[t] = told[t]
  <2>1. 1 \in 0..1
    OBVIOUS
  <2> QED
    BY <1>2, <1>4, <1>7, <2>1
<1>9. Foretold(new[t], light, IF layer = l THEN 1 ELSE 0)
  <2>1. CASE layer = l
    <3>1. Foretold(Append(told[t], WindowActive(1)), light, 1)
      BY <1>4, <1>5, ForetoldComes
    <3> QED
      BY <1>8, <2>1, <3>1
  <2>2. CASE layer # l
    BY <1>6, <1>8, <2>2
  <2> QED
    BY <2>1, <2>2
<1>10. Activate(s, layer, map, box).inbox = IF layer = active_layer_ THEN box ELSE new
  BY <1>3, <1>7 DEF Activate
<1> QED
  BY <1>8, <1>9, <1>10

\* A window that is activated first tells its task so.
LEMMA ActivateNew ==
  ASSUME NEW box \in [Task -> Seq(Message)], NEW t \in Task, pc[t] # "done", NEW map, Mapped(map),
         NEW l, l # 0, TaskOf(map, l) = t, active_layer_ # l, NEW s, NEW light
  PROVE  Foretold(Activate(s, l, map, box).inbox[t], light, 1)
<1>1. \A k : TaskOf(map, k) # NoTask => TaskOf(map, k) \in Task
  BY DEF TaskOf, Mapped
<1>2. WindowActive(0) \in Message /\ WindowActive(1) \in Message /\ IsActive(WindowActive(1))
  <2>1. 0 \in 0..1 /\ 1 \in 0..1
    OBVIOUS
  <2> QED
    BY <2>1, ActiveMessages
<1>3. PICK told : told = SendWindowActiveMessage(box, map, active_layer_, 0)
  OBVIOUS
<1>4. told \in [Task -> Seq(Message)]
  <2>1. PICK u : u = TaskOf(map, active_layer_)
    OBVIOUS
  <2>2. u # NoTask => u \in Task
    BY <1>1, <2>1
  <2>3. Post(box, u, WindowActive(0)) \in [Task -> Seq(Message)]
    BY <1>2, <2>2, PostReaches
  <2> QED
    BY <1>3, <2>1, <2>3 DEF SendWindowActiveMessage
<1>5. Activate(s, l, map, box).inbox = Post(told, t, WindowActive(1))
  BY <1>3 DEF Activate, SendWindowActiveMessage
<1>6. Post(told, t, WindowActive(1))[t] = Append(told[t], WindowActive(1))
  BY <1>4, Constants DEF Post
<1>7. Foretold(Append(told[t], WindowActive(1)), light, 1)
  BY <1>2, <1>4, ForetoldComes
<1> QED
  BY <1>5, <1>6, <1>7

\* Other messages leave it at that.
LEMMA PostForetells ==
  ASSUME NEW box \in [Task -> Seq(Message)], NEW t \in Task, NEW u, NEW m \in Message, ~IsActive(m),
         u # NoTask => u \in Task, NEW light, NEW a, Foretold(box[t], light, a)
  PROVE  Foretold(Post(box, u, m)[t], light, a)
<1>1. CASE u = t /\ u # NoTask /\ pc[u] # "done"
  <2>1. Post(box, u, m)[t] = Append(box[t], m)
    BY <1>1 DEF Post
  <2>2. Foretold(Append(box[t], m), light, a)
    BY ForetoldComes
  <2> QED
    BY <2>1, <2>2
<1>2. CASE ~(u = t /\ u # NoTask /\ pc[u] # "done")
  <2>1. Post(box, u, m)[t] = box[t]
    BY <1>2 DEF Post
  <2> QED
    BY <2>1
<1> QED
  BY <1>1, <1>2

\* What is known of a terminal at its prompt.
LEMMA Prompted ==
  ASSUME IInv, NEW t \in Terminal, Fresh(t), pc[t] = "loop"
  PROVE  /\ t \in Task /\ pc[t] # "done"
         /\ layer_id_[t] # 0 /\ layer_id_[t] \in DOMAIN layer_task_map
         /\ layer_task_map[layer_id_[t]] = t /\ layer_id_[t] \in Nat /\ layer_id_[t] <= latest_id_
<1>1. t \in Task /\ t # NoTask
  BY Constants DEF Task
<1>2. pc[t] \notin Early
  BY DEF Early
<1>3. TaskOf(layer_task_map, layer_id_[t]) = t
  BY DEF Fresh
<1> QED
  BY <1>1, <1>2, <1>3 DEF TaskOf, IInv, Types, Terminals, GivenOut

\* A terminal that stays where it is, and has no new window.
LEMMA Stays ==
  ASSUME NEW t \in Terminal, Fresh(t), pc'[t] = pc[t], layer_id_'[t] = layer_id_[t], lit'[t] = lit[t],
         \A l : TaskOf(layer_task_map', l) = t => TaskOf(layer_task_map, l) = t,
         pc[t] = "loop" =>
           /\ TaskOf(layer_task_map', layer_id_[t]) = t
           /\ Foretold(inbox'[t], lit[t], IF active_layer_' = layer_id_[t] THEN 1 ELSE 0)
  PROVE  Fresh(t)'
<1>1. \A l : TaskOf(layer_task_map, l)' = TaskOf(layer_task_map', l)
  BY DEF TaskOf
<1>2. pc[t] = "loop" => Foretold(inbox[t], lit[t], ActiveArg(t))'
  BY DEF Foretold, ActiveArg
<1> QED
  BY <1>1, <1>2 DEF Fresh

\* ... of which nothing is told.
LEMMA StaysAlone ==
  ASSUME NEW t \in Terminal, Fresh(t), pc'[t] = pc[t], inbox'[t] = inbox[t],
         UNCHANGED <<layer_id_, lit, layer_task_map, active_layer_>>
  PROVE  Fresh(t)'
<1>1. pc[t] = "loop" =>
        /\ TaskOf(layer_task_map', layer_id_[t]) = t
        /\ Foretold(inbox'[t], lit[t], IF active_layer_' = layer_id_[t] THEN 1 ELSE 0)
  BY DEF Fresh, ActiveArg
<1> QED
  BY <1>1, Stays

\* One that leaves its prompt, or has not come to it.
LEMMA Leaves ==
  ASSUME NEW t \in Terminal, Fresh(t), layer_id_'[t] = layer_id_[t],
         pc'[t] \notin AppPlace, pc'[t] # "loop",
         \A l : TaskOf(layer_task_map', l) = t => TaskOf(layer_task_map, l) = t
  PROVE  Fresh(t)'
<1>1. \A l : TaskOf(layer_task_map, l)' = TaskOf(layer_task_map', l)
  BY DEF TaskOf
<1>2. \A l : TaskOf(layer_task_map, l)' = t => l = layer_id_'[t]
  BY <1>1 DEF Fresh
<1> QED
  BY <1>2 DEF Fresh

LEMMA FreshPress ==
  ASSUME IInv, NEW layer \in Range(layer_stack_), NEW region, Press(layer, region),
         NEW t \in Terminal, Fresh(t)
  PROVE  Fresh(t)'
<1>1. PICK target : target = IF layer \in Fixed \ Box THEN 0 ELSE layer
  OBVIOUS
<1>2. PICK box : box = Activate(layer_stack_, target, layer_task_map, inbox).inbox
  OBVIOUS
<1>3. PICK u : u = TaskOf(layer_task_map, layer)
  OBVIOUS
<1>4. /\ inbox' = (IF target > 0 /\ region = "kCloseButton" /\ drag_layer_id_ = 0
                   THEN Post(box, u, WindowClose(layer)) ELSE box)
      /\ active_layer_' = target /\ UNCHANGED <<layer_task_map, pc, layer_id_, lit>>
  BY <1>1, <1>2, <1>3 DEF Press
<1>5. CASE pc[t] = "loop"
  <2>1. /\ t \in Task /\ pc[t] # "done" /\ layer_id_[t] # 0
        /\ TaskOf(layer_task_map, layer_id_[t]) = t
        /\ \A k : TaskOf(layer_task_map, k) = t => k = layer_id_[t]
        /\ Foretold(inbox[t], lit[t], IF active_layer_ = layer_id_[t] THEN 1 ELSE 0)
    BY <1>5, Prompted DEF Fresh, ActiveArg
  <2>2. inbox \in [Task -> Seq(Message)] /\ Mapped(layer_task_map)
    BY DEF IInv, Types
  <2>3. /\ box \in [Task -> Seq(Message)]
        /\ Foretold(box[t], lit[t], IF target = layer_id_[t] THEN 1 ELSE 0)
    BY <1>2, <2>1, <2>2, ActivateForetells
  <2>4. CASE u = NoTask
    <3>1. inbox' = box
      BY <1>4, <2>4 DEF Post
    <3> QED
      BY <1>4, <1>5, <2>1, <2>3, <3>1, Stays
  <2>5. CASE u # NoTask
    <3>1. layer \in DOMAIN layer_task_map /\ u \in Task
      BY <1>3, <2>2, <2>5 DEF TaskOf, Mapped
    <3>2. layer \in Layer
      BY <3>1, Constants DEF IInv, Types, GivenOut, Layer
    <3>3. WindowClose(layer) \in Message /\ ~IsActive(WindowClose(layer))
      BY <3>2, Messages, ActiveMessages
    <3>4. Foretold(Post(box, u, WindowClose(layer))[t], lit[t], IF target = layer_id_[t] THEN 1 ELSE 0)
      BY <2>1, <2>3, <3>1, <3>3, PostForetells
    <3>5. Foretold(inbox'[t], lit[t], IF active_layer_' = layer_id_[t] THEN 1 ELSE 0)
      BY <1>4, <2>3, <3>4
    <3> QED
      BY <1>4, <1>5, <2>1, <3>5, Stays
  <2> QED
    BY <2>4, <2>5
<1>6. CASE pc[t] # "loop"
  BY <1>4, <1>6, Stays
<1> QED
  BY <1>5, <1>6

LEMMA FreshMain ==
  ASSUME IInv, Drag \/ Release \/ PushKey \/ \E u \in Terminal : NewTerminal(u),
         NEW t \in Terminal, Fresh(t)
  PROVE  Fresh(t)'
<1>1. CASE Drag \/ Release
  <2>1. UNCHANGED <<pc, inbox, layer_id_, lit, layer_task_map, active_layer_>>
    BY <1>1 DEF Drag, Release, screen
  <2> QED
    BY <2>1, StaysAlone
<1>2. CASE PushKey
  <2>1. PICK u : u = TaskOf(layer_task_map, active_layer_)
    OBVIOUS
  <2>2. /\ inbox' = Post(inbox, u, Key)
        /\ UNCHANGED <<pc, layer_id_, lit, layer_task_map, active_layer_>>
    BY <1>2, <2>1 DEF PushKey, screen
  <2>3. (u # NoTask => u \in Task) /\ inbox \in [Task -> Seq(Message)] /\ t \in Task
    BY <2>1 DEF TaskOf, IInv, Types, Mapped, Task
  <2>4. Key \in Message /\ ~IsActive(Key)
    BY Messages, ActiveMessages
  <2>5. ASSUME pc[t] = "loop"
        PROVE  /\ TaskOf(layer_task_map, layer_id_[t]) = t
               /\ Foretold(inbox'[t], lit[t], IF active_layer_ = layer_id_[t] THEN 1 ELSE 0)
    <3>1. Foretold(inbox[t], lit[t], IF active_layer_ = layer_id_[t] THEN 1 ELSE 0)
      BY <2>5 DEF Fresh, ActiveArg
    <3> QED
      BY <2>2, <2>3, <2>4, <2>5, <3>1, PostForetells DEF Fresh
  <2> QED
    BY <2>2, <2>5, Stays
<1>3. CASE \E u \in Terminal : NewTerminal(u)
  <2>1. PICK u \in Terminal : NewTerminal(u)
    BY <1>3
  <2>2. /\ pc[u] = "none" /\ pc' = [pc EXCEPT ![u] = "new"]
        /\ UNCHANGED <<inbox, layer_id_, lit, layer_task_map, active_layer_>>
    BY <2>1 DEF NewTerminal, screen
  <2>3. CASE u = t
    <3>1. pc'[t] \notin AppPlace /\ pc'[t] # "loop"
      BY <2>2, <2>3 DEF IInv, Types, Task, AppPlace
    <3> QED
      BY <2>2, <3>1, Leaves
  <2>4. CASE u # t
    <3>1. pc'[t] = pc[t]
      BY <2>2, <2>4
    <3> QED
      BY <2>2, <3>1, StaysAlone
  <2> QED
    BY <2>3, <2>4
<1> QED
  BY <1>1, <1>2, <1>3

LEMMA AppPlaces ==
  /\ "new" \notin AppPlace /\ "close" \notin AppPlace /\ "finish" \notin AppPlace /\ "done" \notin AppPlace
  /\ "pipe" \in AppPlace /\ "wait" \in AppPlace /\ "app" \in AppPlace
  /\ "app close" \in AppPlace /\ "draw" \in AppPlace
  BY DEF AppPlace

\* A task that goes on elsewhere does not change what t knows.
LEMMA Others ==
  ASSUME IInv, NEW u \in Task, NEW t \in Terminal, t # u, Fresh(t), pc'[t] = pc[t],
         \A v \in Task \ {u} : inbox'[v] = inbox[v],
         UNCHANGED <<layer_id_, lit, layer_task_map, active_layer_>>
  PROVE  Fresh(t)'
BY StaysAlone DEF Task

LEMMA FreshTakeKey ==
  ASSUME IInv, NEW u \in Task, TakeKey(u), NEW t \in Terminal \ ran', Fresh(t)
  PROVE  Fresh(t)'
<1>1. /\ pc[u] = "loop" /\ Receive(u, Key)
      /\ UNCHANGED <<layer_id_, lit, layer_task_map, active_layer_>>
  BY DEF TakeKey, screen
<1>2. /\ inbox \in [Task -> Seq(Message)] /\ inbox[u] # <<>> /\ Head(inbox[u]) = Key
      /\ inbox'[u] = Tail(inbox[u]) /\ \A v \in Task \ {u} : inbox'[v] = inbox[v]
  BY <1>1 DEF Receive, IInv, Types
<1>3. t \in Task /\ \A c \in Child : c # t
  BY Constants DEF Task
<1>4. CASE t = u
  <2>1. UNCHANGED pc
    BY <1>4 DEF TakeKey
  <2>2. Foretold(inbox[t], lit[t], IF active_layer_ = layer_id_[t] THEN 1 ELSE 0)
        /\ TaskOf(layer_task_map, layer_id_[t]) = t
    BY <1>1, <1>4 DEF Fresh, ActiveArg
  <2>3. ~IsActive(Head(inbox[t])) /\ inbox[t] \in Seq(Message) /\ inbox[t] # <<>>
    BY <1>2, <1>4, ActiveMessages
  <2>4. Foretold(Tail(inbox[t]), lit[t], IF active_layer_ = layer_id_[t] THEN 1 ELSE 0)
    BY <2>2, <2>3, ForetoldGoes
  <2> QED
    BY <1>1, <1>2, <1>4, <2>1, <2>2, <2>4, Stays
<1>5. CASE t # u
  <2>1. pc'[t] = pc[t]
    BY <1>3, <1>5 DEF TakeKey, Goto, IInv, Types
  <2> QED
    BY <1>1, <1>2, <1>5, <2>1, Others
<1> QED
  BY <1>4, <1>5

LEMMA FreshTakeActive ==
  ASSUME IInv, lit \in [Task -> BOOLEAN], NEW u \in Task, TakeActive(u), NEW t \in Terminal, Fresh(t)
  PROVE  Fresh(t)'
<1>1. PICK c \in 0..1 : Receive(u, WindowActive(c)) /\ lit' = [lit EXCEPT ![u] = (c = 1)]
  BY DEF TakeActive
<1>2. pc[u] = "loop" /\ UNCHANGED <<pc, layer_id_, layer_task_map, active_layer_>>
  BY DEF TakeActive, screen
<1>3. /\ inbox \in [Task -> Seq(Message)] /\ inbox[u] # <<>> /\ Head(inbox[u]) = WindowActive(c)
      /\ inbox'[u] = Tail(inbox[u]) /\ \A v \in Task \ {u} : inbox'[v] = inbox[v]
  BY <1>1 DEF Receive, IInv, Types
<1>4. t \in Task
  BY DEF Task
<1>5. CASE t = u
  <2>1. Foretold(inbox[t], lit[t], ActiveArg(t)) /\ TaskOf(layer_task_map, layer_id_[t]) = t
    BY <1>2, <1>5 DEF Fresh
  <2>2. lit'[t] = (c = 1)
    BY <1>1, <1>4, <1>5
  <2>3. Foretold(Tail(inbox[t]), lit'[t], ActiveArg(t))
    BY <1>3, <1>5, <2>1, <2>2, ForetoldGoes
  <2>4. Foretold(inbox[t], lit[t], ActiveArg(t))'
    BY <1>2, <1>3, <1>5, <2>3 DEF Foretold, ActiveArg
  <2>5. /\ TaskOf(layer_task_map, layer_id_[t])' = t
        /\ \A l : TaskOf(layer_task_map, l)' = TaskOf(layer_task_map, l)
    BY <1>2, <2>1 DEF TaskOf
  <2> QED
    BY <1>2, <2>4, <2>5 DEF Fresh
<1>6. CASE t # u
  <2>1. lit'[t] = lit[t] /\ inbox'[t] = inbox[t]
    BY <1>1, <1>3, <1>4, <1>6
  <2>2. pc[t] = "loop" =>
          /\ TaskOf(layer_task_map', layer_id_[t]) = t
          /\ Foretold(inbox'[t], lit[t], IF active_layer_' = layer_id_[t] THEN 1 ELSE 0)
    BY <1>2, <2>1 DEF Fresh, ActiveArg
  <2> QED
    BY <1>2, <2>1, <2>2, Stays
<1> QED
  BY <1>5, <1>6

\* TakeClose and Finish: the terminal is at its prompt no more.
LEMMA FreshGoes ==
  ASSUME IInv, NEW u \in Task, TakeClose(u) \/ Finish(u), NEW t \in Terminal, Fresh(t)
  PROVE  Fresh(t)'
<1>1. /\ UNCHANGED <<layer_id_, lit, layer_task_map, active_layer_>>
      /\ \A v \in Task \ {u} : inbox'[v] = inbox[v]
  <2>1. CASE TakeClose(u)
    BY <2>1 DEF TakeClose, Receive, screen, IInv, Types
  <2>2. CASE Finish(u)
    BY <2>2 DEF Finish, screen, IInv, Types
  <2> QED
    BY <2>1, <2>2
<1>2. PICK p \in {"close", "finish", "done"} : Goto(u, p)
  BY DEF TakeClose, Finish
<1>3. pc'[u] = p /\ \A v \in Task \ {u} : pc'[v] = pc[v]
  BY <1>2 DEF Goto, IInv, Types
<1>4. CASE t = u
  <2>1. p \notin AppPlace /\ p # "loop"
    BY <1>2, AppPlaces, Zenon
  <2> QED
    BY <1>1, <1>3, <1>4, <2>1, Leaves
<1>5. CASE t # u
  <2>1. pc'[t] = pc[t]
    BY <1>3, <1>5 DEF Task
  <2> QED
    BY <1>1, <1>5, <2>1, Others
<1> QED
  BY <1>4, <1>5

\* The steps of applications that make and remove no layer are another task's.
LEMMA FreshApp ==
  ASSUME IInv, NEW u \in Task, DoWinFunc(u) \/ Drawn(u) \/ CloseWindow(u) \/ ReadEvent(u) \/ EndApp(u),
         NEW t \in Terminal, Fresh(t)
  PROVE  Fresh(t)'
<1>1. /\ pc[u] \in {"app", "draw"} /\ UNCHANGED <<layer_id_, lit, layer_task_map, active_layer_>>
      /\ \A v \in Task \ {u} : inbox'[v] = inbox[v]
      /\ \A v \in Task \ {u} : pc'[v] = pc[v]
  <2>1. inbox \in [Task -> Seq(Message)] /\ pc \in [Task -> Place]
    BY DEF IInv, Types
  <2>2. CASE DoWinFunc(u)
    BY <2>1, <2>2 DEF DoWinFunc, Goto, screen
  <2>3. CASE Drawn(u)
    BY <2>1, <2>3 DEF Drawn, Goto, screen
  <2>4. CASE CloseWindow(u)
    <3>1. pc[u] = "app" /\ \E p : Goto(u, p)
      BY <2>4 DEF CloseWindow
    <3>2. UNCHANGED <<inbox, layer_id_, lit, layer_task_map, active_layer_>>
      BY <2>4 DEF CloseWindow, screen
    <3>3. \A v \in Task \ {u} : pc'[v] = pc[v]
      BY <2>1, <3>1 DEF Goto
    <3> QED
      BY <3>1, <3>2, <3>3
  <2>5. CASE ReadEvent(u)
    BY <2>1, <2>5 DEF ReadEvent, Receive, screen
  <2>6. CASE EndApp(u)
    BY <2>1, <2>6 DEF EndApp, Goto, screen
  <2> QED
    BY <2>2, <2>3, <2>4, <2>5, <2>6
<1>2. t # u
  <2>1. pc[t] \notin AppPlace
    BY DEF Fresh
  <2> QED
    BY <1>1, <2>1, AppPlaces, Zenon
<1>3. pc'[t] = pc[t]
  BY <1>1, <1>2 DEF Task
<1> QED
  BY <1>1, <1>2, <1>3, Others

\* The route of another window changes, and does not come to t.
LEMMA FreshPipe ==
  ASSUME IInv, NEW u \in Terminal, Pipe(u) \/ WaitFinish(u), NEW t \in Terminal, Fresh(t)
  PROVE  Fresh(t)'
<1>1. PICK v \in {u, NoTask} \cup Child :
        /\ pc[u] \in {"pipe", "wait"} /\ \E p : Goto(u, p)
        /\ layer_task_map' = Routed(layer_task_map, layer_id_[u], v)
        /\ UNCHANGED <<layer_id_, inbox, lit, active_layer_>>
  <2>1. reader[u] \in Child \cup {NoTask}
    BY DEF IInv, Types
  <2> QED
    BY <2>1 DEF Pipe, WaitFinish, screen
<1>2. t # u
  <2>1. pc[t] \notin AppPlace
    BY DEF Fresh
  <2> QED
    BY <1>1, <2>1, AppPlaces, Zenon
<1>3. t # v /\ t # NoTask /\ t \in Task /\ u \in Task
  BY <1>2, Constants DEF Task
<1>4. pc'[t] = pc[t]
  BY <1>1, <1>2 DEF Goto
<1>5. PICK k : k = layer_id_[u]
  OBVIOUS
<1>6. \A l : TaskOf(layer_task_map', l) = IF l = k THEN v ELSE TaskOf(layer_task_map, l)
  BY <1>1, <1>5 DEF Routed, TaskOf
<1>7. pc[t] = "loop" =>
        /\ TaskOf(layer_task_map', layer_id_[t]) = t
        /\ Foretold(inbox'[t], lit[t], IF active_layer_' = layer_id_[t] THEN 1 ELSE 0)
  <2> SUFFICES ASSUME pc[t] = "loop"
               PROVE  /\ TaskOf(layer_task_map', layer_id_[t]) = t
                      /\ Foretold(inbox'[t], lit[t], IF active_layer_' = layer_id_[t] THEN 1 ELSE 0)
    OBVIOUS
  <2>1. layer_id_[t] # 0
    BY Prompted
  <2>2. layer_id_[t] # k
    BY <1>2, <1>3, <1>5, <2>1 DEF IInv, Terminals
  <2> QED
    BY <1>1, <1>6, <2>2 DEF Fresh, ActiveArg
<1>8. \A l : TaskOf(layer_task_map', l) = t => TaskOf(layer_task_map, l) = t
  BY <1>3, <1>6
<1> QED
  BY <1>1, <1>4, <1>7, <1>8, Stays

\* A new layer whose messages, if it is to have any, go to u.
LEMMA FreshOpen ==
  ASSUME IInv, NEW u \in Task, Open(u) \/ OpenUntold(u), NEW t \in Terminal, t # u, Fresh(t),
         pc'[t] = pc[t], layer_id_'[t] = layer_id_[t], UNCHANGED lit
  PROVE  Fresh(t)'
<1>1. PICK id : id = latest_id_ + 1
  OBVIOUS
<1>2. PICK map : map = With(layer_task_map, id, u)
  OBVIOUS
<1>3. Mapped(layer_task_map) /\ inbox \in [Task -> Seq(Message)] /\ latest_id_ \in Nat
  BY DEF IInv, Types
<1>4. id \notin DOMAIN layer_task_map
  BY <1>1, <1>3 DEF IInv, GivenOut
<1>5. Mapped(map)
  BY <1>2, <1>3 DEF With, Mapped
<1>6. \A l : TaskOf(map, l) = IF l = id THEN u ELSE TaskOf(layer_task_map, l)
  BY <1>2, <1>4 DEF With, TaskOf
<1>7. /\ layer_task_map' = map /\ active_layer_' = id
      /\ \/ inbox' = Activate(layer_stack_, id, map, inbox).inbox
         \/ inbox' = Activate(layer_stack_, id, layer_task_map, inbox).inbox
  BY <1>1, <1>2 DEF Open, OpenUntold
<1>8. ASSUME pc[t] = "loop"
      PROVE  /\ TaskOf(layer_task_map', layer_id_[t]) = t
             /\ Foretold(inbox'[t], lit[t], IF active_layer_' = layer_id_[t] THEN 1 ELSE 0)
  <2>1. /\ t \in Task /\ pc[t] # "done" /\ layer_id_[t] # 0 /\ layer_id_[t] \in DOMAIN layer_task_map
        /\ TaskOf(layer_task_map, layer_id_[t]) = t
        /\ \A k : TaskOf(layer_task_map, k) = t => k = layer_id_[t]
        /\ Foretold(inbox[t], lit[t], IF active_layer_ = layer_id_[t] THEN 1 ELSE 0)
    BY <1>8, Prompted DEF Fresh, ActiveArg
  <2>2. /\ TaskOf(map, layer_id_[t]) = t
        /\ \A k : TaskOf(map, k) = t => k = layer_id_[t]
    BY <1>4, <1>6, <2>1
  <2>3. /\ Foretold(Activate(layer_stack_, id, layer_task_map, inbox).inbox[t], lit[t],
                    IF id = layer_id_[t] THEN 1 ELSE 0)
        /\ Foretold(Activate(layer_stack_, id, map, inbox).inbox[t], lit[t],
                    IF id = layer_id_[t] THEN 1 ELSE 0)
    BY <1>3, <1>5, <2>1, <2>2, ActivateForetells
  <2> QED
    BY <1>7, <2>2, <2>3
<1>9. \A l : TaskOf(layer_task_map', l) = t => TaskOf(layer_task_map, l) = t
  BY <1>6, <1>7
<1> QED
  BY <1>8, <1>9, Stays

\* A terminal that opens its window is told that it is the active one.
LEMMA FreshStart ==
  ASSUME IInv, SInv, NEW u \in Task, Start(u), NEW t \in Terminal, Fresh(t)
  PROVE  Fresh(t)'
<1>1. t \in Task /\ t \notin Child /\ t # NoTask
  BY Constants DEF Task
<1>2. UNCHANGED lit /\ pc[u] = "new"
  BY DEF Start
<1>3. CASE u \in Child
  <2>1. /\ Goto(u, "app") /\ u \notin Terminal /\ t # u
        /\ UNCHANGED <<layer_task_map, active_layer_, layer_id_, inbox>>
    BY <1>1, <1>3, Constants DEF Start, screen
  <2>2. pc'[t] = pc[t]
    BY <2>1 DEF Goto
  <2> QED
    BY <1>2, <2>1, <2>2, Others
<1>4. CASE u \in Terminal
  <2>1. /\ Open(u) /\ layer_id_' = [layer_id_ EXCEPT ![u] = latest_id_ + 1] /\ Goto(u, "loop")
    BY <1>4, Constants DEF Start
  <2>2. CASE t # u
    <3>1. pc'[t] = pc[t] /\ layer_id_'[t] = layer_id_[t]
      BY <2>1, <2>2 DEF Goto
    <3> QED
      BY <1>2, <2>1, <2>2, <3>1, FreshOpen
  <2>3. CASE t = u
    <3>1. PICK id : id = latest_id_ + 1
      OBVIOUS
    <3>2. PICK map : map = With(layer_task_map, id, t)
      OBVIOUS
    <3>3. Mapped(layer_task_map) /\ inbox \in [Task -> Seq(Message)] /\ latest_id_ \in Nat
      BY DEF IInv, Types
    <3>4. id \notin DOMAIN layer_task_map /\ id \notin layers_ /\ id # 0
      BY <3>1, <3>3 DEF IInv, GivenOut
    <3>5. Mapped(map)
      BY <1>1, <3>2, <3>3 DEF With, Mapped
    <3>6. \A l : TaskOf(map, l) = IF l = id THEN t ELSE TaskOf(layer_task_map, l)
      BY <3>2, <3>4 DEF With, TaskOf
    <3>7. /\ layer_task_map' = map /\ active_layer_' = id
          /\ inbox' = Activate(layer_stack_, id, map, inbox).inbox
      BY <2>1, <2>3, <3>1, <3>2 DEF Open
    <3>8. layer_id_'[t] = id /\ pc'[t] = "loop"
      BY <1>1, <2>1, <2>3, <3>1 DEF IInv, Types, Goto
    <3>9. \A l : TaskOf(layer_task_map, l) # t
      <4>1. layer_id_[t] = 0
        BY <1>1, <1>2, <2>3 DEF IInv, Terminals, Early
      <4>2. 0 \notin DOMAIN layer_task_map
        BY DEF IInv, GivenOut
      <4>3. \A l : TaskOf(layer_task_map, l) = t => l = 0
        BY <4>1 DEF Fresh
      <4>4. TaskOf(layer_task_map, 0) # t
        BY <1>1, <4>2 DEF TaskOf
      <4> QED
        BY <4>3, <4>4
    <3>10. active_layer_ # id
      <4>1. id \notin Fixed
        BY <2>1, <3>1, SoundMade
      <4> QED
        BY <3>4, <4>1, FixedLayers DEF SInv, Screen
    <3>11. pc[t] # "done"
      BY <1>2, <2>3
    <3>12. Foretold(Activate(layer_stack_, id, map, inbox).inbox[t], lit[t], 1)
      BY <1>1, <3>3, <3>4, <3>5, <3>6, <3>10, <3>11, ActivateNew
    <3>13. Foretold(inbox[t], lit[t], ActiveArg(t))'
      BY <1>2, <3>7, <3>8, <3>12 DEF Foretold, ActiveArg
    <3>14. \A l : TaskOf(layer_task_map, l)' = IF l = id THEN t ELSE TaskOf(layer_task_map, l)
      BY <3>6, <3>7 DEF TaskOf
    <3>15. pc'[t] \notin AppPlace
      BY <3>8 DEF AppPlace
    <3> QED
      BY <3>8, <3>9, <3>13, <3>14, <3>15 DEF Fresh
  <2> QED
    BY <2>2, <2>3
<1> QED
  BY <1>3, <1>4 DEF Task

\* No layer is active any more, and t is told so if it was its own.
LEMMA FreshCloseLayer ==
  ASSUME IInv, NEW u \in Task, CloseLayer(u), NEW t \in Terminal, Fresh(t)
  PROVE  Fresh(t)'
<1>1. PICK h : h = held[u]
  OBVIOUS
<1>2. /\ pc[u] \in {"close", "app close"} /\ Goto(u, IF pc[u] = "close" THEN "finish" ELSE "app")
      /\ active_layer_' = 0 /\ inbox' = Activate(layer_stack_, 0, layer_task_map, inbox).inbox
      /\ layer_task_map' = Without(layer_task_map, h) /\ UNCHANGED <<layer_id_, lit>>
  BY <1>1 DEF CloseLayer
<1>3. t \in Task /\ t # NoTask
  BY Constants DEF Task
<1>4. \A l : TaskOf(layer_task_map', l) = IF l = h THEN NoTask ELSE TaskOf(layer_task_map, l)
  BY <1>2 DEF Without, TaskOf
<1>5. \A l : TaskOf(layer_task_map', l) = t => TaskOf(layer_task_map, l) = t
  BY <1>3, <1>4
<1>6. CASE t = u
  <2>1. pc[t] = "close"
    BY <1>2, <1>6, AppPlaces DEF Fresh
  <2>2. pc'[t] = "finish"
    BY <1>2, <1>3, <1>6, <2>1 DEF Goto, IInv, Types
  <2>3. pc'[t] \notin AppPlace /\ pc'[t] # "loop"
    BY <2>2, AppPlaces
  <2> QED
    BY <1>2, <1>5, <2>3, Leaves
<1>7. CASE t # u
  <2>1. pc'[t] = pc[t]
    <3>1. \E p : Goto(u, p)
      BY <1>2
    <3> QED
      BY <1>7, <3>1 DEF Goto
  <2>2. ASSUME pc[t] = "loop"
        PROVE  /\ TaskOf(layer_task_map', layer_id_[t]) = t
               /\ Foretold(inbox'[t], lit[t], IF active_layer_' = layer_id_[t] THEN 1 ELSE 0)
    <3>1. /\ pc[t] # "done" /\ layer_id_[t] # 0
          /\ TaskOf(layer_task_map, layer_id_[t]) = t
          /\ \A k : TaskOf(layer_task_map, k) = t => k = layer_id_[t]
          /\ Foretold(inbox[t], lit[t], IF active_layer_ = layer_id_[t] THEN 1 ELSE 0)
      BY <2>2, Prompted DEF Fresh, ActiveArg
    <3>2. h # layer_id_[t]
      <4>1. SUFFICES ASSUME h = layer_id_[t] PROVE FALSE
        OBVIOUS
      <4>2. Own(t, h) /\ h # 0
        BY <3>1, <4>1 DEF Own
      <4>3. Own(u, h)
        BY <1>1, <4>2 DEF IInv, Owned
      <4> QED
        BY <1>3, <1>7, <4>2, <4>3, OneOwner DEF IInv
    <3>3. Foretold(Activate(layer_stack_, 0, layer_task_map, inbox).inbox[t], lit[t],
                   IF 0 = layer_id_[t] THEN 1 ELSE 0)
      <4>1. inbox \in [Task -> Seq(Message)] /\ Mapped(layer_task_map)
        BY DEF IInv, Types
      <4> QED
        BY <1>3, <3>1, <4>1, ActivateForetells
    <3> QED
      BY <1>2, <1>4, <3>1, <3>2, <3>3
  <2> QED
    BY <1>2, <1>5, <2>1, <2>2, Stays
<1> QED
  BY <1>6, <1>7

LEMMA InitFocus == Init => FInv
<1> SUFFICES ASSUME Init PROVE FInv
  OBVIOUS
<1>1. lit \in [Task -> BOOLEAN]
  BY DEF Init
<1>2. ASSUME NEW t \in Terminal PROVE Fresh(t)
  <2>1. pc[t] = "none" /\ DOMAIN layer_task_map = {} /\ t # NoTask
    BY Constants DEF Init, Task
  <2> QED
    BY <2>1 DEF Fresh, AppPlace, TaskOf
<1> QED
  BY <1>1, <1>2 DEF FInv

LEMMA KeepsFocus == IInv /\ SInv /\ FInv /\ [Next]_vars => FInv'
<1> SUFFICES ASSUME IInv, SInv, FInv, [Next]_vars
             PROVE  FInv'
  OBVIOUS
<1>1. ran \subseteq ran' /\ lit' \in [Task -> BOOLEAN]
  <2>1. lit \in [Task -> BOOLEAN]
    BY DEF FInv
  <2>2. CASE MainStep
    BY <2>1, <2>2 DEF MainStep, Press, Drag, Release, PushKey, NewTerminal
  <2>3. CASE \E u \in Task : TaskStep(u)
    BY <2>1, <2>3 DEF TaskStep, Start, TakeKey, TakeActive, TakeClose, CloseLayer, Finish, Drawn, Pipe,
       WaitFinish
  <2>4. CASE \E u \in Task : AppStep(u)
    BY <2>1, <2>4 DEF AppStep, OpenWindow, DoWinFunc, CloseWindow, ReadEvent, EndApp
  <2>5. CASE UNCHANGED vars
    BY <2>1, <2>5 DEF vars
  <2> QED
    BY <2>2, <2>3, <2>4, <2>5 DEF Next
<1>2. ASSUME NEW t \in Terminal, t \notin ran'
      PROVE  Fresh(t)'
  <2>1. Fresh(t)
    BY <1>1, <1>2 DEF FInv
  <2>2. CASE MainStep
    <3>1. \/ Drag \/ Release \/ PushKey \/ \E u \in Terminal : NewTerminal(u)
          \/ \E layer \in Range(layer_stack_), region \in {"kTitleBar", "kCloseButton", "kOther"} :
               Press(layer, region)
      BY <2>2 DEF MainStep
    <3> QED
      BY <2>1, <3>1, FreshMain, FreshPress
  <2>3. ASSUME NEW u \in Task, TaskStep(u)
        PROVE  Fresh(t)'
    <3>1. CASE Start(u) \/ CloseLayer(u)
      BY <2>1, <3>1, FreshStart, FreshCloseLayer
    <3>2. CASE TakeKey(u) \/ TakeActive(u)
      BY <1>2, <2>1, <3>2, FreshTakeKey, FreshTakeActive DEF FInv
    <3>3. CASE TakeClose(u) \/ Finish(u) \/ Drawn(u)
      BY <2>1, <3>3, FreshGoes, FreshApp
    <3>4. CASE u \in Terminal /\ (Pipe(u) \/ WaitFinish(u))
      BY <2>1, <3>4, FreshPipe
    <3> QED
      BY <2>3, <3>1, <3>2, <3>3, <3>4 DEF TaskStep
  <2>4. ASSUME NEW u \in Task, AppStep(u)
        PROVE  Fresh(t)'
    <3>1. CASE OpenWindow(u)
      <4>1. /\ pc[u] = "app" /\ OpenUntold(u) /\ UNCHANGED <<pc, layer_id_, lit>>
        BY <3>1 DEF OpenWindow
      <4>2. t # u
        BY <2>1, <4>1, AppPlaces DEF Fresh
      <4> QED
        BY <2>1, <4>1, <4>2, FreshOpen
    <3>2. CASE DoWinFunc(u) \/ CloseWindow(u) \/ ReadEvent(u) \/ EndApp(u)
      BY <2>1, <3>2, FreshApp
    <3> QED
      BY <2>4, <3>1, <3>2 DEF AppStep
  <2>5. CASE UNCHANGED vars
    <3>1. UNCHANGED <<pc, inbox, layer_id_, lit, layer_task_map, active_layer_>>
      BY <2>5 DEF vars, screen
    <3> QED
      BY <2>1, <3>1, StaysAlone
  <2> QED
    BY <2>2, <2>3, <2>4, <2>5 DEF Next
<1> QED
  BY <1>1, <1>2 DEF FInv

\* However many windows are opened, clicked and closed by however many tasks,
\* what a terminal that has run no command has been told, and is still to read,
\* says of its window whether it is the active one; with no message left, its
\* cursor blinks just when it gets the keys (terminal.cpp:851-859, 918,
\* layer.cpp:231-252).
THEOREM FocusKnownCorrect == Spec => []FocusKnown
<1>1. IInv /\ FInv => FocusKnown
  <2> SUFFICES ASSUME IInv, FInv, NEW t \in Terminal \ ran, pc[t] = "loop", inbox[t] = <<>>
               PROVE  lit[t] <=> active_layer_ = layer_id_[t]
    BY DEF FocusKnown
  <2>1. Foretold(<<>>, lit[t], ActiveArg(t))
    BY DEF FInv, Fresh
  <2>2. Len(<<>>) = 0
    BY EmptySeq
  <2>3. lit[t] = (ActiveArg(t) = 1)
    BY <2>1, <2>2 DEF Foretold
  <2>4. ActiveArg(t) = 1 <=> active_layer_ = layer_id_[t]
    BY DEF ActiveArg
  <2> QED
    BY <2>3, <2>4, Zenon
<1> QED
  BY <1>1, InitFocus, KeepsFocus, Invariant, SoundInvariant, PTL DEF Spec
=============================================================================

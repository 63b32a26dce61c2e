-------------------------- MODULE AllocatorsProof --------------------------
(***************************************************************************)
(* Proofs about FrameAllocator, for every memory map in ascending order,   *)
(* every number of frames and requests of any size.  What is given out was *)
(* available, and nothing is lost, whatever the interleaving of the calls, *)
(* a frame is given out twice only by a search that was overtaken, and the *)
(* first region with room is found but for what changed behind the search. *)
(*                                                                         *)
(* And about the other allocator, of clusters, in FAT: for every volume,   *)
(* every number of files and descriptors, and writes of any length that    *)
(* cross clusters or not, the chains of the files and of the directory are *)
(* sound.  The invariant names the chains: ch[c] is the sequence of the    *)
(* clusters of the chain that begins with c.                               *)
(* When no write crosses a cluster's end, FAT implements Files: what is    *)
(* read is what was written.                                               *)
(***************************************************************************)
EXTENDS FrameAllocator, FAT, FiniteSetTheorems, WellFoundedInduction, SequenceTheorems, TLAPS

\* The regions that a task may hold.
Regions == Nat \X (1..MaxFrames) \X (1..MaxOwned)

\* Nothing is allocated before InitializeMemoryManager has returned, and the
\* range ends where the available memory does.
Boot ==
  /\ ~booted => \A t \in Task : call[t].pc = "idle" /\ owned[t] = {}
  /\ booted => described = Len(memory_map) /\ range_end_ = available_end

\* The loop is between the descriptors that it has seen and the others.
Between ==
  \A k \in 1..Len(memory_map) :
     /\ k <= described /\ memory_map[k].available =>
          memory_map[k].start + memory_map[k].pages <= available_end
     /\ k > described => available_end <= memory_map[k].start

\* What is not marked, as far as the loop has come, is available.
UnmarkedAvailable == \A f \in Frame : f < available_end /\ ~alloc_map[f] => f \in Available

\* A search is inside the request, and has looked at available frames only.
Looked(t) ==
  LET c == call[t]
  IN c.pc = "scan" =>
       /\ c.num \in 1..MaxFrames /\ c.start >= range_begin_ /\ c.i <= c.num
       /\ \A f \in Region(c.start, c.i) : f \in Available

MapInv ==
  /\ TypeOK /\ Boot /\ Between /\ UnmarkedAvailable /\ OwnedAvailable /\ NothingLost
  /\ \A t \in Task : Looked(t)

\* What the model's types say of one descriptor, and of two.
LEMMA Descriptor ==
  ASSUME TypeOK
  PROVE  /\ Len(memory_map) \in Nat /\ described \in Nat /\ available_end \in Nat
         /\ kFrameCount \in Nat /\ MaxFrames \in Nat /\ range_end_ \in Nat
         /\ \A k \in 1..Len(memory_map) :
              /\ memory_map[k].start \in Nat /\ memory_map[k].pages \in Nat
              /\ memory_map[k].available \in BOOLEAN
              /\ memory_map[k].start + memory_map[k].pages <= kFrameCount
         /\ \A j, k \in 1..Len(memory_map) :
              j < k => memory_map[j].start + memory_map[j].pages <= memory_map[k].start
<1>1. PICK map \in MemoryMaps : map = memory_map
  BY DEF TypeOK
<1>2. map \in Seq([start : Nat, pages : Nat, available : BOOLEAN])
  BY MapAssumption
<1>3. Len(map) \in Nat /\ \A k \in 1..Len(map) : map[k] \in [start : Nat, pages : Nat, available : BOOLEAN]
  <2>1. PICK S : S = [start : Nat, pages : Nat, available : BOOLEAN]
    OBVIOUS
  <2>2. map \in Seq(S)
    BY <1>2, <2>1
  <2>3. Len(map) \in Nat /\ \A k \in 1..Len(map) : map[k] \in S
    BY <2>2
  <2> QED
    BY <2>1, <2>3
<1>4. described \in Nat /\ available_end \in Nat /\ range_end_ \in Nat
      /\ kFrameCount \in Nat /\ MaxFrames \in Nat
  BY <1>1, <1>3, FrameAssumption DEF TypeOK
<1> QED
  BY <1>1, <1>3, <1>4, MapAssumption

LEMMA AvailableFrames ==
  ASSUME TypeOK
  PROVE  \A f : f \in Available <=>
           /\ f \in Frame
           /\ \E k \in 1..Len(memory_map) :
                memory_map[k].available /\ f \in Region(memory_map[k].start, memory_map[k].pages)
<1>1. PICK map \in MemoryMaps : map = memory_map
  BY DEF TypeOK
<1>2. map \in Seq([start : Nat, pages : Nat, available : BOOLEAN])
  BY MapAssumption
<1>3. DOMAIN memory_map = 1..Len(memory_map)
  BY <1>1, <1>2
<1>4. Range(memory_map) = { memory_map[k] : k \in 1..Len(memory_map) }
  BY <1>3 DEF Range
<1> QED
  BY <1>4 DEF Available

LEMMA MapInit == Init => MapInv
<1> SUFFICES ASSUME Init PROVE MapInv
  OBVIOUS
<1>1. kFrameCount \in Nat \ {0} /\ MaxFrames \in Nat
  BY FrameAssumption
<1>2. memory_map \in Seq([start : Nat, pages : Nat, available : BOOLEAN])
  BY MapAssumption DEF Init
<1>3. Len(memory_map) \in Nat
  BY <1>2
<1>4. TypeOK
  <2>1. Idle \in Call
    BY <1>1 DEF Idle, Call
  <2>2. /\ owned \in [Task -> SUBSET Regions] /\ overtaken \in [Task -> SUBSET Nat]
        /\ raced \in SUBSET Nat /\ freed \in [Task -> SUBSET Nat]
    BY DEF Init
  <2>3. /\ 0 \in 0..Len(memory_map) /\ 0 \in 0..kFrameCount /\ kFrameCount \in 0..kFrameCount
    BY <1>1, <1>3
  <2> QED
    BY <2>1, <2>2, <2>3 DEF Init, TypeOK, Regions
<1>5. Boot
  BY DEF Init, Boot, Idle
<1>6. Between
  BY <1>4, Descriptor DEF Init, Between
<1>7. UnmarkedAvailable /\ OwnedAvailable /\ NothingLost
  BY <1>1 DEF Init, UnmarkedAvailable, OwnedAvailable, NothingLost, Frame
<1>8. \A t \in Task : Looked(t)
  BY DEF Init, Looked, Idle
<1> QED
  BY <1>4, <1>5, <1>6, <1>7, <1>8 DEF MapInv

\* One turn of the loop marks frames that are not available, and leaves none
\* of the others behind it unmarked.
LEMMA DescribeMap ==
  ASSUME MapInv, Describe
  PROVE  MapInv'
<1>1. PICK d : d = memory_map[described + 1]
  OBVIOUS
<1>2. PICK k \in 1..Len(memory_map) : k = described + 1
  BY Descriptor DEF Describe, MapInv
<1>3. /\ TypeOK /\ d = memory_map[k] /\ described < Len(memory_map)
      /\ d.start \in Nat /\ d.pages \in Nat /\ d.available \in BOOLEAN
      /\ d.start + d.pages <= kFrameCount /\ kFrameCount \in Nat
      /\ available_end \in Nat /\ available_end <= d.start /\ described \in Nat
      /\ Len(memory_map) \in Nat
  BY <1>1, <1>2, Descriptor DEF MapInv, Between, Describe
<1>4. /\ described' = described + 1
      /\ UNCHANGED <<memory_map, booted, range_end_, call, owned, overtaken, raced, freed>>
  BY DEF Describe, ghosts
<1>5. alloc_map \in [Frame -> BOOLEAN]
  BY <1>3 DEF TypeOK
<1>6. /\ available_end' = IF d.available THEN d.start + d.pages ELSE available_end
      /\ alloc_map' = [f \in Frame |->
           \/ alloc_map[f] \/ (available_end <= f /\ f < d.start)
           \/ ~d.available /\ f \in Region(d.start, d.pages)]
  <2>1. PICK gap \in Nat : gap = d.start - available_end
    BY <1>3
  <2>2. PICK map : map = IF available_end < d.start
                         THEN MarkAllocated(alloc_map, available_end, gap) ELSE alloc_map
    OBVIOUS
  <2>3. IF d.available
        THEN available_end' = d.start + d.pages /\ alloc_map' = map
        ELSE alloc_map' = MarkAllocated(map, d.start, d.pages) /\ UNCHANGED available_end
    BY <1>1, <2>1, <2>2 DEF Describe
  <2>4. map = [f \in Frame |-> alloc_map[f] \/ (available_end <= f /\ f < d.start)]
    <3>1. \A f \in Frame : f \in Region(available_end, gap) <=> available_end <= f /\ f < d.start
      BY <1>3, <2>1 DEF Region, Frame
    <3>2. CASE available_end < d.start
      <4>1. map = [f \in Frame |-> alloc_map[f] \/ f \in Region(available_end, gap)]
        BY <1>5, <2>2, <3>2 DEF MarkAllocated
      <4> QED
        BY <3>1, <4>1
    <3>3. CASE ~(available_end < d.start)
      <4>1. \A f \in Frame : ~(available_end <= f /\ f < d.start)
        BY <1>3, <3>3 DEF Frame
      <4>2. map = alloc_map
        BY <2>2, <3>3
      <4> QED
        BY <1>5, <4>1, <4>2
    <3> QED
      BY <3>2, <3>3
  <2>5. CASE d.available
    BY <2>3, <2>4, <2>5
  <2>6. CASE ~d.available
    <3>1. alloc_map' = [f \in Frame |-> map[f] \/ f \in Region(d.start, d.pages)]
      BY <2>3, <2>4, <2>6 DEF MarkAllocated
    <3> QED
      BY <2>3, <2>4, <2>6, <3>1
  <2> QED
    BY <1>3, <2>5, <2>6
<1>7. ~booted /\ \A t \in Task : call[t].pc = "idle" /\ owned[t] = {}
  BY <1>3 DEF MapInv, Boot
<1>8. TypeOK'
  <2>1. described' \in 0..Len(memory_map) /\ available_end' \in 0..kFrameCount
    BY <1>3, <1>4, <1>6 DEF TypeOK
  <2>2. alloc_map' \in [Frame -> BOOLEAN]
    BY <1>5, <1>6
  <2> QED
    BY <1>3, <1>4, <2>1, <2>2 DEF TypeOK
<1>9. Boot'
  BY <1>4, <1>7 DEF Boot
<1>10. Between'
  <2>1. ASSUME NEW j \in 1..Len(memory_map)
        PROVE  /\ j <= described + 1 /\ memory_map[j].available =>
                    memory_map[j].start + memory_map[j].pages <= available_end'
               /\ j > described + 1 => available_end' <= memory_map[j].start
    <3>1. /\ j <= described /\ memory_map[j].available =>
               memory_map[j].start + memory_map[j].pages <= available_end
          /\ j > described => available_end <= memory_map[j].start
      BY DEF MapInv, Between
    <3>2. /\ memory_map[j].start \in Nat /\ memory_map[j].pages \in Nat
          /\ k < j => d.start + d.pages <= memory_map[j].start
      BY <1>3, Descriptor
    <3>3. available_end' \in Nat /\ available_end <= available_end'
      BY <1>3, <1>6
    <3>4. CASE j <= described
      BY <1>3, <3>1, <3>2, <3>3, <3>4
    <3>5. CASE j = k
      BY <1>2, <1>3, <1>6, <3>5
    <3>6. CASE j > described + 1
      BY <1>2, <1>3, <1>6, <3>1, <3>2, <3>6
    <3> QED
      BY <1>2, <1>3, <3>4, <3>5, <3>6
  <2> QED
    BY <1>4, <2>1 DEF Between
<1>11. Available' = Available
  BY <1>4 DEF Available
<1>12. UnmarkedAvailable'
  <2>1. ASSUME NEW f \in Frame, f < available_end', ~alloc_map'[f] PROVE f \in Available
    <3>1. ~alloc_map[f] /\ ~(available_end <= f /\ f < d.start) /\ f \in Nat
      BY <1>6, <2>1 DEF Frame
    <3>2. CASE f < available_end
      BY <3>1, <3>2 DEF MapInv, UnmarkedAvailable
    <3>3. CASE f >= available_end
      <4>1. d.available /\ f \in Region(d.start, d.pages)
        BY <1>3, <1>6, <2>1, <3>1, <3>3 DEF Region
      <4> QED
        BY <1>3, <2>1, <4>1, AvailableFrames
    <3> QED
      BY <1>3, <3>1, <3>2, <3>3
  <2> QED
    BY <1>11, <2>1 DEF UnmarkedAvailable
<1>13. OwnedAvailable'
  BY <1>4, <1>7 DEF OwnedAvailable
<1>14. NothingLost'
  <2>1. ASSUME NEW f \in Available PROVE ~alloc_map'[f]
    <3>1. PICK j \in 1..Len(memory_map) :
            memory_map[j].available /\ f \in Region(memory_map[j].start, memory_map[j].pages)
      BY <1>3, <2>1, AvailableFrames
    <3>2. f \in Frame /\ f \in Nat /\ memory_map[j].start <= f
          /\ f < memory_map[j].start + memory_map[j].pages
          /\ memory_map[j].start \in Nat /\ memory_map[j].pages \in Nat
      <4>1. f \in Frame
        BY <1>3, <2>1, AvailableFrames
      <4>2. memory_map[j].start \in Nat /\ memory_map[j].pages \in Nat
        BY <1>3, Descriptor
      <4> QED
        BY <3>1, <4>1, <4>2 DEF Region, Frame
    <3>3. ~alloc_map[f]
      BY <1>7, <2>1, <3>2 DEF MapInv, NothingLost
    <3>4. CASE j < k
      <4>1. f < available_end
        BY <1>2, <1>3, <3>1, <3>2, <3>4 DEF MapInv, Between
      <4> QED
        BY <1>3, <1>6, <3>2, <3>3, <4>1 DEF Region
    <3>5. CASE j = k
      BY <1>3, <1>6, <3>1, <3>2, <3>3, <3>5
    <3>6. CASE j > k
      <4>1. d.start + d.pages <= f
        <5>1. d.start + d.pages <= memory_map[j].start
          BY <1>3, <3>6, Descriptor
        <5> QED
          BY <1>3, <3>2, <5>1
      <4>2. ~(f < d.start) /\ f \notin Region(d.start, d.pages)
        BY <1>3, <3>2, <4>1 DEF Region
      <4> QED
        BY <1>6, <3>2, <3>3, <4>2
    <3> QED
      BY <3>4, <3>5, <3>6
  <2> QED
    BY <1>11, <2>1 DEF NothingLost
<1>15. ASSUME NEW t \in Task PROVE Looked(t)'
  BY <1>4, <1>7 DEF Looked
<1> QED
  BY <1>8, <1>9, <1>10, <1>12, <1>13, <1>14, <1>15 DEF MapInv

\* Of the ghosts, a step of the search forgets at most what it has looked at.
Forgets(t) ==
  /\ UNCHANGED <<owned, raced>>
  /\ overtaken' = overtaken \/ overtaken' = [overtaken EXCEPT ![t] = {}]
  /\ freed' = freed \/ freed' = [freed EXCEPT ![t] = {}]

\* A step of the search changes one task's call.
LEMMA SearchMap ==
  ASSUME MapInv, NEW t \in Task, NEW c \in Call, booted,
         call' = [call EXCEPT ![t] = c], UNCHANGED <<boot, alloc_map>>, Forgets(t),
         c.pc = "scan" =>
           /\ c.num \in 1..MaxFrames /\ c.start >= range_begin_ /\ c.i <= c.num
           /\ \A f \in Region(c.start, c.i) : f \in Available
  PROVE  MapInv'
<1>1. UNCHANGED <<memory_map, described, available_end, booted, range_end_, alloc_map, owned, raced>>
  BY DEF boot, Forgets
<1>2. TypeOK' /\ Available' = Available
  <2>1. overtaken' \in [Task -> SUBSET Nat] /\ freed' \in [Task -> SUBSET Nat]
    BY DEF MapInv, TypeOK, Forgets
  <2> QED
    BY <1>1, <2>1 DEF MapInv, TypeOK, Available
<1>3. Boot' /\ Between' /\ UnmarkedAvailable' /\ OwnedAvailable' /\ NothingLost'
  BY <1>1, <1>2 DEF MapInv, Boot, Between, UnmarkedAvailable, OwnedAvailable, NothingLost
<1>4. ASSUME NEW u \in Task PROVE Looked(u)'
  <2>1. call'[u] = IF u = t THEN c ELSE call[u]
    BY DEF MapInv, TypeOK
  <2> QED
    BY <1>2, <2>1 DEF MapInv, Looked
<1> QED
  BY <1>2, <1>3, <1>4 DEF MapInv

LEMMA MapStep == MapInv /\ [Next]_vars => MapInv'
<1> SUFFICES ASSUME MapInv, [Next]_vars PROVE MapInv'
  OBVIOUS
<1>1. /\ TypeOK /\ alloc_map \in [Frame -> BOOLEAN] /\ range_end_ \in 0..kFrameCount
      /\ call \in [Task -> Call] /\ owned \in [Task -> SUBSET Regions]
      /\ overtaken \in [Task -> SUBSET Nat] /\ raced \in SUBSET Nat /\ freed \in [Task -> SUBSET Nat]
      /\ kFrameCount \in Nat \ {0} /\ MaxFrames \in Nat \ {0}
  BY FrameAssumption DEF MapInv, TypeOK, Regions
<1>2. Idle \in Call /\ Idle.pc = "idle"
  BY <1>1 DEF Idle, Call
<1>3. CASE UNCHANGED vars
  <2>1. UNCHANGED <<memory_map, described, available_end, booted, range_end_, alloc_map, call,
                    owned, overtaken, raced, freed>>
    BY <1>3 DEF vars, boot, ghosts
  <2>2. Available' = Available
    BY <2>1 DEF Available
  <2> QED
    BY <2>1, <2>2 DEF MapInv, TypeOK, Boot, Between, UnmarkedAvailable, OwnedAvailable, NothingLost,
                      Looked
<1>4. CASE Describe
  BY <1>4, DescribeMap
<1>5. CASE SetMemoryRange
  <2>1. /\ ~booted /\ booted' /\ described = Len(memory_map) /\ range_end_' = available_end
        /\ booted' \in BOOLEAN
        /\ UNCHANGED <<memory_map, described, available_end, alloc_map, call, owned, overtaken, raced, freed>>
    BY <1>5 DEF SetMemoryRange, ghosts
  <2>2. Available' = Available
    BY <2>1 DEF Available
  <2>3. TypeOK'
    BY <2>1 DEF MapInv, TypeOK
  <2>4. Boot' /\ Between' /\ UnmarkedAvailable' /\ OwnedAvailable' /\ NothingLost'
    BY <2>1, <2>2 DEF MapInv, Boot, Between, UnmarkedAvailable, OwnedAvailable, NothingLost
  <2>5. \A t \in Task : Looked(t)'
    BY <2>1, <2>2 DEF MapInv, Looked
  <2> QED
    BY <2>3, <2>4, <2>5 DEF MapInv
<1>6. ASSUME NEW t \in Task, Allocate(t) PROVE MapInv'
  <2>0. PICK n \in 1..MaxFrames :
          call' = [call EXCEPT ![t] = [pc |-> "scan", num |-> n, start |-> range_begin_, i |-> 0]]
    BY <1>6 DEF Allocate
  <2>1. PICK c :
          /\ c = [pc |-> "scan", num |-> n, start |-> range_begin_, i |-> 0]
          /\ call' = [call EXCEPT ![t] = c]
    BY <2>0
  <2>2. c \in Call /\ c.num = n /\ c.start >= range_begin_ /\ c.i <= n
        /\ \A f \in Region(c.start, c.i) : f \in Available
    BY <1>1, <2>1 DEF Call, range_begin_, Region
  <2>3. booted /\ UNCHANGED <<boot, alloc_map>> /\ Forgets(t)
    BY <1>6 DEF Allocate, ghosts, Forgets
  <2> QED
    BY <2>1, <2>2, <2>3, SearchMap
<1>7. ASSUME NEW t \in Task, OutOfRange(t) \/ InUse(t) \/ Unused(t) PROVE MapInv'
  <2>1. PICK c \in Call : c = call[t]
    BY <1>1
  <2>2. /\ c.pc = "scan" /\ c.i < c.num /\ c.num \in 1..MaxFrames /\ c.start >= range_begin_
        /\ \A f \in Region(c.start, c.i) : f \in Available
        /\ c.start \in Nat /\ c.i \in 0..MaxFrames
    BY <1>7, <2>1 DEF OutOfRange, InUse, Unused, Scanning, MapInv, Looked, Call
  <2>3. booted /\ range_end_ = available_end /\ UNCHANGED <<boot, alloc_map>> /\ Forgets(t)
    <3>1. booted
      BY <2>1, <2>2 DEF MapInv, Boot, TypeOK
    <3> QED
      BY <1>7, <3>1 DEF OutOfRange, InUse, Unused, Ended, RestartAt, ghosts, Forgets, MapInv, Boot
  <2>4. CASE OutOfRange(t)
    BY <1>2, <2>3, <2>4, SearchMap DEF OutOfRange, Ended
  <2>5. CASE InUse(t)
    <3>1. PICK d : d = [c EXCEPT !.start = c.start + c.i + 1, !.i = 0]
      OBVIOUS
    <3>2. call' = [call EXCEPT ![t] = d]
      BY <2>1, <2>5, <3>1 DEF InUse, RestartAt
    <3>3. d \in Call /\ d.pc = "scan" /\ d.num = c.num /\ d.start = c.start + c.i + 1 /\ d.i = 0
      <4>1. c.start + c.i + 1 \in Nat /\ 0 \in 0..MaxFrames
        BY <1>1, <2>2
      <4> QED
        BY <2>2, <3>1, <4>1 DEF Call
    <3>4. /\ d.num \in 1..MaxFrames /\ d.start >= range_begin_ /\ d.i <= d.num
          /\ \A f \in Region(d.start, d.i) : f \in Available
      BY <1>1, <2>2, <3>3 DEF Region, range_begin_
    <3> QED
      BY <2>3, <3>2, <3>3, <3>4, SearchMap
  <2>6. CASE Unused(t)
    <3>1. PICK d : d = [c EXCEPT !.i = c.i + 1]
      OBVIOUS
    <3>2. call' = [call EXCEPT ![t] = d] /\ c.start + c.i < range_end_ /\ ~alloc_map[c.start + c.i]
      BY <2>1, <2>6, <3>1 DEF Unused
    <3>3. d \in Call /\ d.pc = "scan" /\ d.num = c.num /\ d.start = c.start /\ d.i = c.i + 1
      <4>1. c.i + 1 \in 0..MaxFrames
        BY <1>1, <2>2
      <4> QED
        BY <2>2, <3>1, <4>1 DEF Call
    <3>4. c.start + c.i \in Available
      <4>1. c.start + c.i \in Frame
        BY <1>1, <2>2, <3>2 DEF Frame
      <4> QED
        BY <2>3, <3>2, <4>1 DEF MapInv, UnmarkedAvailable
    <3>5. \A f \in Region(d.start, d.i) : f \in Region(c.start, c.i) \/ f = c.start + c.i
      BY <2>2, <3>3 DEF Region
    <3>6. \A f \in Region(d.start, d.i) : f \in Available
      BY <2>2, <3>4, <3>5
    <3>7. d.num \in 1..MaxFrames /\ d.start >= range_begin_ /\ d.i <= d.num
      BY <1>1, <2>2, <3>3
    <3> QED
      BY <2>3, <3>2, <3>3, <3>6, <3>7, SearchMap
  <2> QED
    BY <1>7, <2>4, <2>5, <2>6
<1>8. ASSUME NEW t \in Task, Found(t) PROVE MapInv'
  <2>1. PICK c \in Call : c = call[t]
    BY <1>1
  <2>2. /\ c.pc = "scan" /\ c.i = c.num /\ c.num \in 1..MaxFrames
        /\ \A f \in Region(c.start, c.num) : f \in Available
        /\ c.start \in Nat
    BY <1>8, <2>1 DEF Found, MapInv, Looked, Call
  <2>3. PICK r \in Regions :
          r[1] = c.start /\ r[2] = c.num /\ owned' = [owned EXCEPT ![t] = owned[t] \cup {r}]
    BY <1>8, <2>1, <2>2 DEF Found, Regions
  <2>4. /\ alloc_map' = [f \in Frame |-> alloc_map[f] \/ f \in Region(r[1], r[2])]
        /\ owned' = [owned EXCEPT ![t] = owned[t] \cup {r}]
        /\ call' = [call EXCEPT ![t] = Idle]
        /\ UNCHANGED <<memory_map, described, available_end, booted, range_end_>>
        /\ overtaken' \in [Task -> SUBSET Nat] /\ raced' \in SUBSET Nat
        /\ freed' \in [Task -> SUBSET Nat]
    <3>1. overtaken' \in [Task -> SUBSET Nat] /\ raced' \in SUBSET Nat
      <4>1. PICK region : region = Region(c.start, c.num)
        OBVIOUS
      <4>2. /\ overtaken' = [u \in Task |-> IF u = t THEN {}
                  ELSE overtaken[u] \cup (region \cap Region(call[u].start, call[u].i))]
            /\ raced' = raced \cup (region \cap overtaken[t])
        BY <1>8, <2>1, <4>1 DEF Found
      <4>3. region \in SUBSET Nat
        BY <2>2, <4>1, <1>1 DEF Region
      <4> QED
        BY <1>1, <4>2, <4>3
    <3>2. freed' \in [Task -> SUBSET Nat]
      BY <1>1, <1>8 DEF Found
    <3> QED
      BY <1>1, <1>8, <2>1, <2>3, <3>1, <3>2 DEF Found, MarkAllocated, boot
  <2>5. booted /\ \A f \in Region(r[1], r[2]) : f \in Available
    BY <2>1, <2>2, <2>3 DEF MapInv, Boot, TypeOK
  <2>6. \A u \in Task : owned'[u] = IF u = t THEN owned[t] \cup {r} ELSE owned[u]
    BY <1>1, <2>4
  <2>7. \A u \in Task : call'[u] = IF u = t THEN Idle ELSE call[u]
    BY <1>1, <2>4
  <2>8. TypeOK' /\ Available' = Available
    <3>1. alloc_map' \in [Frame -> BOOLEAN] /\ call' \in [Task -> Call]
      BY <1>1, <1>2, <2>4
    <3>2. owned' \in [Task -> SUBSET Regions]
      BY <1>1, <2>4
    <3> QED
      BY <2>4, <3>1, <3>2 DEF MapInv, TypeOK, Available, Regions
  <2>9. Boot' /\ Between' /\ UnmarkedAvailable'
    BY <2>4, <2>5, <2>8 DEF MapInv, Boot, Between, UnmarkedAvailable
  <2>10. OwnedAvailable'
    BY <2>5, <2>6, <2>8 DEF MapInv, OwnedAvailable
  <2>11. NothingLost'
    <3>1. ASSUME NEW f \in Frame, alloc_map'[f], f \in Available
          PROVE  \E u \in Task : \E s \in owned'[u] : f \in Region(s[1], s[2])
      <4>1. CASE f \in Region(r[1], r[2])
        BY <2>6, <4>1
      <4>2. CASE alloc_map[f]
        <5>1. PICK u \in Task : \E s \in owned[u] : f \in Region(s[1], s[2])
          BY <3>1, <4>2 DEF MapInv, NothingLost
        <5> QED
          BY <2>6, <5>1
      <4> QED
        BY <2>4, <3>1, <4>1, <4>2
    <3> QED
      BY <2>8, <3>1 DEF NothingLost
  <2>12. \A u \in Task : Looked(u)'
    BY <1>2, <2>7, <2>8 DEF MapInv, Looked
  <2> QED
    BY <2>8, <2>9, <2>10, <2>11, <2>12 DEF MapInv
<1>9. ASSUME NEW t \in Task, Free(t) PROVE MapInv'
  <2>1. PICK r \in owned[t] :
          /\ alloc_map' = [f \in Frame |-> alloc_map[f] /\ f \notin Region(r[1], r[2])]
          /\ owned' = [owned EXCEPT ![t] = owned[t] \ {r}]
          /\ overtaken' = [u \in Task |-> overtaken[u] \ Region(r[1], r[2])]
          /\ raced' \in SUBSET raced
          /\ freed' = [u \in Task |-> freed[u] \cup { f \in Region(r[1], r[2]) : f < call[u].start }]
    BY <1>9 DEF Free, GiveBack
  <2>2. UNCHANGED <<memory_map, described, available_end, booted, range_end_, call>>
    BY <1>9 DEF Free, GiveBack, boot
  <2>3. \A u \in Task : owned'[u] = IF u = t THEN owned[t] \ {r} ELSE owned[u]
    BY <1>1, <2>1
  <2>4. TypeOK' /\ Available' = Available
    <3>1. alloc_map' \in [Frame -> BOOLEAN] /\ owned' \in [Task -> SUBSET Regions]
      BY <1>1, <2>1
    <3>2. overtaken' \in [Task -> SUBSET Nat] /\ raced' \in SUBSET Nat
      BY <1>1, <2>1
    <3>3. Region(r[1], r[2]) \subseteq Nat
      BY <1>1 DEF Region, Regions
    <3>4. freed' \in [Task -> SUBSET Nat]
      BY <1>1, <2>1, <3>3
    <3> QED
      BY <2>2, <3>1, <3>2, <3>4 DEF MapInv, TypeOK, Available, Regions
  <2>5. Boot' /\ Between'
    BY <2>2, <2>3 DEF MapInv, Boot, Between
  <2>6. Region(r[1], r[2]) \subseteq Available
    BY DEF MapInv, OwnedAvailable
  <2>7. UnmarkedAvailable'
    BY <2>1, <2>2, <2>4, <2>6 DEF MapInv, UnmarkedAvailable
  <2>8. OwnedAvailable'
    BY <2>3, <2>4 DEF MapInv, OwnedAvailable
  <2>9. NothingLost'
    <3>1. ASSUME NEW f \in Frame, alloc_map'[f], f \in Available
          PROVE  \E u \in Task : \E s \in owned'[u] : f \in Region(s[1], s[2])
      <4>1. alloc_map[f] /\ f \notin Region(r[1], r[2])
        BY <2>1, <3>1
      <4>2. PICK u \in Task : \E s \in owned[u] : f \in Region(s[1], s[2])
        BY <3>1, <4>1 DEF MapInv, NothingLost
      <4>3. PICK s \in owned[u] : f \in Region(s[1], s[2])
        BY <4>2
      <4>4. s \in owned'[u]
        BY <2>3, <4>1, <4>3
      <4> QED
        BY <4>3, <4>4
    <3> QED
      BY <2>4, <3>1 DEF NothingLost
  <2>10. \A u \in Task : Looked(u)'
    BY <2>2, <2>4 DEF MapInv, Looked
  <2> QED
    BY <2>4, <2>5, <2>7, <2>8, <2>9, <2>10 DEF MapInv
<1> QED
  BY <1>3, <1>4, <1>5, <1>6, <1>7, <1>8, <1>9 DEF Next

LEMMA MapAlways == Spec => []MapInv
  BY MapInit, MapStep, PTL DEF Spec

\* Whatever the interleaving of its callers, the allocator keeps its types:
\* a search stays inside its request, and a region inside the bitmap's numbers.
THEOREM TypeCorrect == Spec => []TypeOK
<1>1. MapInv => TypeOK
  BY DEF MapInv
<1> QED
  BY <1>1, MapAlways, PTL

\* No frame is given out, to any of any number of interleaving callers, that
\* the firmware did not report as available (memory_manager.cpp:106-126).
THEOREM OwnedAvailableCorrect == Spec => []OwnedAvailable
<1>1. MapInv => OwnedAvailable
  BY DEF MapInv
<1> QED
  BY <1>1, MapAlways, PTL

\* A frame that is marked is owned, or was never to be given out: nothing that
\* the boot or a Free should have left unmarked is lost (memory_manager.cpp:36-47).
THEOREM NothingLostCorrect == Spec => []NothingLost
<1>1. MapInv => NothingLost
  BY DEF MapInv
<1> QED
  BY <1>1, MapAlways, PTL

-----------------------------------------------------------------------------
(* Callers that overtake each other *)

\* Every frame that a search has found unused, and that is marked now, was
\* taken by a call that overtook it.
Passed(t) ==
  LET c == call[t]
  IN c.pc = "scan" =>
       /\ c.i > 0 => c.start + c.i <= range_end_
       /\ \A f \in Region(c.start, c.i) : alloc_map[f] => f \in overtaken[t]

RaceInv == SharedOnlyByRace /\ MarkedUnlessRaced /\ \A t \in Task : Passed(t)

\* What is held lies in the bitmap.
LEMMA HeldFrames ==
  ASSUME TypeOK, MarkedUnlessRaced, NEW t \in Task, NEW r \in owned[t], NEW f \in Region(r[1], r[2])
  PROVE  f \in Frame /\ (alloc_map[f] \/ f \in raced)
<1>1. /\ range_begin_ <= r[1] /\ r[1] + r[2] <= range_end_ /\ (alloc_map[f] \/ f \in raced)
  BY DEF MarkedUnlessRaced
<1>2. r[1] \in Nat /\ r[2] \in Nat /\ kFrameCount \in Nat /\ range_end_ \in Nat /\ range_end_ <= kFrameCount
  BY FrameAssumption DEF TypeOK
<1> QED
  BY <1>1, <1>2 DEF Region, Frame, range_begin_

\* A step of the search that looks at a frame at most.
LEMMA SearchRace ==
  ASSUME MapInv, RaceInv, NEW t \in Task, NEW c \in Call,
         call' = [call EXCEPT ![t] = c], UNCHANGED <<boot, alloc_map>>, Forgets(t),
         c.pc = "scan" =>
           /\ c.i > 0 => c.start + c.i <= range_end_
           /\ \A f \in Region(c.start, c.i) : alloc_map[f] => f \in overtaken'[t]
  PROVE  RaceInv'
<1>1. UNCHANGED <<range_end_, alloc_map, owned, raced>>
  BY DEF boot, Forgets
<1>2. SharedOnlyByRace' /\ MarkedUnlessRaced'
  BY <1>1 DEF RaceInv, SharedOnlyByRace, HeldTwice, MarkedUnlessRaced
<1>3. ASSUME NEW u \in Task PROVE Passed(u)'
  <2>1. call'[u] = IF u = t THEN c ELSE call[u]
    BY DEF MapInv, TypeOK
  <2>2. u # t => overtaken'[u] = overtaken[u]
    BY DEF MapInv, TypeOK, Forgets
  <2> QED
    BY <1>1, <2>1, <2>2 DEF RaceInv, Passed
<1> QED
  BY <1>2, <1>3 DEF RaceInv

LEMMA RaceStep == MapInv /\ MapInv' /\ RaceInv /\ [Next]_vars => RaceInv'
<1> SUFFICES ASSUME MapInv, MapInv', RaceInv, [Next]_vars PROVE RaceInv'
  OBVIOUS
<1>1. /\ TypeOK /\ alloc_map \in [Frame -> BOOLEAN] /\ range_end_ \in 0..kFrameCount
      /\ call \in [Task -> Call] /\ owned \in [Task -> SUBSET Regions]
      /\ overtaken \in [Task -> SUBSET Nat] /\ raced \in SUBSET Nat
      /\ kFrameCount \in Nat \ {0} /\ MaxFrames \in Nat \ {0}
  BY FrameAssumption DEF MapInv, TypeOK, Regions
<1>2. Idle \in Call /\ Idle.pc = "idle"
  BY <1>1 DEF Idle, Call
<1>3. CASE UNCHANGED vars
  <2>1. UNCHANGED <<range_end_, alloc_map, call, owned, overtaken, raced>>
    BY <1>3 DEF vars, boot, ghosts
  <2> QED
    BY <2>1 DEF RaceInv, SharedOnlyByRace, HeldTwice, MarkedUnlessRaced, Passed
<1>4. CASE Describe \/ SetMemoryRange
  <2>1. /\ UNCHANGED <<call, owned, overtaken, raced>>
        /\ \A t \in Task : call[t].pc = "idle" /\ owned[t] = {}
    <3>1. UNCHANGED <<call, owned, overtaken, raced>> /\ ~booted
      BY <1>4 DEF Describe, SetMemoryRange, ghosts, MapInv, Boot
    <3> QED
      BY <3>1 DEF MapInv, Boot
  <2> QED
    BY <2>1 DEF RaceInv, SharedOnlyByRace, HeldTwice, MarkedUnlessRaced, Passed
<1>5. ASSUME NEW t \in Task, Allocate(t) PROVE RaceInv'
  <2>0. PICK n \in 1..MaxFrames :
          call' = [call EXCEPT ![t] = [pc |-> "scan", num |-> n, start |-> range_begin_, i |-> 0]]
    BY <1>5 DEF Allocate
  <2>1. PICK c :
          /\ c = [pc |-> "scan", num |-> n, start |-> range_begin_, i |-> 0]
          /\ call' = [call EXCEPT ![t] = c]
    BY <2>0
  <2>2. c \in Call /\ ~(c.i > 0) /\ Region(c.start, c.i) = {}
    BY <1>1, <2>1 DEF Call, range_begin_, Region
  <2>3. UNCHANGED <<boot, alloc_map>> /\ Forgets(t)
    BY <1>5 DEF Allocate, ghosts, Forgets
  <2> QED
    BY <2>1, <2>2, <2>3, SearchRace
<1>6. ASSUME NEW t \in Task, OutOfRange(t) PROVE RaceInv'
  BY <1>2, <1>6, SearchRace DEF OutOfRange, Ended, Forgets
<1>7. ASSUME NEW t \in Task, InUse(t) PROVE RaceInv'
  <2>1. PICK c \in Call : c = call[t] /\ c.start \in Nat /\ c.i \in 0..MaxFrames
    BY <1>1 DEF Call
  <2>2. PICK d : d = [c EXCEPT !.start = c.start + c.i + 1, !.i = 0]
    OBVIOUS
  <2>3. call' = [call EXCEPT ![t] = d] /\ UNCHANGED <<boot, alloc_map>> /\ Forgets(t)
    BY <1>7, <2>1, <2>2 DEF InUse, RestartAt, Forgets
  <2>4. d \in Call /\ d.start = c.start + c.i + 1 /\ d.i = 0
    <3>1. c.start + c.i + 1 \in Nat /\ 0 \in 0..MaxFrames
      BY <1>1, <2>1
    <3> QED
      BY <2>1, <2>2, <3>1 DEF Call
  <2>5. ~(d.i > 0) /\ Region(d.start, d.i) = {}
    BY <1>1, <2>1, <2>4 DEF Region
  <2> QED
    BY <2>3, <2>4, <2>5, SearchRace
<1>8. ASSUME NEW t \in Task, Unused(t) PROVE RaceInv'
  <2>1. PICK c \in Call : c = call[t] /\ c.start \in Nat /\ c.i \in 0..MaxFrames
    BY <1>1 DEF Call
  <2>2. PICK d : d = [c EXCEPT !.i = c.i + 1]
    OBVIOUS
  <2>3. /\ call' = [call EXCEPT ![t] = d] /\ UNCHANGED <<boot, alloc_map>> /\ Forgets(t)
        /\ overtaken' = overtaken
        /\ c.start + c.i < range_end_ /\ ~alloc_map[c.start + c.i] /\ c.pc = "scan" /\ c.i < c.num
    BY <1>8, <2>1, <2>2 DEF Unused, Scanning, ghosts, Forgets
  <2>4. d \in Call /\ d.start = c.start /\ d.i = c.i + 1
    <3>1. c.i + 1 \in 0..MaxFrames
      BY <1>1, <2>1, <2>3 DEF Call
    <3> QED
      BY <2>1, <2>2, <3>1 DEF Call
  <2>5. d.start + d.i <= range_end_
    BY <1>1, <2>1, <2>3, <2>4
  <2>6. \A f \in Region(c.start, c.i) : alloc_map[f] => f \in overtaken[t]
    BY <2>1, <2>3 DEF RaceInv, Passed
  <2>7. \A f \in Region(d.start, d.i) : f \in Region(c.start, c.i) \/ f = c.start + c.i
    BY <2>1, <2>4 DEF Region
  <2>8. \A f \in Region(d.start, d.i) : alloc_map[f] => f \in overtaken'[t]
    BY <2>3, <2>6, <2>7
  <2> QED
    BY <2>3, <2>4, <2>5, <2>8, SearchRace
<1>9. ASSUME NEW t \in Task, Found(t) PROVE RaceInv'
  <2>1. PICK c \in Call : c = call[t]
    BY <1>1
  <2>2. PICK region : region = Region(c.start, c.num)
    OBVIOUS
  <2>3. /\ c.pc = "scan" /\ c.i = c.num /\ c.num \in 1..MaxFrames /\ c.start \in Nat
        /\ range_begin_ <= c.start /\ c.start + c.num <= range_end_
        /\ \A f \in region : alloc_map[f] => f \in overtaken[t]
    BY <1>9, <2>1, <2>2 DEF Found, MapInv, Looked, RaceInv, Passed, Call
  <2>4. PICK r \in Regions :
          /\ r[1] = c.start /\ r[2] = c.num /\ r \notin owned[t]
          /\ owned' = [owned EXCEPT ![t] = owned[t] \cup {r}]
    BY <1>9, <2>1, <2>3 DEF Found, Regions
  <2>5. /\ alloc_map' = [f \in Frame |-> alloc_map[f] \/ f \in region]
        /\ overtaken' = [u \in Task |-> IF u = t THEN {}
                           ELSE overtaken[u] \cup (region \cap Region(call[u].start, call[u].i))]
        /\ raced' = raced \cup (region \cap overtaken[t])
        /\ call' = [call EXCEPT ![t] = Idle] /\ range_end_' = range_end_
    BY <1>1, <1>9, <2>1, <2>2 DEF Found, MarkAllocated, boot
  <2>6. /\ \A u \in Task : owned'[u] = IF u = t THEN owned[t] \cup {r} ELSE owned[u]
        /\ \A u \in Task : call'[u] = IF u = t THEN Idle ELSE call[u]
    BY <1>1, <2>4, <2>5
  <2>7. \A f \in region : f \in Frame /\ alloc_map'[f]
    <3>1. \A f \in region : f \in Frame
      BY <1>1, <2>2, <2>3 DEF Region, Frame, range_begin_
    <3> QED
      BY <2>5, <3>1
  <2>8. \A u \in Task : \A s \in owned[u] : \A f \in Region(s[1], s[2]) :
           f \in Frame /\ (alloc_map[f] \/ f \in raced)
    BY <1>1, HeldFrames DEF RaceInv
  <2>9. MarkedUnlessRaced'
    <3>1. ASSUME NEW u \in Task, NEW s \in owned'[u]
          PROVE  /\ range_begin_ <= s[1] /\ s[1] + s[2] <= range_end_
                 /\ \A f \in Region(s[1], s[2]) : alloc_map'[f] \/ f \in raced'
      <4>1. CASE s \in owned[u]
        <5>1. range_begin_ <= s[1] /\ s[1] + s[2] <= range_end_
          BY <4>1 DEF RaceInv, MarkedUnlessRaced
        <5> QED
          BY <2>5, <2>8, <4>1, <5>1
      <4>2. CASE s = r
        BY <2>2, <2>3, <2>4, <2>7, <4>2
      <4> QED
        BY <2>6, <3>1, <4>1, <4>2
    <3> QED
      BY <2>5, <3>1 DEF MarkedUnlessRaced
  <2>10. SharedOnlyByRace'
    <3>1. ASSUME NEW f \in region, NEW u \in Task, NEW s \in owned[u], f \in Region(s[1], s[2])
          PROVE  f \in raced'
      BY <2>3, <2>5, <2>8, <3>1
    <3>2. ASSUME NEW f \in Frame, NEW u \in Task, NEW w \in Task,
                 NEW s \in owned'[u], NEW q \in owned'[w], <<u, s>> # <<w, q>>,
                 f \in Region(s[1], s[2]), f \in Region(q[1], q[2])
          PROVE  f \in raced'
      <4>1. CASE s \in owned[u] /\ q \in owned[w]
        <5>1. f \in raced
          BY <3>2, <4>1 DEF RaceInv, SharedOnlyByRace, HeldTwice
        <5> QED
          BY <2>5, <5>1
      <4>2. CASE s \notin owned[u]
        <5>1. u = t /\ s = r
          BY <2>6, <3>2, <4>2
        <5>2. f \in region /\ q \in owned[w]
          BY <2>2, <2>4, <2>6, <3>2, <5>1
        <5> QED
          BY <3>1, <3>2, <5>2
      <4>3. CASE q \notin owned[w]
        <5>1. w = t /\ q = r
          BY <2>6, <3>2, <4>3
        <5>2. f \in region /\ s \in owned[u]
          BY <2>2, <2>4, <2>6, <3>2, <5>1
        <5> QED
          BY <3>1, <3>2, <5>2
      <4> QED
        BY <4>1, <4>2, <4>3
    <3> QED
      BY <3>2 DEF SharedOnlyByRace, HeldTwice
  <2>11. ASSUME NEW u \in Task PROVE Passed(u)'
    <3>1. CASE u = t
      BY <1>2, <2>6, <3>1 DEF Passed
    <3>2. ASSUME u # t, call[u].pc = "scan", NEW f \in Region(call[u].start, call[u].i), alloc_map'[f]
          PROVE  f \in overtaken'[u]
      <4>1. call[u].start \in Nat /\ call[u].i \in Nat /\ (call[u].i > 0 => call[u].start + call[u].i <= range_end_)
            /\ (alloc_map[f] => f \in overtaken[u])
        BY <1>1, <3>2 DEF RaceInv, Passed, Call
      <4>2. f \in Frame
        BY <1>1, <4>1 DEF Region, Frame
      <4> QED
        BY <2>5, <3>2, <4>1, <4>2
    <3>3. CASE u # t
      BY <2>5, <2>6, <3>2, <3>3 DEF RaceInv, Passed
    <3> QED
      BY <3>1, <3>3
  <2> QED
    BY <2>9, <2>10, <2>11 DEF RaceInv
<1>10. ASSUME NEW t \in Task, Free(t) PROVE RaceInv'
  <2>1. PICK r \in owned[t] :
          /\ alloc_map' = [f \in Frame |-> alloc_map[f] /\ f \notin Region(r[1], r[2])]
          /\ owned' = [owned EXCEPT ![t] = owned[t] \ {r}]
          /\ overtaken' = [u \in Task |-> overtaken[u] \ Region(r[1], r[2])]
          /\ raced' = raced \cap Frames(UNION { owned'[u] : u \in Task })
    BY <1>10 DEF Free, GiveBack
  <2>2. UNCHANGED <<range_end_, call>>
    BY <1>10 DEF Free, GiveBack, boot
  <2>3. \A u \in Task : owned'[u] = IF u = t THEN owned[t] \ {r} ELSE owned[u]
    BY <1>1, <2>1
  <2>4. ASSUME NEW u \in Task, NEW s \in owned'[u], NEW f \in Region(s[1], s[2]), f \in raced
        PROVE  f \in raced'
    BY <2>1, <2>4 DEF Frames
  <2>5. ASSUME NEW u \in Task, NEW s \in owned'[u], NEW f \in Region(s[1], s[2]), f \in Region(r[1], r[2])
        PROVE  f \in raced'
    <3>1. s \in owned[u] /\ <<u, s>> # <<t, r>>
      BY <2>3
    <3>2. f \in Frame
      BY <1>1, <3>1, HeldFrames DEF RaceInv
    <3>3. f \in raced
      BY <2>5, <3>1, <3>2 DEF RaceInv, SharedOnlyByRace, HeldTwice
    <3> QED
      BY <2>4, <3>3
  <2>6. MarkedUnlessRaced'
    <3>1. ASSUME NEW u \in Task, NEW s \in owned'[u]
          PROVE  /\ range_begin_ <= s[1] /\ s[1] + s[2] <= range_end_
                 /\ \A f \in Region(s[1], s[2]) : alloc_map'[f] \/ f \in raced'
      <4>1. s \in owned[u]
        BY <2>3
      <4>2. range_begin_ <= s[1] /\ s[1] + s[2] <= range_end_
        BY <4>1 DEF RaceInv, MarkedUnlessRaced
      <4>3. ASSUME NEW f \in Region(s[1], s[2]) PROVE alloc_map'[f] \/ f \in raced'
        <5>1. f \in Frame /\ (alloc_map[f] \/ f \in raced)
          BY <1>1, <4>1, HeldFrames DEF RaceInv
        <5> QED
          BY <2>1, <2>4, <2>5, <5>1
      <4> QED
        BY <4>2, <4>3
    <3> QED
      BY <2>2, <3>1 DEF MarkedUnlessRaced
  <2>7. SharedOnlyByRace'
    <3>1. ASSUME NEW f \in Frame, NEW u \in Task, NEW w \in Task,
                 NEW s \in owned'[u], NEW q \in owned'[w], <<u, s>> # <<w, q>>,
                 f \in Region(s[1], s[2]), f \in Region(q[1], q[2])
          PROVE  f \in raced'
      <4>1. s \in owned[u] /\ q \in owned[w]
        BY <2>3
      <4>2. f \in raced
        BY <3>1, <4>1 DEF RaceInv, SharedOnlyByRace, HeldTwice
      <4> QED
        BY <2>4, <3>1, <4>2
    <3> QED
      BY <3>1 DEF SharedOnlyByRace, HeldTwice
  <2>8. ASSUME NEW u \in Task PROVE Passed(u)'
    <3>1. ASSUME call[u].pc = "scan", NEW f \in Region(call[u].start, call[u].i), alloc_map'[f]
          PROVE  f \in overtaken'[u]
      <4>1. call[u].start \in Nat /\ call[u].i \in Nat /\ (call[u].i > 0 => call[u].start + call[u].i <= range_end_)
            /\ (alloc_map[f] => f \in overtaken[u])
        BY <1>1, <3>1 DEF RaceInv, Passed, Call
      <4>2. f \in Frame
        BY <1>1, <4>1 DEF Region, Frame
      <4> QED
        BY <2>1, <3>1, <4>1, <4>2
    <3> QED
      BY <2>2, <3>1 DEF RaceInv, Passed
  <2> QED
    BY <2>6, <2>7, <2>8 DEF RaceInv
<1> QED
  BY <1>3, <1>4, <1>5, <1>6, <1>7, <1>8, <1>9, <1>10 DEF Next

LEMMA RaceAlways == Spec => []RaceInv
<1>1. Init => RaceInv
  BY DEF Init, RaceInv, SharedOnlyByRace, HeldTwice, MarkedUnlessRaced, Passed, Idle
<1> QED
  BY <1>1, RaceStep, MapAlways, PTL DEF Spec

\* However many calls of Allocate and Free interleave, a frame has two owners,
\* or is held unmarked, only if a search that had passed it was overtaken, and
\* what is held lies in the range (memory_manager.cpp:10-41).
THEOREM SoundUnlessRacedCorrect == Spec => []SoundUnlessRaced
<1>1. RaceInv => SoundUnlessRaced
  BY DEF RaceInv, SoundUnlessRaced
<1> QED
  BY <1>1, RaceAlways, PTL

-----------------------------------------------------------------------------
(* What a search has skipped *)

\* No region before the one that is looked at has room, but for frames that
\* other tasks have freed since: the frame that was in the way lies behind.
Skipped(t) ==
  LET c == call[t]
  IN c.pc = "scan" =>
       \A start \in range_begin_..(c.start - 1) :
         \E f \in Frame : /\ f \in Region(start, c.num) /\ f < c.start
                          /\ alloc_map[f] \/ f \in freed[t]

SkipInv == \A t \in Task : Skipped(t)

\* A step of the search that moves on from frames in use only.
LEMMA SearchSkips ==
  ASSUME MapInv, SkipInv, NEW t \in Task, NEW c \in Call,
         call' = [call EXCEPT ![t] = c], UNCHANGED <<boot, alloc_map>>, Forgets(t),
         c.pc = "scan" =>
           \A start \in range_begin_..(c.start - 1) :
             \E f \in Frame : /\ f \in Region(start, c.num) /\ f < c.start
                              /\ alloc_map[f] \/ f \in freed'[t]
  PROVE  SkipInv'
<1>1. ASSUME NEW u \in Task PROVE Skipped(u)'
  <2>1. call'[u] = (IF u = t THEN c ELSE call[u]) /\ alloc_map' = alloc_map
    BY DEF MapInv, TypeOK
  <2>2. u # t => freed'[u] = freed[u]
    BY DEF MapInv, TypeOK, Forgets
  <2> QED
    BY <2>1, <2>2 DEF SkipInv, Skipped
<1> QED
  BY <1>1 DEF SkipInv

LEMMA SkipStep == MapInv /\ SkipInv /\ [Next]_vars => SkipInv'
<1> SUFFICES ASSUME MapInv, SkipInv, [Next]_vars PROVE SkipInv'
  OBVIOUS
<1>1. /\ alloc_map \in [Frame -> BOOLEAN] /\ range_end_ \in 0..kFrameCount
      /\ call \in [Task -> Call] /\ freed \in [Task -> SUBSET Nat]
      /\ kFrameCount \in Nat \ {0} /\ MaxFrames \in Nat \ {0}
  BY FrameAssumption DEF MapInv, TypeOK
<1>2. Idle \in Call /\ Idle.pc = "idle"
  BY <1>1 DEF Idle, Call
<1>3. CASE UNCHANGED vars
  <2>1. UNCHANGED <<alloc_map, call, freed>>
    BY <1>3 DEF vars, ghosts
  <2> QED
    BY <2>1 DEF SkipInv, Skipped
<1>4. CASE Describe \/ SetMemoryRange
  <2>1. call' = call /\ \A t \in Task : call[t].pc = "idle"
    <3>1. call' = call /\ ~booted
      BY <1>4 DEF Describe, SetMemoryRange, MapInv, Boot
    <3> QED
      BY <3>1 DEF MapInv, Boot
  <2> QED
    BY <2>1 DEF SkipInv, Skipped
<1>5. ASSUME NEW t \in Task, Allocate(t) PROVE SkipInv'
  <2>1. PICK n \in 1..MaxFrames :
          call' = [call EXCEPT ![t] = [pc |-> "scan", num |-> n, start |-> range_begin_, i |-> 0]]
    BY <1>5 DEF Allocate
  <2>2. PICK c : c = [pc |-> "scan", num |-> n, start |-> range_begin_, i |-> 0]
    OBVIOUS
  <2>3. c \in Call /\ range_begin_..(c.start - 1) = {}
    BY <1>1, <2>2 DEF Call, range_begin_
  <2>4. call' = [call EXCEPT ![t] = c] /\ UNCHANGED <<boot, alloc_map>> /\ Forgets(t)
    BY <1>5, <2>1, <2>2 DEF Allocate, ghosts, Forgets
  <2> QED
    BY <2>3, <2>4, SearchSkips
<1>6. ASSUME NEW t \in Task, OutOfRange(t) PROVE SkipInv'
  BY <1>2, <1>6, SearchSkips DEF OutOfRange, Ended, Forgets
<1>7. ASSUME NEW t \in Task, InUse(t) PROVE SkipInv'
  <2>1. PICK c \in Call : c = call[t]
    BY <1>1
  <2>2. /\ c.pc = "scan" /\ c.i < c.num /\ c.start + c.i < range_end_ /\ alloc_map[c.start + c.i]
        /\ c.start \in Nat /\ c.i \in 0..MaxFrames /\ c.num \in 0..MaxFrames
    BY <1>7, <2>1 DEF InUse, Scanning, Call
  <2>3. PICK d : d = [c EXCEPT !.start = c.start + c.i + 1, !.i = 0]
    OBVIOUS
  <2>4. call' = [call EXCEPT ![t] = d] /\ UNCHANGED <<boot, alloc_map>> /\ Forgets(t)
        /\ freed' = freed
    BY <1>7, <2>1, <2>3 DEF InUse, RestartAt, Forgets
  <2>5. d \in Call /\ d.num = c.num /\ d.start = c.start + c.i + 1
    <3>1. c.start + c.i + 1 \in Nat /\ 0 \in 0..MaxFrames
      BY <1>1, <2>2
    <3> QED
      BY <2>2, <2>3, <3>1 DEF Call
  <2>6. ASSUME NEW start \in range_begin_..(d.start - 1)
        PROVE  \E f \in Frame : /\ f \in Region(start, d.num) /\ f < d.start
                                /\ alloc_map[f] \/ f \in freed'[t]
    <3>1. CASE start < c.start
      <4>1. start \in range_begin_..(c.start - 1)
        BY <2>2, <3>1 DEF range_begin_
      <4>2. PICK f \in Frame : f \in Region(start, c.num) /\ f < c.start
                               /\ (alloc_map[f] \/ f \in freed[t])
        BY <2>1, <2>2, <4>1 DEF SkipInv, Skipped
      <4>3. f < d.start
        BY <1>1, <2>2, <2>5, <4>2 DEF Frame
      <4> QED
        BY <2>4, <2>5, <4>2, <4>3
    <3>2. CASE start >= c.start
      <4>1. c.start + c.i \in Frame /\ c.start + c.i \in Region(start, d.num) /\ c.start + c.i < d.start
        BY <1>1, <2>2, <2>5, <3>2 DEF Frame, Region, range_begin_
      <4> QED
        BY <2>2, <4>1
    <3> QED
      BY <2>2, <3>1, <3>2 DEF range_begin_
  <2> QED
    BY <2>4, <2>5, <2>6, SearchSkips
<1>8. ASSUME NEW t \in Task, Unused(t) PROVE SkipInv'
  <2>1. PICK c \in Call : c = call[t] /\ c.pc = "scan" /\ c.i < c.num
    BY <1>1, <1>8 DEF Unused, Scanning
  <2>2. PICK d : d = [c EXCEPT !.i = c.i + 1]
    OBVIOUS
  <2>3. d \in Call /\ d.num = c.num /\ d.start = c.start
    <3>1. c.i + 1 \in 0..MaxFrames
      BY <1>1, <2>1 DEF Call
    <3> QED
      BY <2>1, <2>2, <3>1 DEF Call
  <2>4. call' = [call EXCEPT ![t] = d] /\ UNCHANGED <<boot, alloc_map>> /\ Forgets(t) /\ freed' = freed
    BY <1>8, <2>1, <2>2 DEF Unused, ghosts, Forgets
  <2>5. \A start \in range_begin_..(d.start - 1) :
          \E f \in Frame : /\ f \in Region(start, d.num) /\ f < d.start
                           /\ alloc_map[f] \/ f \in freed'[t]
    BY <2>1, <2>3, <2>4 DEF SkipInv, Skipped
  <2> QED
    BY <2>3, <2>4, <2>5, SearchSkips
<1>9. ASSUME NEW t \in Task, Found(t) PROVE SkipInv'
  <2>1. /\ \A u \in Task : u # t => call'[u] = call[u] /\ freed'[u] = freed[u]
        /\ call'[t] = Idle /\ \A f \in Frame : alloc_map[f] => alloc_map'[f]
    BY <1>1, <1>9 DEF Found, MarkAllocated
  <2>2. ASSUME NEW u \in Task PROVE Skipped(u)'
    BY <1>2, <2>1 DEF SkipInv, Skipped
  <2> QED
    BY <2>2 DEF SkipInv
<1>10. ASSUME NEW t \in Task, Free(t) PROVE SkipInv'
  <2>1. PICK r \in owned[t] :
          /\ alloc_map' = [f \in Frame |-> alloc_map[f] /\ f \notin Region(r[1], r[2])]
          /\ freed' = [u \in Task |-> freed[u] \cup { f \in Region(r[1], r[2]) : f < call[u].start }]
          /\ call' = call
    BY <1>10 DEF Free, GiveBack
  <2>2. ASSUME NEW u \in Task, NEW f \in Frame, f < call[u].start, alloc_map[f] \/ f \in freed[u]
        PROVE  alloc_map'[f] \/ f \in freed'[u]
    BY <1>1, <2>1, <2>2
  <2>3. ASSUME NEW u \in Task PROVE Skipped(u)'
    BY <2>1, <2>2 DEF SkipInv, Skipped
  <2> QED
    BY <2>3 DEF SkipInv
<1> QED
  BY <1>3, <1>4, <1>5, <1>6, <1>7, <1>8, <1>9, <1>10 DEF Next

LEMMA SkipAlways == Spec => []SkipInv
<1>1. Init => SkipInv
  BY DEF Init, SkipInv, Skipped, Idle
<1> QED
  BY <1>1, SkipStep, MapAlways, PTL DEF Spec

\* Room that a search has skipped was freed since.
LEMMA SkippedRoom ==
  ASSUME SkipInv, TypeOK, NEW t \in Task, call[t].pc = "scan",
         NEW start \in Frame, start < call[t].start, Fits(start, call[t].num)
  PROVE  Region(start, call[t].num) \cap freed[t] # {}
<1>1. call[t] \in Call /\ range_end_ \in Nat
  BY FrameAssumption DEF TypeOK
<1>2. start \in range_begin_..(call[t].start - 1)
  BY <1>1 DEF Fits, Call, range_begin_
<1>3. PICK f \in Frame : f \in Region(start, call[t].num) /\ (alloc_map[f] \/ f \in freed[t])
  BY <1>2 DEF SkipInv, Skipped
<1> QED
  BY <1>3 DEF Fits

\* However many calls interleave, Allocate returns the first region with room:
\* what others took under its search, or freed behind it, is all that can be
\* different (memory_manager.cpp:10-34).
THEOREM FirstFitCorrect == Spec => FirstFit
<1>1. ASSUME RaceInv, SkipInv, TypeOK, NEW t \in Task, Found(t)
      PROVE  /\ \A f \in Region(call[t].start, call[t].num) : ~alloc_map[f] \/ f \in overtaken[t]
             /\ \A start \in Frame :
                  start < call[t].start /\ Fits(start, call[t].num) =>
                    Region(start, call[t].num) \cap freed[t] # {}
  <2>1. call[t].pc = "scan" /\ call[t].i = call[t].num
    BY <1>1 DEF Found
  <2> QED
    BY <1>1, <2>1, SkippedRoom DEF RaceInv, Passed
<1>2. RaceInv /\ SkipInv /\ TypeOK /\ [Next]_vars => [\A t \in Task : Found(t) =>
        /\ \A f \in Region(call[t].start, call[t].num) : ~alloc_map[f] \/ f \in overtaken[t]
        /\ \A start \in Frame :
             start < call[t].start /\ Fits(start, call[t].num) =>
               Region(start, call[t].num) \cap freed[t] # {}]_vars
  BY <1>1
<1> QED
  BY <1>2, RaceAlways, SkipAlways, TypeCorrect, PTL DEF Spec, FirstFit

\* However many calls interleave, Allocate fails only when no region has room,
\* but where frames were freed behind its search (memory_manager.cpp:15-17).
THEOREM FailsOnlyWhenFullCorrect == Spec => FailsOnlyWhenFull
<1>1. ASSUME SkipInv, TypeOK, NEW t \in Task, OutOfRange(t),
             NEW start \in Frame, Fits(start, call[t].num)
      PROVE  Region(start, call[t].num) \cap freed[t] # {}
  <2>1. /\ call[t].pc = "scan" /\ call[t].i < call[t].num
        /\ call[t].start + call[t].i >= range_end_
    BY <1>1 DEF OutOfRange, Scanning
  <2>2. call[t].start \in Nat /\ call[t].num \in Nat /\ call[t].i \in Nat /\ range_end_ \in Nat
    BY <1>1, FrameAssumption DEF TypeOK, Call
  <2>3. start + call[t].num <= range_end_ /\ start \in Nat
    BY <1>1, <2>2, FrameAssumption DEF Fits, Frame, range_begin_
  <2>4. start < call[t].start
    BY <2>1, <2>2, <2>3
  <2> QED
    BY <1>1, <2>1, <2>4, SkippedRoom
<1>2. SkipInv /\ TypeOK /\ [Next]_vars => [\A t \in Task : OutOfRange(t) =>
        \A start \in Frame :
          Fits(start, call[t].num) => Region(start, call[t].num) \cap freed[t] # {}]_vars
  BY <1>1
<1> QED
  BY <1>2, SkipAlways, TypeCorrect, PTL DEF Spec, FailsOnlyWhenFull

-----------------------------------------------------------------------------
(* Cluster chains                                                          *)

\* In the table f, ch[c] is the chain that starts with c, of every c of S, and
\* what is in none of them is free.
Chained(f, S, ch) ==
  /\ f \in [Cluster -> Int] /\ S \subseteq Cluster /\ ch \in [S -> Seq(Cluster)]
  /\ \A c \in S :
       /\ Len(ch[c]) >= 1 /\ ch[c][1] = c /\ f[ch[c][Len(ch[c])]] = kEndOfClusterchain
       /\ \A k \in 1..Len(ch[c]) - 1 : f[ch[c][k]] = ch[c][k + 1]
  /\ \A b, c \in S : \A i \in 1..Len(ch[b]), j \in 1..Len(ch[c]) :
       ch[b][i] = ch[c][j] => b = c /\ i = j
  /\ \A x \in Cluster : f[x] # 0 => \E c \in S : \E i \in 1..Len(ch[c]) : ch[c][i] = x

\* A set of numbers has a least one.
LEMMA LeastOf ==
  ASSUME NEW T \in SUBSET Nat, T # {}
  PROVE  \E n \in T : \A k \in T : n <= k
<1> DEFINE R == OpToRel(<, Nat)
<1>1. IsWellFoundedOn(R, Nat)
  BY NatLessThanWellFounded
<1> HIDE DEF R
<1>2. PICK n \in T : \A k \in T : ~(<<k, n>> \in R)
  BY <1>1, WFMin
<1>3. \A a, b \in Nat : a < b => <<a, b>> \in R
  BY DEF R, OpToRel
<1>4. ASSUME NEW k \in T PROVE n <= k
  <2>1. k \in Nat /\ n \in Nat
    OBVIOUS
  <2>2. ~(k < n)
    BY <1>2, <1>3, <2>1
  <2> QED
    BY <2>1, <2>2
<1> QED
  BY <1>4

\* What holds at the start of a loop and after every round holds to the end.
LEMMA RoundsHold ==
  ASSUME NEW n \in Nat, NEW T, 0 \in T, \A k \in 1..n : k - 1 \in T => k \in T
  PROVE  \A k \in 0..n : k \in T
<1> DEFINE Miss == { k \in 0..n : k \notin T }
<1>1. SUFFICES ASSUME Miss # {} PROVE FALSE
  OBVIOUS
<1>2. Miss \in SUBSET Nat
  OBVIOUS
<1>3. PICK k \in Miss : \A j \in Miss : k <= j
  <2> HIDE DEF Miss
  <2> QED
    BY <1>1, <1>2, LeastOf
<1>4. k \in 1..n
  OBVIOUS
<1>5. k - 1 \in 0..n /\ ~(k <= k - 1)
  BY <1>4
<1>6. k - 1 \notin Miss
  BY <1>3, <1>5
<1> QED
  BY <1>4, <1>5, <1>6

\* run is what Nth passes, n clusters from c.
Walk(f, c, n, run) ==
  /\ run[0] = c /\ \A k \in 1..n : run[k] = NextCluster(f, run[k - 1])
  /\ Nth(f, c, n) = run[n]

LEMMA NthWalks ==
  ASSUME NEW f, NEW c, NEW n \in Nat
  PROVE  \E run : Walk(f, c, n, run)
<1> DEFINE Round(x) == NextCluster(f, x)
           Until(m, g) == g = [k \in 0..m |-> IF k = 0 THEN c ELSE Round(g[k - 1])]
           Runs == { m \in Nat : \E g : Until(m, g) }
<1> HIDE DEF Round
<1>1. 0 \in Runs
  <2>1. Until(0, [k \in 0..0 |-> c])
    OBVIOUS
  <2> QED
    BY <2>1
<1>2. ASSUME NEW k \in 1..n, k - 1 \in Runs PROVE k \in Runs
  <2>1. PICK g : Until(k - 1, g)
    BY <1>2
  <2> DEFINE h == [j \in 0..k |-> IF j = k THEN Round(g[k - 1]) ELSE g[j]]
  <2>2. \A j \in 0..k : h[j] = IF j = 0 THEN c ELSE Round(h[j - 1])
    BY <2>1
  <2>3. Until(k, h)
    BY <2>2
  <2> HIDE DEF Until, h
  <2> QED
    BY <2>3
<1> DEFINE run == CHOOSE g : Until(n, g)
<1>3. Until(n, run)
  <2>1. n \in 0..n
    OBVIOUS
  <2> HIDE DEF Runs
  <2>2. \A k \in 0..n : k \in Runs
    BY <1>1, <1>2, RoundsHold
  <2>3. n \in Runs
    BY <2>1, <2>2
  <2>4. \E g : Until(n, g)
    BY <2>3 DEF Runs
  <2> HIDE DEF Until
  <2> QED
    BY <2>4
<1>4. Nth(f, c, n) = run[n]
  BY DEF Nth, Round
<1> HIDE DEF run
<1>5. run[0] = c /\ \A k \in 1..n : run[k] = Round(run[k - 1])
  BY <1>3
<1> QED
  BY <1>4, <1>5 DEF Round, Walk

\* Facts about one chain.
LEMMA ChainOf ==
  ASSUME NEW f, NEW S, NEW ch, Chained(f, S, ch), NEW c \in S
  PROVE  /\ ch[c] \in Seq(Cluster) /\ Len(ch[c]) \in Nat \ {0} /\ ch[c][1] = c
         /\ \A i \in 1..Len(ch[c]) : ch[c][i] \in Cluster
         /\ \A i, j \in 1..Len(ch[c]) : ch[c][i] = ch[c][j] => i = j
         /\ \A i \in 1..Len(ch[c]) :
              f[ch[c][i]] = IF i = Len(ch[c]) THEN kEndOfClusterchain ELSE ch[c][i + 1]
<1>1. ch[c] \in Seq(Cluster) /\ Len(ch[c]) \in Nat /\ Len(ch[c]) >= 1
  BY LenProperties DEF Chained
<1>2. \A i \in 1..Len(ch[c]) : ch[c][i] \in Cluster
  BY <1>1, ElementOfSeq
<1>3. \A i \in 1..Len(ch[c]) : i # Len(ch[c]) => i \in 1..Len(ch[c]) - 1
  BY <1>1
<1> QED
  BY <1>1, <1>2, <1>3 DEF Chained

\* Nth follows a chain, and stays behind its end.
LEMMA NthOfChain ==
  ASSUME NEW f, NEW S, NEW ch, Chained(f, S, ch), NEW c \in S,
         NEW m \in 1..Len(ch[c]), NEW n \in Nat
  PROVE  Nth(f, ch[c][m], n) = IF n + m <= Len(ch[c]) THEN ch[c][n + m] ELSE kEndOfClusterchain
<1> DEFINE s == ch[c]
           On(k) == IF k + m <= Len(s) THEN s[k + m] ELSE kEndOfClusterchain
<1>1. PICK run : Walk(f, s[m], n, run)
  BY NthWalks
<1>2. /\ Len(s) \in Nat \ {0} /\ m \in 1..Len(s)
      /\ \A i \in 1..Len(s) : s[i] \in Cluster
      /\ \A i \in 1..Len(s) : f[s[i]] = IF i = Len(s) THEN kEndOfClusterchain ELSE s[i + 1]
  BY ChainOf
<1> HIDE DEF s
<1> DEFINE T == {k \in 0..n : run[k] = On(k)}
<1>3. 0 \in T
  BY <1>1, <1>2 DEF Walk
<1>4. ASSUME NEW k \in 1..n, k - 1 \in T PROVE k \in T
  <2>1. run[k] = NextCluster(f, On(k - 1))
    BY <1>1, <1>4 DEF Walk
  <2>2. CASE k - 1 + m <= Len(s)
    <3>1. On(k - 1) = s[k - 1 + m] /\ k - 1 + m \in 1..Len(s)
      BY <1>2, <2>2
    <3>2. run[k] = f[s[k - 1 + m]]
      BY <1>2, <2>1, <3>1 DEF NextCluster
    <3>3. k - 1 + m + 1 = k + m
      BY <1>2
    <3> QED
      BY <1>2, <3>1, <3>2, <3>3
  <2>3. CASE ~(k - 1 + m <= Len(s))
    <3>1. kEndOfClusterchain \notin Cluster
      BY FATAssumption DEF kEndOfClusterchain, Cluster
    <3>2. run[k] = kEndOfClusterchain
      BY <2>1, <2>3, <3>1 DEF NextCluster
    <3> QED
      BY <1>2, <2>3, <3>2
  <2> QED
    BY <2>2, <2>3
<1>5. \A k \in 0..n : k \in T
  <2> HIDE DEF T
  <2> QED
    BY <1>3, <1>4, RoundsHold
<1>6. run[n] = On(n)
  BY <1>5
<1> QED
  BY <1>1, <1>6 DEF s, Walk

LEMMA EndIsNoCluster == kEndOfClusterchain \notin Cluster /\ 0 \notin Cluster /\ kEndOfClusterchain # 0
  BY FATAssumption DEF kEndOfClusterchain, Cluster

LEMMA FiniteVolume == IsFiniteSet(Cluster) /\ Cardinality(Cluster) = LastCluster - 1
  BY FS_Interval, FATAssumption DEF Cluster

\* A chain has as many clusters as it is long, and no more than the volume.
LEMMA LengthOfChain ==
  ASSUME NEW f, NEW S, NEW ch, Chained(f, S, ch), NEW c \in S
  PROVE  /\ Cardinality({ch[c][i] : i \in 1..Len(ch[c])}) = Len(ch[c])
         /\ Len(ch[c]) < LastCluster
<1> DEFINE s == ch[c]
           R == {s[i] : i \in 1..Len(s)}
           g == [i \in 1..Len(s) |-> s[i]]
<1>1. /\ Len(s) \in Nat \ {0}
      /\ \A i \in 1..Len(s) : s[i] \in Cluster
      /\ \A i, j \in 1..Len(s) : s[i] = s[j] => i = j
  BY ChainOf
<1> HIDE DEF s
<1>2. g \in Bijection(1..Len(s), R)
  BY <1>1 DEF Bijection, Injection, Surjection, IsInjective
<1>3. IsFiniteSet(1..Len(s)) /\ Cardinality(1..Len(s)) = Len(s)
  BY <1>1, FS_Interval
<1>4. IsFiniteSet(R) /\ Cardinality(R) = Len(s)
  <2> HIDE DEF R, g
  <2>1. ExistsBijection(1..Len(s), R)
    BY <1>2 DEF ExistsBijection
  <2> QED
    BY <1>3, <2>1, FS_Bijection
<1>5. Cardinality(R) <= Cardinality(Cluster)
  <2>1. R \in SUBSET Cluster
    BY <1>1
  <2> HIDE DEF R
  <2> QED
    BY <2>1, FiniteVolume, FS_Subset
<1> QED
  BY <1>1, <1>4, <1>5, FiniteVolume, FATAssumption DEF s

\* After tells how much of the chain is left, and with it ExtendCluster finds
\* the end.
LEMMA AfterOfChain ==
  ASSUME NEW f, NEW S, NEW ch, Chained(f, S, ch), NEW c \in S, NEW m \in 1..Len(ch[c])
  PROVE  After(f, ch[c][m]) = Len(ch[c]) - m
<1> DEFINE s == ch[c]
           L == Len(s)
           AtEnd(k) == NextCluster(f, Nth(f, s[m], k)) = kEndOfClusterchain
                      /\ Nth(f, s[m], k) # kEndOfClusterchain
<1>1. /\ L \in Nat \ {0} /\ m \in 1..L
      /\ \A i \in 1..L : s[i] \in Cluster
      /\ \A i \in 1..L : f[s[i]] = IF i = L THEN kEndOfClusterchain ELSE s[i + 1]
  BY ChainOf
<1>2. \A k \in Nat : Nth(f, s[m], k) = IF k + m <= L THEN s[k + m] ELSE kEndOfClusterchain
  BY NthOfChain
<1>3. L < LastCluster
  BY LengthOfChain
<1> HIDE DEF s, L
<1>4. L - m \in 0..LastCluster
  BY <1>1, <1>3, FATAssumption
<1>5. AtEnd(L - m)
  <2>1. Nth(f, s[m], L - m) = s[L] /\ L \in 1..L
    BY <1>1, <1>2
  <2> QED
    BY <1>1, <2>1, EndIsNoCluster DEF NextCluster
<1>6. ASSUME NEW k \in 0..LastCluster, AtEnd(k) PROVE k = L - m
  <2>1. k + m <= L /\ k + m \in 1..L
    BY <1>1, <1>2, <1>6
  <2>2. f[s[k + m]] = kEndOfClusterchain
    BY <1>1, <1>2, <1>6, <2>1 DEF NextCluster
  <2>3. k + m # L => k + m + 1 \in 1..L
    BY <1>1, <2>1
  <2>4. k + m = L
    BY <1>1, <2>1, <2>2, <2>3, EndIsNoCluster
  <2> QED
    BY <1>1, <2>4
<1>7. After(f, s[m]) = CHOOSE k \in 0..LastCluster : AtEnd(k)
  BY DEF After
<1> HIDE DEF AtEnd
<1> QED
  BY <1>4, <1>5, <1>6, <1>7 DEF s, L

-----------------------------------------------------------------------------
(* The search for free clusters                                            *)

\* How many numbers of F come before c.
Rank(F, c) == Cardinality({x \in F : x < c})

\* In a set of numbers there is one that has any number of them before it.
LEMMA Ranked ==
  ASSUME NEW F \in SUBSET Nat, IsFiniteSet(F), NEW n \in Nat, n <= Cardinality(F)
  PROVE  \A k \in 1..n : \E c \in F : Rank(F, c) = k - 1
<1> DEFINE Before(c) == {x \in F : x < c}
           T == {k \in 0..n : k = 0 \/ \E c \in F : Rank(F, c) = k - 1}
<1>0. \A x \in F : x \in Nat
  OBVIOUS
<1>1. 0 \in T
  OBVIOUS
<1>2. ASSUME NEW k \in 1..n, k - 1 \in T PROVE k \in T
  <2>1. Cardinality(F) \in Nat /\ Cardinality(F) >= 1
    BY FS_CardinalityType
  <2>2. CASE k = 1
    <3>1. F # {}
      BY <2>1, FS_EmptySet
    <3>2. PICK c \in F : \A x \in F : c <= x
      BY <3>1, LeastOf
    <3>3. Before(c) = {}
      <4>1. \A x \in F : ~(x < c)
        BY <1>0, <3>2
      <4> QED
        BY <4>1
    <3>4. Rank(F, c) = k - 1
      BY <2>2, <3>3, FS_EmptySet DEF Rank
    <3> QED
      BY <3>4
  <2>3. CASE k # 1
    <3>1. PICK c \in F : Cardinality(Before(c)) = k - 1 - 1
      BY <1>2, <2>3 DEF Rank
    <3>2. IsFiniteSet(Before(c)) /\ c \notin Before(c)
      <4>1. Before(c) \in SUBSET F
        OBVIOUS
      <4> QED
        BY <4>1, FS_Subset
    <3>3. Cardinality(Before(c) \cup {c}) = k - 1
      <4> HIDE DEF Before
      <4>1. Cardinality(Before(c) \cup {c}) = Cardinality(Before(c)) + 1
        BY <3>2, FS_AddElement
      <4> QED
        BY <3>1, <4>1
    <3> DEFINE U == {x \in F : c < x}
    <3>4. U # {}
      <4>1. SUFFICES ASSUME U = {} PROVE FALSE
        OBVIOUS
      <4>2. F = Before(c) \cup {c}
        <5>1. \A x \in F : ~(c < x)
          BY <4>1
        <5>2. \A x \in F : x < c \/ x = c
          BY <1>0, <5>1
        <5> QED
          BY <5>2
      <4>3. Cardinality(F) = k - 1
        BY <3>3, <4>2
      <4> QED
        BY <4>3
    <3>5. PICK d \in U : \A x \in U : d <= x
      <4>1. U \in SUBSET Nat
        OBVIOUS
      <4> HIDE DEF U
      <4> QED
        BY <3>4, <4>1, LeastOf
    <3>6. Before(d) = Before(c) \cup {c}
      <4>1. d \in F /\ c < d /\ \A x \in F : c < x => d <= x
        BY <3>5
      <4>2. \A x \in F : x < d <=> x < c \/ x = c
        BY <1>0, <4>1
      <4> QED
        BY <4>2
    <3>7. d \in F /\ Rank(F, d) = k - 1
      BY <3>3, <3>5, <3>6 DEF Rank
    <3> QED
      BY <3>7
  <2> QED
    BY <2>2, <2>3
<1>3. \A k \in 0..n : k \in T
  <2> HIDE DEF T
  <2> QED
    BY <1>1, <1>2, RoundsHold
<1> QED
  BY <1>3

\* The candidates are free, and no two are the same.
LEMMA Candidates ==
  ASSUME NEW f, NEW n \in Nat, n <= Cardinality(FreeClusters(f))
  PROVE  /\ \A k \in 1..n : Candidate(f, k) \in FreeClusters(f)
         /\ \A j, k \in 1..n : Candidate(f, j) = Candidate(f, k) => j = k
<1> DEFINE F == FreeClusters(f)
<1>1. F \in SUBSET Nat /\ F \in SUBSET Cluster
  BY FATAssumption DEF FreeClusters, Cluster
<1>2. IsFiniteSet(F)
  BY <1>1, FiniteVolume, FS_Subset
<1>0. n <= Cardinality(F)
  OBVIOUS
<1>3. \A k \in 1..n : \E c \in F : Rank(F, c) = k - 1
  <2> HIDE DEF F
  <2> QED
    BY <1>0, <1>1, <1>2, Ranked
<1>4. \A k \in 1..n : Candidate(f, k) = CHOOSE c \in F : Rank(F, c) = k - 1
  BY DEF Candidate, Rank
<1> HIDE DEF F
<1>5. \A k \in 1..n : Candidate(f, k) \in F /\ Rank(F, Candidate(f, k)) = k - 1
  BY <1>3, <1>4
<1> QED
  BY <1>5 DEF F

-----------------------------------------------------------------------------
(* Chains grow                                                             *)

\* ch after n candidates of f have been added to the chain of b.
Longer(f, ch, b, n) == [ch EXCEPT ![b] = @ \o [k \in 1..n |-> Candidate(f, k)]]

LEMMA LongerChain ==
  ASSUME NEW f, NEW S, NEW ch, Chained(f, S, ch), NEW b \in S,
         NEW n \in Nat, n <= Cardinality(FreeClusters(f))
  PROVE  LET more == Longer(f, ch, b, n)
             L == Len(ch[b])
         IN  /\ more \in [S -> Seq(Cluster)]
             /\ Len(more[b]) = L + n
             /\ \A i \in 1..L + n : more[b][i] = IF i <= L THEN ch[b][i] ELSE Candidate(f, i - L)
             /\ \A c \in S \ {b} : more[c] = ch[c]
<1> DEFINE more == Longer(f, ch, b, n)
           L == Len(ch[b])
           new == [k \in 1..n |-> Candidate(f, k)]
<1>1. ch[b] \in Seq(Cluster) /\ L \in Nat
  BY ChainOf
<1>2. ch \in [S -> Seq(Cluster)]
  BY DEF Chained
<1>3. \A k \in 1..n : Candidate(f, k) \in Cluster
  BY Candidates DEF FreeClusters
<1>4. new \in Seq(Cluster) /\ Len(new) = n /\ \A k \in 1..n : new[k] = Candidate(f, k)
  <2>1. new \in [1..n -> Cluster]
    BY <1>3
  <2>2. new \in Seq(Cluster)
    BY <2>1, SeqDef
  <2> QED
    BY <2>1, <2>2, LenProperties
<1> HIDE DEF new
<1>5. /\ ch[b] \o new \in Seq(Cluster) /\ Len(ch[b] \o new) = L + n
      /\ \A i \in 1..L + n : (ch[b] \o new)[i] = IF i <= L THEN ch[b][i] ELSE new[i - L]
  BY <1>1, <1>4, ConcatProperties
<1>6. more = [ch EXCEPT ![b] = ch[b] \o new]
  BY DEF Longer, new
<1>7. more[b] = ch[b] \o new /\ \A c \in S \ {b} : more[c] = ch[c]
  BY <1>2, <1>6
<1>8. more \in [S -> Seq(Cluster)]
  BY <1>2, <1>5, <1>6
<1>9. \A i \in 1..L + n : i <= L \/ i - L \in 1..n
  BY <1>1
<1> HIDE DEF more
<1>10. \A i \in 1..L + n : more[b][i] = IF i <= L THEN ch[b][i] ELSE Candidate(f, i - L)
  BY <1>4, <1>5, <1>7, <1>9
<1> QED
  BY <1>5, <1>7, <1>8, <1>10 DEF more

\* What ExtendCluster writes: from the end of the chain on, each candidate is
\* the next of the one before it, and the last one ends the chain.
LEMMA Extended ==
  ASSUME NEW f, NEW S, NEW ch, Chained(f, S, ch), NEW b \in S, NEW m \in 1..Len(ch[b]),
         NEW n \in Nat \ {0}, n <= Cardinality(FreeClusters(f))
  PROVE  LET more == Longer(f, ch, b, n)[b]
             L == Len(ch[b])
             new == ExtendCluster(f, ch[b][m], n)
         IN  /\ new.last = more[L + n]
             /\ DOMAIN new.fat = Cluster
             /\ \A i \in L..L + n :
                  new.fat[more[i]] = IF i = L + n THEN kEndOfClusterchain ELSE more[i + 1]
             /\ \A x \in Cluster : (\A i \in L..L + n : more[i] # x) => new.fat[x] = f[x]
<1> DEFINE more == Longer(f, ch, b, n)[b]
           L == Len(ch[b])
           link == [k \in 0..n |-> IF k = 0 THEN Nth(f, ch[b][m], After(f, ch[b][m])) ELSE Candidate(f, k)]
           Position(x) == {k \in 0..n : link[k] = x}
           table == [x \in Cluster |->
                       IF Position(x) = {} THEN f[x]
                       ELSE LET k == CHOOSE k \in Position(x) : TRUE
                            IN  IF k = n THEN kEndOfClusterchain ELSE link[k + 1]]
<1>1. L \in Nat \ {0} /\ ch[b][L] \in Cluster /\ f[ch[b][L]] = kEndOfClusterchain
  BY ChainOf
<1>2. /\ \A i \in 1..L + n : more[i] = IF i <= L THEN ch[b][i] ELSE Candidate(f, i - L)
  BY LongerChain
<1>3. Nth(f, ch[b][m], After(f, ch[b][m])) = ch[b][L]
  <2>1. After(f, ch[b][m]) = L - m /\ L - m \in Nat
    BY <1>1, AfterOfChain
  <2>2. Nth(f, ch[b][m], L - m) = IF L - m + m <= L THEN ch[b][L - m + m] ELSE kEndOfClusterchain
    BY <2>1, NthOfChain
  <2>3. L - m + m = L
    BY <1>1
  <2> QED
    BY <1>1, <2>1, <2>2, <2>3
<1>4. \A k \in 0..n : link[k] = more[L + k]
  <2>1. \A k \in 0..n : L + k \in 1..L + n /\ (k = 0 <=> L + k <= L) /\ L + k - L = k
    BY <1>1
  <2>2. \A k \in 0..n : link[k] = IF k = 0 THEN ch[b][L] ELSE Candidate(f, k)
    BY <1>3
  <2> HIDE DEF link, more
  <2>3. L + 0 = L
    BY <1>1
  <2> QED
    BY <1>2, <2>1, <2>2, <2>3
<1>5. \A j, k \in 0..n : link[j] = link[k] => j = k
  <2>1. \A k \in 1..n : Candidate(f, k) \in FreeClusters(f)
    BY Candidates
  <2>2. ch[b][L] \notin FreeClusters(f)
    BY <1>1, EndIsNoCluster DEF FreeClusters
  <2>3. \A k \in 0..n : link[k] = IF k = 0 THEN ch[b][L] ELSE Candidate(f, k)
    BY <1>3
  <2>4. \A j, k \in 1..n : Candidate(f, j) = Candidate(f, k) => j = k
    BY Candidates
  <2>5. \A k \in 0..n : k = 0 \/ k \in 1..n
    OBVIOUS
  <2> HIDE DEF link
  <2> QED
    BY <2>1, <2>2, <2>3, <2>4, <2>5
<1>6. ExtendCluster(f, ch[b][m], n).fat = table /\ ExtendCluster(f, ch[b][m], n).last = link[n]
  BY DEF ExtendCluster
<1>7. \A k \in 0..n : link[k] \in Cluster
  <2>1. \A k \in 1..n : Candidate(f, k) \in Cluster
    BY Candidates DEF FreeClusters
  <2>2. \A k \in 0..n : k = 0 \/ k \in 1..n
    OBVIOUS
  <2> QED
    BY <1>1, <1>3, <2>1, <2>2
<1> HIDE DEF link
<1>8. ASSUME NEW k \in 0..n PROVE table[link[k]] = IF k = n THEN kEndOfClusterchain ELSE link[k + 1]
  <2>1. Position(link[k]) = {k}
    BY <1>5
  <2>2. (CHOOSE j \in Position(link[k]) : TRUE) = k
    BY <2>1
  <2> HIDE DEF Position
  <2> QED
    BY <1>7, <2>1, <2>2
<1>9. \A x \in Cluster : (\A k \in 0..n : link[k] # x) => table[x] = f[x]
  OBVIOUS
<1>10. DOMAIN table = Cluster
  OBVIOUS
<1> HIDE DEF table, more
<1>11. \A i \in L..L + n :
         table[more[i]] = IF i = L + n THEN kEndOfClusterchain ELSE more[i + 1]
  <2> TAKE i \in L..L + n
  <2>1. i - L \in 0..n /\ L + (i - L) = i /\ (i = L + n <=> i - L = n)
    BY <1>1
  <2>2. i # L + n => i - L + 1 \in 0..n /\ L + (i - L + 1) = i + 1
    BY <1>1, <2>1
  <2> DEFINE k == i - L
  <2>3. k \in 0..n /\ link[k] = more[i] /\ (i = L + n <=> k = n)
    BY <1>4, <2>1
  <2>4. i # L + n => link[k + 1] = more[i + 1]
    <3> HIDE DEF L
    <3>1. i # L + n => link[i - L + 1] = more[L + (i - L + 1)]
      BY ONLY <1>4, <2>2
    <3> QED
      BY ONLY <2>2, <3>1 DEF k
  <2> HIDE DEF k
  <2>5. table[link[k]] = IF k = n THEN kEndOfClusterchain ELSE link[k + 1]
    BY <1>8, <2>3
  <2> QED
    BY <2>3, <2>4, <2>5
<1>12. \A x \in Cluster : (\A i \in L..L + n : more[i] # x) => table[x] = f[x]
  <2>1. \A k \in 0..n : L + k \in L..L + n
    BY <1>1
  <2> QED
    BY <1>4, <1>9, <2>1
<1>13. link[n] = more[L + n]
  BY <1>4
<1> QED
  BY <1>6, <1>10, <1>11, <1>12, <1>13 DEF more

LEMMA ExtendedLast ==
  ASSUME NEW f, NEW S, NEW ch, Chained(f, S, ch), NEW b \in S, NEW L, L = Len(ch[b]),
         NEW n \in Nat \ {0}, n <= Cardinality(FreeClusters(f))
  PROVE  ExtendCluster(f, ch[b][L], n).last = Longer(f, ch, b, n)[b][L + n]
<1>1. Len(ch[b]) \in 1..Len(ch[b])
  <2>1. Len(ch[b]) \in Nat \ {0}
    BY ChainOf
  <2> QED
    BY <2>1
<1>2. ExtendCluster(f, ch[b][Len(ch[b])], n).last = Longer(f, ch, b, n)[b][Len(ch[b]) + n]
  BY <1>1, Extended
<1> QED
  BY <1>2

\* ExtendCluster makes one chain longer, and nothing else.
LEMMA ExtendsChain ==
  ASSUME NEW f, NEW S, NEW ch, Chained(f, S, ch), NEW b \in S, NEW m \in 1..Len(ch[b]),
         NEW n \in Nat \ {0}, n <= Cardinality(FreeClusters(f))
  PROVE  Chained(ExtendCluster(f, ch[b][m], n).fat, S, Longer(f, ch, b, n))
<1> DEFINE g == ExtendCluster(f, ch[b][m], n).fat
           more == Longer(f, ch, b, n)
           L == Len(ch[b])
<1>1. L \in Nat \ {0} /\ \A i \in 1..L : ch[b][i] \in Cluster
  BY ChainOf
<1>2. /\ more \in [S -> Seq(Cluster)] /\ Len(more[b]) = L + n
      /\ \A i \in 1..L + n : more[b][i] = IF i <= L THEN ch[b][i] ELSE Candidate(f, i - L)
      /\ \A c \in S \ {b} : more[c] = ch[c]
  BY LongerChain
<1>3. /\ DOMAIN g = Cluster
      /\ \A i \in L..L + n :
           g[more[b][i]] = IF i = L + n THEN kEndOfClusterchain ELSE more[b][i + 1]
      /\ \A x \in Cluster : (\A i \in L..L + n : more[b][i] # x) => g[x] = f[x]
  BY Extended
<1> HIDE DEF g, more
<1>4. \A i \in 1..L + n : i <= L \/ i - L \in 1..n
  BY <1>1
\* What is added was free.
<1>5. \A i \in 1..L + n : i > L => more[b][i] \in Cluster /\ f[more[b][i]] = 0
  <2>1. \A k \in 1..n : Candidate(f, k) \in Cluster /\ f[Candidate(f, k)] = 0
    BY Candidates DEF FreeClusters
  <2> QED
    BY <1>1, <1>2, <1>4, <2>1
<1>6. \A c \in S : \A i \in 1..Len(ch[c]) : ch[c][i] \in Cluster /\ f[ch[c][i]] # 0
  <2> TAKE c \in S
  <2>1. \A i \in 1..Len(ch[c]) : ch[c][i] \in Cluster
    BY ChainOf
  <2>2. \A i \in 1..Len(ch[c]) : i # Len(ch[c]) => i + 1 \in 1..Len(ch[c])
    BY ChainOf
  <2>3. \A i \in 1..Len(ch[c]) :
          f[ch[c][i]] = IF i = Len(ch[c]) THEN kEndOfClusterchain ELSE ch[c][i + 1]
    BY ChainOf
  <2> QED
    BY ONLY <2>1, <2>2, <2>3, EndIsNoCluster
<1>7. \A i \in 1..L + n : more[b][i] \in Cluster
  BY <1>1, <1>2, <1>5
<1>8. \A i, j \in 1..L + n : more[b][i] = more[b][j] => i = j
  <2> TAKE i, j \in 1..L + n
  <2> HAVE more[b][i] = more[b][j]
  <2>1. CASE i <= L /\ j <= L
    BY <1>1, <1>2, <2>1, ChainOf
  <2>2. CASE i > L /\ j > L
    <3>1. Candidate(f, i - L) = Candidate(f, j - L) /\ i - L \in 1..n /\ j - L \in 1..n
      BY <1>1, <1>2, <1>4, <2>2
    <3>2. i - L = j - L
      BY <3>1, Candidates
    <3> QED
      BY <1>1, <3>2
  <2>3. CASE (i <= L /\ j > L) \/ (i > L /\ j <= L)
    <3>0. \A k \in 1..L : f[ch[b][k]] # 0
      BY <1>6
    <3>1. ASSUME NEW k \in 1..L + n, k <= L PROVE f[more[b][k]] # 0
      <4>1. k \in 1..L /\ more[b][k] = ch[b][k]
        BY <1>1, <1>2, <3>1
      <4> QED
        BY <3>0, <4>1
    <3> QED
      BY <1>5, <2>3, <3>1
  <2> QED
    BY <1>1, <2>1, <2>2, <2>3
<1>9. g \in [Cluster -> Int]
  <2>1. f \in [Cluster -> Int] /\ Cluster \subseteq Int /\ kEndOfClusterchain \in Int
    BY FATAssumption DEF Chained, Cluster, kEndOfClusterchain
  <2>2. ASSUME NEW x \in Cluster PROVE g[x] \in Int
    <3>1. CASE \E i \in L..L + n : more[b][i] = x
      <4>1. PICK i \in L..L + n : more[b][i] = x
        BY <3>1
      <4>2. i # L + n => i + 1 \in 1..L + n
        BY <1>1
      <4> QED
        BY <1>3, <1>7, <2>1, <4>1, <4>2
    <3>2. CASE \A i \in L..L + n : more[b][i] # x
      BY <1>3, <2>1, <3>2
    <3> QED
      BY <3>1, <3>2
  <2>3. g = [x \in Cluster |-> g[x]]
    BY <1>3 DEF g, ExtendCluster
  <2> QED
    BY <2>2, <2>3
\* Where a chain is as it was.
<1>10. \A c \in S : \A i \in 1..Len(ch[c]) :
         c # b \/ i < L => g[ch[c][i]] = f[ch[c][i]]
  <2> TAKE c \in S
  <2> TAKE i \in 1..Len(ch[c])
  <2> HAVE c # b \/ i < L
  <2>1. ASSUME NEW j \in L..L + n PROVE more[b][j] # ch[c][i]
    <3>1. CASE j = L
      <4>1. more[b][j] = ch[b][L] /\ L \in 1..L
        BY <1>1, <1>2, <3>1
      <4> QED
        BY <1>1, <4>1 DEF Chained
    <3>2. CASE j # L
      BY <1>1, <1>5, <1>6, <3>2
    <3> QED
      BY <3>1, <3>2
  <2> QED
    BY <1>3, <1>6, <2>1
<1>11. ASSUME NEW c \in S
       PROVE  /\ Len(more[c]) >= 1 /\ more[c][1] = c
              /\ g[more[c][Len(more[c])]] = kEndOfClusterchain
              /\ \A k \in 1..Len(more[c]) - 1 : g[more[c][k]] = more[c][k + 1]
  <2>1. CASE c = b
    <3>1. more[b][1] = b
      BY <1>1, <1>2, ChainOf
    <3>2. L + n \in L..L + n
      BY <1>1
    <3>3. ASSUME NEW k \in 1..L + n - 1 PROVE g[more[b][k]] = more[b][k + 1]
      <4>1. CASE k < L
        <5>1. k \in 1..L /\ k + 1 \in 1..L
          BY <1>1, <4>1
        <5> QED
          <6>1. g[ch[b][k]] = ch[b][k + 1]
            <7>1. g[ch[b][k]] = f[ch[b][k]]
              BY <1>10, <4>1, <5>1
            <7>2. f[ch[b][k]] = ch[b][k + 1]
              BY <4>1, <5>1, ChainOf
            <7> QED
              BY <7>1, <7>2
          <6>2. more[b][k] = ch[b][k] /\ more[b][k + 1] = ch[b][k + 1]
            BY <1>1, <1>2, <5>1
          <6> QED
            BY <6>1, <6>2
      <4>2. CASE ~(k < L)
        <5>1. k \in L..L + n /\ k # L + n
          BY <1>1, <4>2
        <5> QED
          BY <1>3, <5>1
      <4> QED
        BY <4>1, <4>2
    <3> QED
      <4>1. Len(more[b]) >= 1 /\ g[more[b][Len(more[b])]] = kEndOfClusterchain
        BY <1>1, <1>2, <1>3, <3>2
      <4>2. \A k \in 1..Len(more[b]) - 1 : g[more[b][k]] = more[b][k + 1]
        <5>1. Len(more[b]) - 1 = L + n - 1
          BY <1>2
        <5>2. \A k \in 1..L + n - 1 : g[more[b][k]] = more[b][k + 1]
          BY <3>3
        <5> HIDE DEF L
        <5> QED
          BY <5>1, <5>2
      <4> QED
        BY <2>1, <3>1, <4>1, <4>2
  <2>2. CASE c # b
    <3>1. more[c] = ch[c] /\ Len(ch[c]) \in Nat
      BY <1>2, <2>2, ChainOf
    <3>2. \A i \in 1..Len(ch[c]) : g[ch[c][i]] = f[ch[c][i]]
      BY <1>10, <2>2
    <3>3. /\ Len(ch[c]) >= 1 /\ ch[c][1] = c /\ f[ch[c][Len(ch[c])]] = kEndOfClusterchain
          /\ \A k \in 1..Len(ch[c]) - 1 : f[ch[c][k]] = ch[c][k + 1]
      BY DEF Chained
    <3> QED
      BY <3>1, <3>2, <3>3
  <2> QED
    BY <2>1, <2>2
<1>12. ASSUME NEW a \in S, NEW c \in S, NEW i \in 1..Len(more[a]), NEW j \in 1..Len(more[c]),
              more[a][i] = more[c][j]
       PROVE  a = c /\ i = j
  <2>1. CASE a = b /\ c = b
    BY <1>2, <1>8, <1>12, <2>1
  <2>2. CASE a # b /\ c # b
    <3>1. more[a] = ch[a] /\ more[c] = ch[c]
      BY <1>2, <2>2
    <3> QED
      BY <1>12, <3>1 DEF Chained
  <2>3. CASE a = b /\ c # b
    <3>1. more[c] = ch[c] /\ i \in 1..L + n
      BY <1>2, <2>3
    <3>2. i <= L
      BY <1>1, <1>5, <1>6, <1>12, <2>3, <3>1
    <3>3. more[b][i] = ch[b][i] /\ i \in 1..L
      BY <1>1, <1>2, <3>1, <3>2
    <3> QED
      BY <1>12, <2>3, <3>1, <3>3 DEF Chained
  <2>4. CASE a # b /\ c = b
    <3>1. more[a] = ch[a] /\ i \in 1..Len(ch[a]) /\ j \in 1..L + n
      BY <1>2, <2>4
    <3>2. f[ch[a][i]] # 0 /\ ch[a][i] = more[b][j]
      BY <1>6, <1>12, <2>4, <3>1
    <3>3. j <= L
      BY <1>1, <1>5, <3>1, <3>2
    <3>4. more[b][j] = ch[b][j] /\ j \in 1..L
      <4> HIDE DEF L
      <4>1. j \in 1..L
        BY ONLY <1>1, <3>1, <3>3
      <4> QED
        BY ONLY <1>2, <3>1, <3>3, <4>1
    <3>5. \A k \in 1..Len(ch[a]), l \in 1..Len(ch[b]) : ch[a][k] # ch[b][l]
      BY <2>4 DEF Chained
    <3> QED
      BY ONLY <3>1, <3>2, <3>4, <3>5
  <2> QED
    BY <2>1, <2>2, <2>3, <2>4
<1>13. ASSUME NEW x \in Cluster, g[x] # 0
       PROVE  \E c \in S : \E i \in 1..Len(more[c]) : more[c][i] = x
  <2>1. CASE \E i \in L..L + n : more[b][i] = x
    <3>1. \A i \in L..L + n : i \in 1..L + n
      BY <1>1
    <3> QED
      BY <1>2, <2>1, <3>1
  <2>2. CASE \A i \in L..L + n : more[b][i] # x
    <3>1. f[x] # 0
      BY <1>3, <1>13, <2>2
    <3>2. PICK c \in S : \E i \in 1..Len(ch[c]) : ch[c][i] = x
      BY <3>1 DEF Chained
    <3>3. PICK i \in 1..Len(ch[c]) : ch[c][i] = x
      BY <3>2
    <3>4. i \in 1..Len(more[c]) /\ more[c][i] = x
      <4>1. CASE c = b
        <5>1. i \in 1..L + n /\ i <= L
          BY <1>1, <3>3, <4>1
        <5> QED
          BY <1>2, <3>3, <4>1, <5>1
      <4>2. CASE c # b
        BY <1>2, <3>3, <4>2
      <4> QED
        BY <4>1, <4>2
    <3> QED
      BY <3>4
  <2> QED
    BY <2>1, <2>2
<1> QED
  BY <1>2, <1>9, <1>11, <1>12, <1>13 DEF Chained, g, more
FreeCount(f) == Cardinality(FreeClusters(f))

LEMMA FreeAreFinite ==
  ASSUME NEW f
  PROVE  IsFiniteSet(FreeClusters(f)) /\ FreeCount(f) \in Nat
<1>1. FreeClusters(f) \in SUBSET Cluster
  BY DEF FreeClusters
<1> QED
  BY <1>1, FiniteVolume, FS_Subset, FS_CardinalityType DEF FreeCount

\* ExtendCluster takes as many free clusters as it is asked for.
LEMMA ExtendTakes ==
  ASSUME NEW f, NEW S, NEW ch, Chained(f, S, ch), NEW b \in S, NEW m \in 1..Len(ch[b]),
         NEW n \in Nat \ {0}, n <= FreeCount(f)
  PROVE  FreeCount(ExtendCluster(f, ch[b][m], n).fat) = FreeCount(f) - n
<1> DEFINE g == ExtendCluster(f, ch[b][m], n).fat
           more == Longer(f, ch, b, n)
           L == Len(ch[b])
           new == [k \in 1..n |-> Candidate(f, k)]
           N == {new[k] : k \in 1..n}
<1>1. L \in Nat \ {0} /\ ch[b][L] \in Cluster /\ f[ch[b][L]] = kEndOfClusterchain
  BY ChainOf
<1>2. Len(more[b]) = L + n
      /\ \A i \in 1..L + n : more[b][i] = IF i <= L THEN ch[b][i] ELSE Candidate(f, i - L)
  BY LongerChain DEF FreeCount
<1>3. /\ \A i \in L..L + n :
           g[more[b][i]] = IF i = L + n THEN kEndOfClusterchain ELSE more[b][i + 1]
      /\ \A x \in Cluster : (\A i \in L..L + n : more[b][i] # x) => g[x] = f[x]
  BY Extended DEF FreeCount
<1>4. /\ \A k \in 1..n : new[k] \in FreeClusters(f)
      /\ \A j, k \in 1..n : new[j] = new[k] => j = k
  BY Candidates DEF FreeCount
<1>5. more \in [S -> Seq(Cluster)]
  BY LongerChain DEF FreeCount
<1> HIDE DEF g, more
<1>6. \A i \in 1..L + n : more[b][i] \in Cluster
  <2>1. more[b] \in Seq(Cluster)
    BY <1>5
  <2> QED
    BY <1>2, <2>1, ElementOfSeq
<1>7. FreeClusters(g) = FreeClusters(f) \ N
  <2>1. ASSUME NEW x \in FreeClusters(g) PROVE x \in FreeClusters(f) \ N
    <3>1. x \in Cluster /\ g[x] = 0
      BY DEF FreeClusters
    <3>2. ASSUME NEW i \in L..L + n, more[b][i] = x PROVE FALSE
      <4>1. i # L + n => i + 1 \in 1..L + n
        BY <1>1
      <4> QED
        BY <1>3, <1>6, <3>1, <3>2, <4>1, EndIsNoCluster
    <3>3. f[x] = 0
      BY <1>3, <3>1, <3>2
    <3>4. ASSUME NEW k \in 1..n PROVE new[k] # x
      <4>1. L + k \in L..L + n /\ L + k \in 1..L + n /\ ~(L + k <= L) /\ L + k - L = k
        <5> HIDE DEF L
        <5> QED
          BY ONLY <1>1, n \in Nat
      <4>2. more[b][L + k] = new[k]
        <5> HIDE DEF L
        <5> DEFINE i == L + k
        <5>1. i \in 1..L + n /\ ~(i <= L) /\ i - L = k
          BY ONLY <1>1, <4>1
        <5> HIDE DEF i
        <5>2. more[b][i] = Candidate(f, i - L)
          BY ONLY <1>2, <5>1
        <5>3. new[k] = Candidate(f, k)
          OBVIOUS
        <5> HIDE DEF new
        <5> QED
          BY ONLY <5>1, <5>2, <5>3 DEF i
      <4> QED
        BY <3>2, <4>1, <4>2
    <3> QED
      BY <3>1, <3>3, <3>4 DEF FreeClusters
  <2>2. ASSUME NEW x \in FreeClusters(f), x \notin N PROVE x \in FreeClusters(g)
    <3>1. x \in Cluster /\ f[x] = 0
      BY DEF FreeClusters
    <3>2. ASSUME NEW i \in L..L + n PROVE more[b][i] # x
      <4>1. CASE i = L
        BY <1>1, <1>2, <3>1, <4>1, EndIsNoCluster
      <4>2. CASE i # L
        <5>1. i - L \in 1..n /\ i \in 1..L + n /\ ~(i <= L)
          BY <1>1, <4>2
        <5>2. more[b][i] = new[i - L]
          BY <1>2, <5>1
        <5> QED
          BY <2>2, <5>1, <5>2
      <4> QED
        BY <4>1, <4>2
    <3> QED
      BY <1>3, <3>1, <3>2 DEF FreeClusters
  <2> QED
    BY <2>1, <2>2
<1>8. Cardinality(N) = n
  <2> HIDE DEF new
  <2>1. [k \in 1..n |-> new[k]] \in Bijection(1..n, N)
    BY <1>4 DEF Bijection, Injection, Surjection, IsInjective
  <2> HIDE DEF N
  <2>2. ExistsBijection(1..n, N)
    BY <2>1 DEF ExistsBijection
  <2>3. IsFiniteSet(1..n) /\ Cardinality(1..n) = n
    BY FS_Interval
  <2> QED
    BY <2>2, <2>3, FS_Bijection
<1>9. FreeClusters(f) \cap N = N
  BY <1>4
<1> HIDE DEF N
<1>10. Cardinality(FreeClusters(f) \ N) = Cardinality(FreeClusters(f)) - n
  BY <1>8, <1>9, FreeAreFinite, FS_Difference
<1> QED
  BY <1>7, <1>10 DEF FreeCount, g

\* Every chain of ch is the beginning of one of more.
Grown(S, ch, more) ==
  \A c \in S : /\ Len(ch[c]) <= Len(more[c])
               /\ \A i \in 1..Len(ch[c]) : i \in 1..Len(more[c]) /\ more[c][i] = ch[c][i]

LEMMA LongerIsGrown ==
  ASSUME NEW f, NEW S, NEW ch, Chained(f, S, ch), NEW b \in S,
         NEW n \in Nat, n <= FreeCount(f)
  PROVE  Grown(S, ch, Longer(f, ch, b, n))
<1> DEFINE more == Longer(f, ch, b, n)
           L == Len(ch[b])
<1>1. /\ Len(more[b]) = L + n
      /\ \A i \in 1..L + n : more[b][i] = IF i <= L THEN ch[b][i] ELSE Candidate(f, i - L)
      /\ \A c \in S \ {b} : more[c] = ch[c]
  BY LongerChain DEF FreeCount
<1> HIDE DEF more
<1>2. \A c \in S : Len(ch[c]) \in Nat
  BY ChainOf
<1>3. Len(ch[b]) <= Len(more[b])
      /\ \A i \in 1..Len(ch[b]) : i \in 1..Len(more[b]) /\ more[b][i] = ch[b][i]
  <2>1. \A i \in 1..L : i \in 1..L + n /\ i <= L
    BY <1>2
  <2> QED
    BY <1>1, <1>2, <2>1
<1>4. \A c \in S \ {b} : Len(ch[c]) <= Len(more[c])
        /\ \A i \in 1..Len(ch[c]) : i \in 1..Len(more[c]) /\ more[c][i] = ch[c][i]
  BY <1>1, <1>2
<1>5. \A c \in S : c = b \/ c \in S \ {b}
  OBVIOUS
<1> QED
  BY <1>3, <1>4, <1>5 DEF Grown, more

\* A first cluster makes a chain of its own.
LEMMA FirstCluster ==
  ASSUME NEW f, NEW S, NEW ch, Chained(f, S, ch), NEW first \in FreeClusters(f)
  PROVE  LET one == [f EXCEPT ![first] = kEndOfClusterchain]
             more == [c \in S \cup {first} |-> IF c = first THEN <<first>> ELSE ch[c]]
         IN  /\ first \in Cluster /\ first \notin S
             /\ Chained(one, S \cup {first}, more)
             /\ FreeCount(one) = FreeCount(f) - 1
<1> DEFINE one == [f EXCEPT ![first] = kEndOfClusterchain]
           more == [c \in S \cup {first} |-> IF c = first THEN <<first>> ELSE ch[c]]
<1>1. first \in Cluster /\ f[first] = 0
  BY DEF FreeClusters
<1>2. \A c \in S : \A i \in 1..Len(ch[c]) : ch[c][i] \in Cluster /\ f[ch[c][i]] # 0
  <2> TAKE c \in S
  <2>1. \A i \in 1..Len(ch[c]) : ch[c][i] \in Cluster
    BY ChainOf
  <2>2. \A i \in 1..Len(ch[c]) : i # Len(ch[c]) => i + 1 \in 1..Len(ch[c])
    BY ChainOf
  <2> QED
    BY <2>1, <2>2, ChainOf, EndIsNoCluster
<1>3. first \notin S
  <2>1. \A c \in S : ch[c][1] = c /\ 1 \in 1..Len(ch[c])
    BY ChainOf
  <2> QED
    BY <1>1, <1>2, <2>1
<1>4. /\ f \in [Cluster -> Int] /\ S \subseteq Cluster /\ ch \in [S -> Seq(Cluster)]
      /\ kEndOfClusterchain \in Int
  BY DEF Chained, kEndOfClusterchain
<1>5. /\ one \in [Cluster -> Int] /\ one[first] = kEndOfClusterchain
      /\ \A x \in Cluster \ {first} : one[x] = f[x]
  BY <1>1, <1>4
<1>6. /\ more[first] = <<first>> /\ \A c \in S : more[c] = ch[c]
      /\ more \in [S \cup {first} -> Seq(Cluster)]
  BY <1>1, <1>3, <1>4
<1> HIDE DEF one, more
<1>7. Len(more[first]) = 1 /\ more[first][1] = first /\ \A i \in 1..1 : i = 1
  BY <1>6
<1>8. \A c \in S : \A i \in 1..Len(ch[c]) : one[ch[c][i]] = f[ch[c][i]]
  BY <1>1, <1>2, <1>5
<1>9. ASSUME NEW c \in S \cup {first}
      PROVE  /\ Len(more[c]) >= 1 /\ more[c][1] = c
             /\ one[more[c][Len(more[c])]] = kEndOfClusterchain
             /\ \A k \in 1..Len(more[c]) - 1 : one[more[c][k]] = more[c][k + 1]
  <2>1. CASE c = first
    <3>1. 1..Len(more[first]) - 1 = {}
      BY <1>7
    <3> QED
      BY <1>5, <1>7, <2>1, <3>1
  <2>2. CASE c \in S
    <3>1. more[c] = ch[c] /\ Len(ch[c]) \in Nat
      BY <1>6, <2>2, ChainOf
    <3>2. /\ Len(ch[c]) >= 1 /\ ch[c][1] = c /\ f[ch[c][Len(ch[c])]] = kEndOfClusterchain
          /\ \A k \in 1..Len(ch[c]) - 1 : f[ch[c][k]] = ch[c][k + 1]
      BY <2>2 DEF Chained
    <3> QED
      BY <1>8, <2>2, <3>1, <3>2
  <2> QED
    BY <2>1, <2>2
<1>10. ASSUME NEW b \in S \cup {first}, NEW c \in S \cup {first},
              NEW i \in 1..Len(more[b]), NEW j \in 1..Len(more[c]), more[b][i] = more[c][j]
       PROVE  b = c /\ i = j
  <2>1. ASSUME NEW a \in S \cup {first}, NEW k \in 1..Len(more[a])
        PROVE  \/ a = first /\ k = 1 /\ more[a][k] = first
               \/ a \in S /\ more[a] = ch[a] /\ more[a][k] # first
    <3>1. CASE a = first
      BY <1>7, <3>1
    <3>2. CASE a \in S
      BY <1>1, <1>2, <1>6, <3>2
    <3> QED
      BY <3>1, <3>2
  <2>2. CASE b = first \/ c = first
    BY <1>3, <1>10, <2>1, <2>2
  <2>3. CASE b \in S /\ c \in S
    <3>1. more[b] = ch[b] /\ more[c] = ch[c]
      BY <1>6, <2>3
    <3> QED
      BY <1>10, <2>3, <3>1 DEF Chained
  <2> QED
    BY <2>2, <2>3
<1>11. ASSUME NEW x \in Cluster, one[x] # 0
       PROVE  \E c \in S \cup {first} : \E i \in 1..Len(more[c]) : more[c][i] = x
  <2>1. CASE x = first
    BY <1>7, <2>1
  <2>2. CASE x # first
    <3>1. PICK c \in S : \E i \in 1..Len(ch[c]) : ch[c][i] = x
      BY <1>5, <1>11, <2>2 DEF Chained
    <3> QED
      BY <1>6, <3>1
  <2> QED
    BY <2>1, <2>2
<1>12. Chained(one, S \cup {first}, more)
  BY <1>1, <1>4, <1>5, <1>6, <1>9, <1>10, <1>11 DEF Chained
<1>13. FreeCount(one) = FreeCount(f) - 1
  <2>1. FreeClusters(one) = FreeClusters(f) \ {first}
    BY <1>1, <1>5, EndIsNoCluster DEF FreeClusters
  <2> QED
    BY <2>1, FreeAreFinite, FS_RemoveElement DEF FreeCount
<1> QED
  BY <1>1, <1>3, <1>12, <1>13 DEF one, more

\* AllocateClusterChain makes a chain of as many clusters as it is asked for,
\* and of one at least.
LEMMA AllocatesChain ==
  ASSUME NEW f, NEW S, NEW ch, Chained(f, S, ch), NEW n \in Nat,
         1 <= FreeCount(f), n <= FreeCount(f)
  PROVE  LET new == AllocateClusterChain(f, n)
         IN  /\ new.first \in Cluster \ S
             /\ \E more : /\ Chained(new.fat, S \cup {new.first}, more)
                          /\ n <= Len(more[new.first])
                          /\ \A c \in S : more[c] = ch[c]
<1> DEFINE first == Candidate(f, 1)
           one == [f EXCEPT ![first] = kEndOfClusterchain]
           alone == [c \in S \cup {first} |-> IF c = first THEN <<first>> ELSE ch[c]]
<1>1. first \in FreeClusters(f)
  BY Candidates DEF FreeCount
<1>2. AllocateClusterChain(f, n).first = first
      /\ AllocateClusterChain(f, n).fat = IF n > 1 THEN ExtendCluster(one, first, n - 1).fat ELSE one
  BY DEF AllocateClusterChain
<1> HIDE DEF first
<1>3. /\ first \in Cluster /\ first \notin S /\ Chained(one, S \cup {first}, alone)
      /\ FreeCount(one) = FreeCount(f) - 1
  BY <1>1, FirstCluster
<1>4. alone[first] = <<first>> /\ \A c \in S : alone[c] = ch[c]
  BY <1>3
<1>5. first \in S \cup {first} /\ 1 \in 1..Len(alone[first]) /\ alone[first][1] = first
      /\ Len(alone[first]) = 1
  BY <1>4
<1>6. FreeCount(f) \in Nat
  BY FreeAreFinite
<1> HIDE DEF one, alone
<1>7. CASE n > 1
  <2> DEFINE more == Longer(one, alone, first, n - 1)
             T == S \cup {first}
  <2>1. n - 1 \in Nat \ {0} /\ n - 1 <= FreeCount(one)
    BY <1>3, <1>6, <1>7
  <2> HIDE DEF T
  <2>2. Chained(ExtendCluster(one, alone[first][1], n - 1).fat, T, more)
    BY <1>3, <1>5, <2>1, ExtendsChain DEF FreeCount, T
  <2>3. Len(more[first]) = 1 + (n - 1) /\ \A c \in T \ {first} : more[c] = alone[c]
    <3>1. Chained(one, T, alone) /\ first \in T /\ n - 1 <= Cardinality(FreeClusters(one))
      BY <1>3, <1>5, <2>1 DEF FreeCount, T
    <3>2. /\ Len(more[first]) = Len(alone[first]) + (n - 1)
          /\ \A c \in T \ {first} : more[c] = alone[c]
      BY <2>1, <3>1, LongerChain
    <3> QED
      BY <1>5, <3>2
  <2>4. Chained(AllocateClusterChain(f, n).fat, T, more)
    BY <1>2, <1>5, <1>7, <2>2
  <2>5. \A c \in S : more[c] = ch[c]
    BY <1>3, <1>4, <2>3 DEF T
  <2> HIDE DEF more
  <2>6. n <= Len(more[first])
    BY <2>3
  <2> QED
    BY <1>2, <1>3, <2>4, <2>5, <2>6 DEF T
<1>8. CASE ~(n > 1)
  <2>1. Chained(AllocateClusterChain(f, n).fat, S \cup {first}, alone)
    BY <1>2, <1>3, <1>8
  <2>2. n <= Len(alone[first])
    BY <1>5, <1>8
  <2> QED
    BY <1>2, <1>3, <1>4, <2>1, <2>2
<1> QED
  BY <1>7, <1>8

-----------------------------------------------------------------------------
(* What a write takes                                                      *)

\* n + (n - 1) + ... + 1, which is what Room reckons with.
Triangle(n) == (n * (n + 1)) \div 2

LEMMA Triangles ==
  /\ \A n \in Nat : Triangle(n) \in Nat /\ n <= Triangle(n)
  /\ \A n \in Nat \ {0} : Triangle(n) = n + Triangle(n - 1)
  /\ \A m, n \in Nat : m <= n => Triangle(m) <= Triangle(n)
<1>1. \A n \in Nat : n * (n + 1) \in Nat /\ 2 * n <= n * (n + 1)
  <2> TAKE n \in Nat
  <2>1. CASE n = 0
    BY <2>1
  <2>2. CASE n >= 1
    <3>1. n * 2 <= n * (n + 1)
      BY <2>2
    <3> QED
      BY <3>1
  <2> QED
    BY <2>1, <2>2
<1>2. \A x \in Nat, n \in Nat : 2 * n <= x => x \div 2 \in Nat /\ n <= x \div 2
  OBVIOUS
<1>3. \A n \in Nat \ {0} : n * (n + 1) = (n - 1) * (n - 1 + 1) + 2 * n
  OBVIOUS
<1>4. \A x \in Nat, n \in Nat : (x + 2 * n) \div 2 = n + x \div 2
  OBVIOUS
<1>5. \A m, n \in Nat : m <= n => m * (m + 1) <= n * (n + 1)
  <2> TAKE m, n \in Nat
  <2> HAVE m <= n
  <2>1. m * (m + 1) <= m * (n + 1)
    OBVIOUS
  <2>2. m * (n + 1) <= n * (n + 1)
    OBVIOUS
  <2> QED
    BY <2>1, <2>2
<1>6. \A x, y \in Nat : x <= y => x \div 2 <= y \div 2
  OBVIOUS
<1>7. \A n \in Nat \ {0} : Triangle(n) = n + Triangle(n - 1)
  <2> TAKE n \in Nat \ {0}
  <2>1. n - 1 \in Nat /\ (n - 1) * (n - 1 + 1) \in Nat
    BY <1>1
  <2> QED
    BY <1>3, <1>4, <2>1 DEF Triangle
<1> QED
  BY <1>1, <1>2, <1>5, <1>6, <1>7 DEF Triangle

\* num_cluster is 0 of nothing only, less for less, and less by one at least
\* when a cluster has been filled.
LEMMA NumCluster ==
  /\ \A m \in Nat : num_cluster(m) \in Nat /\ m <= num_cluster(m) * bytes_per_cluster
  /\ \A m \in Nat \ {0} : num_cluster(m) >= 1
  /\ \A l, m \in Nat : l <= m => num_cluster(l) <= num_cluster(m)
  /\ \A l, m \in Nat : l + bytes_per_cluster <= m => num_cluster(l) <= num_cluster(m) - 1
<1> DEFINE B == bytes_per_cluster
<1>1. B \in Nat \ {0}
  BY FATAssumption
<1> HIDE DEF B
<1>2. \A x \in Nat : x \div B \in Nat /\ B * (x \div B) <= x /\ x < B * (x \div B) + B
  BY <1>1
<1>3. ASSUME NEW x \in Nat, NEW y \in Nat, x <= y PROVE x \div B <= y \div B
  <2> DEFINE p == x \div B
             q == y \div B
  <2>1. p \in Nat /\ q \in Nat /\ B * p <= x /\ y < B * q + B
    BY <1>2
  <2> HIDE DEF p, q
  <2>2. SUFFICES ASSUME q + 1 <= p PROVE FALSE
    BY <2>1 DEF p, q
  <2>3. B * (q + 1) <= B * p
    BY <1>1, <2>1, <2>2
  <2>4. B * (q + 1) = B * q + B
    BY <1>1, <2>1
  <2> QED
    BY <1>1, <1>3, <2>1, <2>3, <2>4
<1>4. ASSUME NEW m \in Nat
      PROVE  /\ num_cluster(m) \in Nat /\ m <= num_cluster(m) * B
             /\ m >= 1 => num_cluster(m) >= 1
  <2> DEFINE q == (m + B - 1) \div B
  <2>1. m + B - 1 \in Nat
    BY <1>1
  <2>2. q \in Nat /\ m + B - 1 < B * q + B
    BY <1>2, <2>1
  <2>3. num_cluster(m) = q
    BY DEF num_cluster, B
  <2> HIDE DEF q
  <2>4. m <= q * B
    <3>1. B * q = q * B /\ B * q \in Nat
      BY <1>1, <2>2
    <3> QED
      BY <1>1, <2>2, <3>1
  <2>5. m >= 1 => q >= 1
    BY <1>1, <2>2, <2>4
  <2> QED
    BY <2>2, <2>3, <2>4, <2>5
<1>5. \A l, m \in Nat : l <= m => num_cluster(l) <= num_cluster(m)
  <2> TAKE l, m \in Nat
  <2> HAVE l <= m
  <2>1. l + B - 1 \in Nat /\ m + B - 1 \in Nat /\ l + B - 1 <= m + B - 1
    BY <1>1
  <2> QED
    BY <1>3, <2>1 DEF num_cluster, B
<1>6. \A l, m \in Nat : l + B <= m => num_cluster(l) <= num_cluster(m) - 1
  <2> TAKE l, m \in Nat
  <2> HAVE l + B <= m
  <2>1. l + B \in Nat /\ l + B - 1 \in Nat
    BY <1>1
  <2>2. num_cluster(l + B) <= num_cluster(m)
    BY <1>5, <2>1
  <2>3. (l + B + B - 1) \div B = (l + B - 1) \div B + 1
    <3> DEFINE x == l + B - 1
               p == x \div B
               q == (x + B) \div B
    <3>1. x \in Nat /\ x + B \in Nat
      BY <1>1, <2>1
    <3>2. p \in Nat /\ q \in Nat /\ B * p <= x /\ x < B * p + B
          /\ B * q <= x + B /\ x + B < B * q + B
      BY <1>2, <3>1
    <3> HIDE DEF x, p, q
    <3>3. B * p \in Nat /\ B * q \in Nat
      BY <1>1, <3>2
    <3>4. ~(q <= p)
      <4>1. q <= p => B * q <= B * p
        BY <1>1, <3>2
      <4> QED
        BY <1>1, <3>1, <3>2, <3>3, <4>1
    <3>5. ~(q >= p + 2)
      <4>1. q >= p + 2 => B * (p + 2) <= B * q
        BY <1>1, <3>2
      <4>2. B * (p + 2) = B * p + 2 * B
        BY <1>1, <3>2
      <4> QED
        BY <1>1, <3>1, <3>2, <3>3, <4>1, <4>2
    <3>6. q = p + 1
      BY <3>2, <3>4, <3>5
    <3>7. l + B + B - 1 = x + B
      BY <1>1 DEF x
    <3> QED
      BY <3>6, <3>7 DEF p, q, x
  <2>4. num_cluster(l + B) = num_cluster(l) + 1
    BY <2>3 DEF num_cluster, B
  <2>5. num_cluster(l) \in Nat /\ num_cluster(m) \in Nat
    BY <1>4
  <2> QED
    BY <2>2, <2>4, <2>5
<1> QED
  BY <1>1, <1>4, <1>5, <1>6 DEF B

-----------------------------------------------------------------------------
(* The loop of Write                                                       *)

\* A write of len bytes by a descriptor that had written base of them is in
\* cluster j of the chain of b.  What is left to write fits into the chain, or
\* there is room for it.
WritingAt(s, S, b, base, len, ch, j) ==
  /\ Chained(s.fat, S, ch) /\ j \in 1..Len(ch[b]) /\ s.cluster = ch[b][j]
  /\ s.off \in 0..bytes_per_cluster /\ s.total \in Nat
  /\ base + s.total <= (j - 1) * bytes_per_cluster + s.off
  /\ \/ len - s.total <= (Len(ch[b]) - j) * bytes_per_cluster + (bytes_per_cluster - s.off)
     \/ s.total < len => Triangle(num_cluster(len - s.total)) <= FreeCount(s.fat)

Writing(s, S, b, base, len, ch) ==
  \E more : Grown(S, ch, more) /\ \E j : WritingAt(s, S, b, base, len, more, j)

\* Where there is room for the rest.
LEMMA WritingWithRoom ==
  ASSUME NEW s, NEW S, NEW b, NEW base, NEW len, NEW ch, NEW j,
         Chained(s.fat, S, ch), j \in 1..Len(ch[b]), s.cluster = ch[b][j],
         s.off \in 0..bytes_per_cluster, s.total \in Nat,
         base + s.total <= (j - 1) * bytes_per_cluster + s.off,
         s.total < len => Triangle(num_cluster(len - s.total)) <= FreeCount(s.fat)
  PROVE  WritingAt(s, S, b, base, len, ch, j)
  BY DEF WritingAt

\* How far a write has come, in numbers, after n bytes in the next cluster, and
\* after n bytes q clusters on.
LEMMA OneClusterOn ==
  ASSUME NEW B \in Nat, NEW base \in Nat, NEW len \in Nat, NEW w \in Nat, NEW n \in Nat,
         NEW L \in Nat, NEW j \in Nat, j >= 1, j < L
  PROVE  /\ base + w <= (j - 1) * B + B => base + (w + n) <= (j + 1 - 1) * B + n
         /\ len - w <= (L - j) * B + (B - B) => len - (w + n) <= (L - (j + 1)) * B + (B - n)
<1> DEFINE X == (j - 1) * B
           Y == (L - (j + 1)) * B
<1>1. j - 1 \in Nat /\ L - (j + 1) \in Nat /\ j + 1 - 1 = j - 1 + 1 /\ L - j = L - (j + 1) + 1
  OBVIOUS
<1>2. \A k \in Nat : k * B \in Nat /\ (k + 1) * B = k * B + B
  OBVIOUS
<1>3. /\ X \in Nat /\ Y \in Nat /\ (j + 1 - 1) * B = X + B /\ (L - j) * B = Y + B
  BY <1>1, <1>2
<1> HIDE DEF X, Y
<1>4. base + w <= X + B => base + (w + n) <= X + B + n
  BY <1>3
<1>5. len - w <= Y + B + (B - B) => len - (w + n) <= Y + (B - n)
  BY <1>3
<1> QED
  BY <1>3, <1>4, <1>5 DEF X, Y

LEMMA ManyClustersOn ==
  ASSUME NEW B \in Nat, NEW base \in Nat, NEW w \in Nat, NEW n \in Nat,
         NEW L \in Nat \ {0}, NEW q \in Nat \ {0}, base + w <= (L - 1) * B + B
  PROVE  base + (w + n) <= (L + q - 1) * B + n
<1> DEFINE X == L * B
           Y == (q - 1) * B
<1>1. L - 1 \in Nat /\ q - 1 \in Nat /\ L - 1 + 1 = L /\ L + q - 1 = L + (q - 1)
  OBVIOUS
<1>2. \A k \in Nat : k * B \in Nat /\ (k + 1) * B = k * B + B
  OBVIOUS
<1>3. \A k, l \in Nat : (k + l) * B = k * B + l * B
  OBVIOUS
<1>4. X \in Nat /\ Y \in Nat /\ (L - 1) * B + B = X /\ (L + q - 1) * B = X + Y
  BY <1>1, <1>2, <1>3
<1> HIDE DEF X, Y
<1>5. base + w <= X
  BY <1>4
<1> QED
  BY <1>4, <1>5

\* What one round changes of that, when it stays in the cluster.
LEMMA WriteStays ==
  ASSUME NEW S, NEW b \in S, NEW base \in Nat, NEW len \in Nat, NEW ch, NEW j \in Nat,
         NEW s, WritingAt(s, S, b, base, len, ch, j),
         NEW o \in 0..bytes_per_cluster, s.off = o, NEW w \in Nat, s.total = w, w < len,
         o < bytes_per_cluster,
         NEW t, t.fat = s.fat, t.cluster = s.cluster,
         NEW n \in Nat, n = min(len, bytes_per_cluster - o),
         t.off = o + n, t.total = w + n
  PROVE  WritingAt(t, S, b, base, len, ch, j)
<1> DEFINE B == bytes_per_cluster
           L == Len(ch[b])
           X == (j - 1) * B
           Y == (L - j) * B
<1>1. /\ B \in Nat \ {0} /\ L \in Nat /\ j \in 1..L /\ o \in 0..B /\ w \in Nat
  BY FATAssumption, ChainOf DEF WritingAt
<1> HIDE DEF L
<1>2. n \in Nat /\ n >= 1 /\ o + n <= B
  BY <1>1 DEF min
<1>3. base + w <= X + o
  BY DEF WritingAt
<1>4. X \in Nat /\ Y \in Nat
  <2>1. j - 1 \in Nat /\ L - j \in Nat
    BY <1>1
  <2>2. \A k \in Nat : k * B \in Nat
    BY <1>1
  <2> QED
    BY <2>1, <2>2
<1> HIDE DEF X, Y
<1>5. t.off \in 0..B /\ t.total \in Nat /\ base + t.total <= X + t.off
  <2>1. t.off = o + n /\ t.total = w + n
    OBVIOUS
  <2>2. base + (w + n) <= X + (o + n) /\ o + n \in 0..B /\ w + n \in Nat
    BY <1>1, <1>2, <1>3, <1>4
  <2> QED
    BY <2>1, <2>2
<1>0. Chained(t.fat, S, ch) /\ j \in 1..Len(ch[b]) /\ t.cluster = ch[b][j]
  BY DEF WritingAt
<1>6. CASE len - w <= Y + (B - o)
  <2>1. len - t.total <= Y + (B - t.off)
    BY <1>1, <1>2, <1>4, <1>6
  <2> QED
    BY <1>0, <1>5, <2>1 DEF WritingAt, L, X, Y
<1>7. CASE Triangle(num_cluster(len - w)) <= FreeCount(s.fat)
  <2>1. ASSUME t.total < len PROVE Triangle(num_cluster(len - t.total)) <= FreeCount(t.fat)
    <3>1. len - t.total \in Nat /\ len - w \in Nat /\ len - t.total <= len - w
      BY <1>1, <1>2, <2>1
    <3>2. num_cluster(len - t.total) <= num_cluster(len - w)
          /\ num_cluster(len - t.total) \in Nat /\ num_cluster(len - w) \in Nat
      BY <3>1, NumCluster
    <3>3. Triangle(num_cluster(len - t.total)) <= Triangle(num_cluster(len - w))
          /\ Triangle(num_cluster(len - t.total)) \in Nat
          /\ Triangle(num_cluster(len - w)) \in Nat
      BY <3>2, Triangles
    <3>4. FreeCount(t.fat) = FreeCount(s.fat) /\ FreeCount(s.fat) \in Nat
      BY FreeAreFinite
    <3> QED
      BY <1>7, <3>3, <3>4
  <2> QED
    BY <1>0, <1>5, <2>1 DEF WritingAt, L, X
<1> QED
  BY <1>6, <1>7 DEF WritingAt, L, Y

\* When it goes on into the next cluster of the chain.
LEMMA WriteMoves ==
  ASSUME NEW S, NEW b \in S, NEW base \in Nat, NEW len \in Nat, NEW ch, NEW j \in Nat,
         NEW s, WritingAt(s, S, b, base, len, ch, j),
         NEW o \in 0..bytes_per_cluster, s.off = o, NEW w \in Nat, s.total = w, w < len,
         o = bytes_per_cluster, j # Len(ch[b]),
         NEW t, t.fat = s.fat, t.cluster = ch[b][j + 1],
         NEW n \in Nat, n = min(len, bytes_per_cluster),
         t.off = n, t.total = w + n
  PROVE  WritingAt(t, S, b, base, len, ch, j + 1)
<1> DEFINE B == bytes_per_cluster
           L == Len(ch[b])
<1>1. /\ B \in Nat \ {0} /\ L \in Nat /\ j \in 1..L /\ j # L /\ w \in Nat
  BY FATAssumption, ChainOf DEF WritingAt
<1> HIDE DEF L
<1>2. n \in Nat /\ n >= 1 /\ n <= B
  BY <1>1 DEF min
<1>3. base + w <= (j - 1) * B + B
  BY DEF WritingAt
<1>4. /\ base + (w + n) <= (j + 1 - 1) * B + n
      /\ len - w <= (L - j) * B + (B - B) => len - (w + n) <= (L - (j + 1)) * B + (B - n)
  <2>1. j >= 1 /\ j < L /\ B \in Nat
    BY <1>1
  <2> HIDE DEF B
  <2> QED
    BY <1>1, <1>3, <2>1, OneClusterOn
<1>5. /\ t.off \in 0..B /\ t.total \in Nat /\ base + t.total <= (j + 1 - 1) * B + t.off
      /\ j + 1 \in 1..L
  BY <1>1, <1>2, <1>4
<1>0. Chained(t.fat, S, ch) /\ t.cluster = ch[b][j + 1]
  BY DEF WritingAt
<1>6. CASE len - w <= (L - j) * B + (B - o)
  BY <1>0, <1>4, <1>5, <1>6 DEF WritingAt, L
<1>7. CASE Triangle(num_cluster(len - w)) <= FreeCount(s.fat)
  <2>1. ASSUME t.total < len PROVE Triangle(num_cluster(len - t.total)) <= FreeCount(t.fat)
    <3>1. len - t.total \in Nat /\ len - w \in Nat /\ len - t.total <= len - w
      BY <1>1, <1>2, <2>1
    <3>2. num_cluster(len - t.total) <= num_cluster(len - w)
          /\ num_cluster(len - t.total) \in Nat /\ num_cluster(len - w) \in Nat
      BY <3>1, NumCluster
    <3>3. Triangle(num_cluster(len - t.total)) <= Triangle(num_cluster(len - w))
          /\ Triangle(num_cluster(len - t.total)) \in Nat
          /\ Triangle(num_cluster(len - w)) \in Nat
      BY <3>2, Triangles
    <3>4. FreeCount(t.fat) = FreeCount(s.fat) /\ FreeCount(s.fat) \in Nat
      BY FreeAreFinite
    <3> QED
      BY <1>7, <3>3, <3>4
  <2>2. t.total < len => Triangle(num_cluster(len - t.total)) <= FreeCount(t.fat)
    BY <2>1
  <2>3. j + 1 \in 1..Len(ch[b])
    BY <1>5 DEF L
  <2> QED
    BY ONLY <1>0, <1>5, <2>2, <2>3, WritingWithRoom
<1> QED
  BY <1>6, <1>7 DEF WritingAt, L

\* When the chain ends: it is made longer, and the last cluster is taken.
LEMMA WriteExtends ==
  ASSUME NEW S, NEW b \in S, NEW base \in Nat, NEW len \in Nat, NEW ch, NEW j \in Nat,
         NEW s, WritingAt(s, S, b, base, len, ch, j),
         NEW o \in 0..bytes_per_cluster, s.off = o, NEW w \in Nat, s.total = w, w < len,
         o = bytes_per_cluster, j = Len(ch[b]),
         NEW q \in Nat, q = num_cluster(len - w),
         NEW t, t.fat = ExtendCluster(s.fat, s.cluster, q).fat,
         t.cluster = ExtendCluster(s.fat, s.cluster, q).last,
         NEW n \in Nat, n = min(len, bytes_per_cluster),
         t.off = n, t.total = w + n
  PROVE  /\ Grown(S, ch, Longer(s.fat, ch, b, q))
         /\ WritingAt(t, S, b, base, len, Longer(s.fat, ch, b, q), j + q)
<1> DEFINE B == bytes_per_cluster
           L == Len(ch[b])
           more == Longer(s.fat, ch, b, q)
<1>1. /\ B \in Nat \ {0} /\ L \in Nat \ {0} /\ j = L /\ w \in Nat /\ s.cluster = ch[b][L]
      /\ Chained(s.fat, S, ch) /\ L \in 1..Len(ch[b])
  BY FATAssumption, ChainOf DEF WritingAt
<1> HIDE DEF L
<1>2. n \in Nat /\ n >= 1 /\ n <= B
  BY <1>1 DEF min
<1>3. len - w \in Nat \ {0} /\ q \in Nat /\ q >= 1
  <2> DEFINE m == len - w
  <2>1. m \in Nat \ {0}
    BY <1>1
  <2>2. q = num_cluster(m)
    OBVIOUS
  <2> HIDE DEF m
  <2>3. q \in Nat /\ q >= 1
    BY <2>1, <2>2, NumCluster
  <2> QED
    BY <2>1, <2>3 DEF m
<1>4. FreeCount(s.fat) \in Nat /\ Triangle(q) \in Nat /\ q <= Triangle(q)
  BY <1>3, FreeAreFinite, Triangles
\* Room is left, as the chain has none.
<1>5. Triangle(q) <= FreeCount(s.fat)
  <2>1. (L - j) * B + (B - o) = 0
    BY <1>1
  <2>2. \/ len - w <= (L - j) * B + (B - o)
        \/ w < len => Triangle(num_cluster(len - w)) <= FreeCount(s.fat)
    BY DEF WritingAt, L
  <2>3. ~(len - w <= 0)
    BY <1>3
  <2> QED
    BY ONLY <2>1, <2>2, <2>3, w < len, q = num_cluster(len - w)
<1>6. q \in Nat \ {0} /\ q <= FreeCount(s.fat)
  BY <1>3, <1>4, <1>5
<1>7. /\ Grown(S, ch, more) /\ Chained(t.fat, S, more) /\ FreeCount(t.fat) = FreeCount(s.fat) - q
  <2>1. /\ Chained(s.fat, S, ch) /\ L \in 1..Len(ch[b]) /\ q \in Nat \ {0} /\ q \in Nat
        /\ q <= FreeCount(s.fat) /\ q <= Cardinality(FreeClusters(s.fat)) /\ s.cluster = ch[b][L]
    BY <1>1, <1>6 DEF FreeCount
  <2>2. Grown(S, ch, more)
    BY ONLY <2>1, b \in S, LongerIsGrown
  <2>3. Chained(ExtendCluster(s.fat, ch[b][L], q).fat, S, more)
    BY ONLY <2>1, b \in S, ExtendsChain
  <2>4. FreeCount(ExtendCluster(s.fat, ch[b][L], q).fat) = FreeCount(s.fat) - q
    BY ONLY <2>1, b \in S, ExtendTakes
  <2>5. t.fat = ExtendCluster(s.fat, ch[b][L], q).fat
    BY <2>1
  <2> QED
    BY ONLY <2>2, <2>3, <2>4, <2>5
<1>8. t.cluster = more[b][L + q] /\ Len(more[b]) = L + q
  <2>1. ExtendCluster(s.fat, ch[b][L], q).last = more[b][L + q]
    <3> DEFINE f == s.fat
    <3>1. q <= Cardinality(FreeClusters(f)) /\ Chained(f, S, ch)
      BY <1>1, <1>6 DEF FreeCount
    <3> HIDE DEF f
    <3>2. L \in 1..Len(ch[b]) /\ q \in Nat \ {0} /\ L = Len(ch[b])
      BY <1>1, <1>6 DEF L
    <3>3. ExtendCluster(f, ch[b][L], q).last = Longer(f, ch, b, q)[b][L + q]
      BY ONLY <3>1, <3>2, b \in S, ExtendedLast
    <3> QED
      BY <3>3 DEF f
  <2>2. Len(more[b]) = L + q
    BY <1>1, <1>6, LongerChain DEF FreeCount, L
  <2> HIDE DEF more
  <2> QED
    BY <1>1, <2>1, <2>2
<1> HIDE DEF more
<1>9. base + w <= (L - 1) * B + B
  <2>1. base + w <= (j - 1) * B + o
    BY DEF WritingAt
  <2> QED
    BY <1>1, <2>1
<1>10. base + (w + n) <= (L + q - 1) * B + n
  <2>1. B \in Nat
    BY <1>1
  <2> HIDE DEF B
  <2> QED
    BY <1>1, <1>6, <1>9, <2>1, ManyClustersOn
<1>11. /\ t.off \in 0..B /\ t.total \in Nat /\ base + t.total <= (j + q - 1) * B + t.off
       /\ j + q \in 1..Len(more[b]) /\ t.cluster = more[b][j + q]
  <2>1. t.off \in 0..B /\ t.total \in Nat /\ base + t.total <= (j + q - 1) * B + t.off
    BY <1>1, <1>2, <1>10
  <2>2. j + q \in 1..Len(more[b]) /\ t.cluster = more[b][j + q]
    <3>1. L + q \in 1..L + q
      BY ONLY <1>1, <1>3
    <3> QED
      BY ONLY <1>1, <1>8, <3>1
  <2> QED
    BY <2>1, <2>2
<1>12. ASSUME t.total < len PROVE Triangle(num_cluster(len - t.total)) <= FreeCount(t.fat)
  <2>1. n = B /\ len - t.total \in Nat /\ len - t.total + B <= len - w
    BY <1>1, <1>2, <1>12 DEF min
  <2>2. num_cluster(len - t.total) \in Nat /\ num_cluster(len - t.total) <= q - 1
    BY <1>3, <2>1, NumCluster
  <2>3. Triangle(num_cluster(len - t.total)) <= Triangle(q - 1) /\ Triangle(q) = q + Triangle(q - 1)
        /\ Triangle(q - 1) \in Nat /\ Triangle(num_cluster(len - t.total)) \in Nat
    <3>1. q - 1 \in Nat
      BY <1>3
    <3> QED
      BY <1>6, <2>2, <3>1, Triangles
  <2>4. \A x, y, z, v \in Nat : x <= y /\ z = q + y /\ z <= v => x <= v - q
    BY ONLY <1>6
  <2>5. Triangle(num_cluster(len - t.total)) <= FreeCount(s.fat) - q
    BY ONLY <1>4, <1>5, <2>3, <2>4
  <2> QED
    BY ONLY <1>7, <2>5
<1>13. t.total < len => Triangle(num_cluster(len - t.total)) <= FreeCount(t.fat)
  BY <1>12
<1>14. WritingAt(t, S, b, base, len, more, j + q)
  BY ONLY <1>7, <1>11, <1>13, WritingWithRoom
<1> QED
  BY <1>7, <1>14 DEF more

LEMMA GrownOnAndOn ==
  ASSUME NEW S, NEW ch, NEW more, NEW yet, Grown(S, ch, more), Grown(S, more, yet),
         \A c \in S : Len(ch[c]) \in Nat /\ Len(more[c]) \in Nat /\ Len(yet[c]) \in Nat
  PROVE  Grown(S, ch, yet)
<1>1. ASSUME NEW c \in S PROVE Len(ch[c]) <= Len(yet[c])
  <2>1. Len(ch[c]) <= Len(more[c]) /\ Len(more[c]) <= Len(yet[c])
    BY DEF Grown
  <2>2. \A x, y, z \in Nat : x <= y /\ y <= z => x <= z
    OBVIOUS
  <2> QED
    BY <2>1, <2>2
<1>2. ASSUME NEW c \in S, NEW i \in 1..Len(ch[c])
      PROVE  i \in 1..Len(yet[c]) /\ yet[c][i] = ch[c][i]
  BY DEF Grown
<1> QED
  BY <1>1, <1>2 DEF Grown

\* What WriteOn returns.
LEMMA WriteOnReturns ==
  ASSUME NEW s, NEW buf, ~(s.total >= Len(buf))
  PROVE  LET t == WriteOn(s, buf)
             next == NextCluster(s.fat, s.cluster)
             extended == ExtendCluster(s.fat, s.cluster, num_cluster(Len(buf) - s.total))
         IN  /\ s.off # bytes_per_cluster =>
                  /\ t.fat = s.fat /\ t.cluster = s.cluster
                  /\ t.off = s.off + min(Len(buf), bytes_per_cluster - s.off)
                  /\ t.total = s.total + min(Len(buf), bytes_per_cluster - s.off)
             /\ s.off = bytes_per_cluster =>
                  /\ t.off = 0 + min(Len(buf), bytes_per_cluster - 0)
                  /\ t.total = s.total + min(Len(buf), bytes_per_cluster - 0)
             /\ s.off = bytes_per_cluster /\ next # kEndOfClusterchain =>
                  t.fat = s.fat /\ t.cluster = next
             /\ s.off = bytes_per_cluster /\ next = kEndOfClusterchain =>
                  t.fat = extended.fat /\ t.cluster = extended.last
  BY DEF WriteOn

\* A round keeps the write in a chain that has grown.
LEMMA WriteOnKeeps ==
  ASSUME NEW S, NEW b \in S, NEW base \in Nat, NEW len \in Nat, NEW buf, Len(buf) = len,
         NEW ch, \A c \in S : Len(ch[c]) \in Nat,
         NEW s, Writing(s, S, b, base, len, ch)
  PROVE  Writing(WriteOn(s, buf), S, b, base, len, ch)
<1> DEFINE B == bytes_per_cluster
           t == WriteOn(s, buf)
<1>1. PICK more, j : Grown(S, ch, more) /\ WritingAt(s, S, b, base, len, more, j)
  BY DEF Writing
<1>2. CASE s.total >= len
  <2>1. t = s
    BY <1>2 DEF WriteOn
  <2> QED
    BY <2>1
<1>3. CASE ~(s.total >= len)
  <2>1. /\ s.total \in Nat /\ s.total < len /\ s.off \in 0..B /\ j \in 1..Len(more[b])
        /\ Chained(s.fat, S, more) /\ s.cluster = more[b][j] /\ B \in Nat \ {0}
    BY <1>1, <1>3, FATAssumption DEF WritingAt
  <2>2. Len(more[b]) \in Nat \ {0} /\ j \in Nat
    BY <2>1, ChainOf
  <2>3. NextCluster(s.fat, s.cluster) = IF j = Len(more[b]) THEN kEndOfClusterchain ELSE more[b][j + 1]
    BY <2>1, ChainOf DEF NextCluster
  <2>4. min(len, B) \in Nat /\ (s.off # B => min(len, B - s.off) \in Nat)
    BY <2>1 DEF min
  <2> DEFINE q == num_cluster(len - s.total)
  <2>5. q \in Nat
    <3>1. len - s.total \in Nat
      BY <2>1
    <3> QED
      BY ONLY <3>1, NumCluster
  <2>6. /\ s.off # B => /\ t.fat = s.fat /\ t.cluster = s.cluster
                        /\ t.off = s.off + min(len, B - s.off)
                        /\ t.total = s.total + min(len, B - s.off)
        /\ s.off = B => t.off = min(len, B) /\ t.total = s.total + min(len, B)
        /\ s.off = B /\ NextCluster(s.fat, s.cluster) # kEndOfClusterchain =>
             t.fat = s.fat /\ t.cluster = NextCluster(s.fat, s.cluster)
        /\ s.off = B /\ NextCluster(s.fat, s.cluster) = kEndOfClusterchain =>
             /\ t.fat = ExtendCluster(s.fat, s.cluster, q).fat
             /\ t.cluster = ExtendCluster(s.fat, s.cluster, q).last
    <3>1. B - 0 = B /\ 0 + min(len, B) = min(len, B)
      BY <2>1, <2>4
    <3>2. /\ s.off # B => /\ t.fat = s.fat /\ t.cluster = s.cluster
                          /\ t.off = s.off + min(len, B - s.off)
                          /\ t.total = s.total + min(len, B - s.off)
          /\ s.off = B => t.off = 0 + min(len, B - 0) /\ t.total = s.total + min(len, B - 0)
          /\ s.off = B /\ NextCluster(s.fat, s.cluster) # kEndOfClusterchain =>
               t.fat = s.fat /\ t.cluster = NextCluster(s.fat, s.cluster)
          /\ s.off = B /\ NextCluster(s.fat, s.cluster) = kEndOfClusterchain =>
               /\ t.fat = ExtendCluster(s.fat, s.cluster, q).fat
               /\ t.cluster = ExtendCluster(s.fat, s.cluster, q).last
      BY ONLY <1>3, Len(buf) = len, WriteOnReturns
    <3> HIDE DEF B, t, q
    <3> QED
      BY <3>1, <3>2
  <2> HIDE DEF t, q
  <2>7. CASE s.off # B
    <3>1. s.off < B
      BY <2>1, <2>7
    <3>2. WritingAt(t, S, b, base, len, more, j)
      BY <1>1, <2>1, <2>2, <2>4, <2>6, <2>7, <3>1, WriteStays
    <3> QED
      BY <1>1, <3>2 DEF Writing, t
  <2>8. CASE s.off = B /\ j # Len(more[b])
    <3>1. j + 1 \in 1..Len(more[b])
      BY <2>1, <2>2, <2>8
    <3>2. more[b][j + 1] \in Cluster
      BY <2>1, <3>1, ChainOf
    <3>3. t.fat = s.fat /\ t.cluster = more[b][j + 1]
      BY <2>3, <2>6, <2>8, <3>2, EndIsNoCluster
    <3>4. WritingAt(t, S, b, base, len, more, j + 1)
      <4>1. /\ WritingAt(s, S, b, base, len, more, j) /\ s.off \in 0..bytes_per_cluster
            /\ s.total \in Nat /\ s.total < len /\ s.off = bytes_per_cluster
            /\ j # Len(more[b]) /\ j \in Nat /\ min(len, bytes_per_cluster) \in Nat
            /\ t.off = min(len, bytes_per_cluster) /\ t.total = s.total + min(len, bytes_per_cluster)
        BY <1>1, <2>1, <2>2, <2>4, <2>6, <2>8
      <4> QED
        BY ONLY <3>3, <4>1, b \in S, base \in Nat, len \in Nat, WriteMoves
    <3> QED
      BY <1>1, <3>4 DEF Writing, t
  <2>9. CASE s.off = B /\ j = Len(more[b])
    <3> DEFINE yet == Longer(s.fat, more, b, q)
    <3>1. t.fat = ExtendCluster(s.fat, s.cluster, q).fat /\ t.cluster = ExtendCluster(s.fat, s.cluster, q).last
      BY <2>3, <2>6, <2>9
    <3>2. Grown(S, more, yet) /\ WritingAt(t, S, b, base, len, yet, j + q)
      <4>1. /\ WritingAt(s, S, b, base, len, more, j) /\ s.off \in 0..bytes_per_cluster
            /\ s.total \in Nat /\ s.total < len /\ s.off = bytes_per_cluster
            /\ j = Len(more[b]) /\ j \in Nat /\ q \in Nat /\ q = num_cluster(len - s.total)
            /\ t.off = min(len, bytes_per_cluster) /\ t.total = s.total + min(len, bytes_per_cluster)
            /\ min(len, bytes_per_cluster) \in Nat
        BY <1>1, <2>1, <2>2, <2>4, <2>5, <2>6, <2>9 DEF q
      <4> QED
        BY ONLY <3>1, <4>1, b \in S, base \in Nat, len \in Nat, WriteExtends
    <3> HIDE DEF yet
    <3>3. \A c \in S : Len(more[c]) \in Nat /\ Len(yet[c]) \in Nat
      <4>1. Chained(t.fat, S, yet)
        BY <3>2 DEF WritingAt
      <4> QED
        BY <2>1, <4>1, ChainOf
    <3>4. Grown(S, ch, yet)
      BY <1>1, <3>2, <3>3, GrownOnAndOn
    <3> QED
      BY <3>2, <3>4 DEF Writing, t
  <2> QED
    BY <2>7, <2>8, <2>9 DEF t
<1> QED
  BY <1>2, <1>3

LEMMA WriteLoopKeeps ==
  ASSUME NEW S, NEW b \in S, NEW base \in Nat, NEW len \in Nat, NEW buf, Len(buf) = len,
         NEW ch, \A c \in S : Len(ch[c]) \in Nat,
         NEW begin, Writing(begin, S, b, base, len, ch)
  PROVE  Writing(WriteLoop(begin, buf), S, b, base, len, ch)
<1> DEFINE Round(x) == WriteOn(x, buf)
           Until(m, g) == g = [k \in 0..m |-> IF k = 0 THEN begin ELSE Round(g[k - 1])]
           Runs == { m \in 0..len : \E g : Until(m, g) /\ Writing(g[m], S, b, base, len, ch) }
<1>0. ASSUME NEW s, Writing(s, S, b, base, len, ch) PROVE Writing(Round(s), S, b, base, len, ch)
  BY <1>0, WriteOnKeeps
<1> HIDE DEF Round
<1>1. 0 \in Runs
  <2> DEFINE g == [k \in 0..0 |-> begin]
  <2>1. Until(0, g) /\ g[0] = begin
    OBVIOUS
  <2> HIDE DEF g
  <2> QED
    BY <2>1
<1>2. ASSUME NEW k \in 1..len, k - 1 \in Runs PROVE k \in Runs
  <2>1. PICK g : Until(k - 1, g) /\ Writing(g[k - 1], S, b, base, len, ch)
    BY <1>2
  <2> DEFINE h == [j \in 0..k |-> IF j = k THEN Round(g[k - 1]) ELSE g[j]]
  <2>2. \A j \in 0..k : h[j] = IF j = 0 THEN begin ELSE Round(h[j - 1])
    BY <2>1
  <2>3. Until(k, h) /\ h[k] = Round(g[k - 1])
    BY <2>2
  <2> HIDE DEF Until, h
  <2>4. Writing(h[k], S, b, base, len, ch)
    BY <1>0, <2>1, <2>3
  <2> QED
    BY <2>3, <2>4
<1>3. \E g : Until(len, g) /\ Writing(g[len], S, b, base, len, ch)
  <2>1. len \in 0..len
    OBVIOUS
  <2> HIDE DEF Runs
  <2>2. \A k \in 0..len : k \in Runs
    BY <1>1, <1>2, RoundsHold
  <2>3. len \in Runs
    BY <2>1, <2>2
  <2> HIDE DEF Until
  <2> QED
    BY <2>3 DEF Runs
\* Two runs of the loop pass the same.
<1>4. ASSUME NEW g, NEW h, Until(len, g), Until(len, h) PROVE g[len] = h[len]
  <2> DEFINE Same == { k \in 0..len : g[k] = h[k] }
  <2>1. 0 \in Same
    BY <1>4
  <2>2. ASSUME NEW k \in 1..len, k - 1 \in Same PROVE k \in Same
    BY <1>4, <2>2
  <2> HIDE DEF Same
  <2>3. \A k \in 0..len : k \in Same
    BY <2>1, <2>2, RoundsHold
  <2> QED
    BY <2>3 DEF Same
<1> DEFINE run == CHOOSE g : Until(len, g)
<1>5. Until(len, run)
  <2> HIDE DEF Until
  <2> QED
    BY <1>3
<1>6. WriteLoop(begin, buf) = run[len]
  BY DEF WriteLoop, Round
<1> HIDE DEF run, Until
<1>7. Writing(run[len], S, b, base, len, ch)
  BY <1>3, <1>4, <1>5
<1> QED
  BY <1>6, <1>7

-----------------------------------------------------------------------------
(* The volume                                                              *)

Places == Cluster \X (1..EntriesPerCluster)

\* The files of a directory d, and what their chains start with.
At(d, p) == d[p[1]][p[2]]
FilesOf(d) == {p \in Places : At(d, p).name \in Name}
Roots(d) == ({At(d, p).first_cluster : p \in FilesOf(d)} \ {0}) \cup {root_cluster}

EntryRecord == [name : Name \cup {NoName}, first_cluster : Cluster \cup {0}, file_size : Nat]

\* How many bytes have room in the clusters of an entry.
Holds(e, ch) == IF e.first_cluster = 0 THEN 0 ELSE bytes_per_cluster * Len(ch[e.first_cluster])

DirectorySound(d, ch) ==
  /\ d \in [Cluster -> [1..EntriesPerCluster -> EntryRecord]]
  /\ \A p \in Places : At(d, p).name = NoName => At(d, p).first_cluster = 0
  /\ \A p \in FilesOf(d) :
       /\ At(d, p).first_cluster # root_cluster
       /\ \E i \in 1..Len(ch[root_cluster]) : ch[root_cluster][i] = p[1]
       /\ At(d, p).file_size <= Holds(At(d, p), ch)
  /\ \A p, q \in FilesOf(d) :
       p # q => At(d, p).first_cluster = 0 \/ At(d, p).first_cluster # At(d, q).first_cluster

\* Where a descriptor is to write: nowhere yet, or in a cluster of its file,
\* in which the clusters before it hold what was written before.
WritesAt(r, first, ch) ==
  /\ first # 0
  /\ \E j \in 1..Len(ch[first]) :
       /\ r.wr_cluster = ch[first][j] /\ r.wr_cluster_off \in 0..bytes_per_cluster
       /\ r.wr_off <= (j - 1) * bytes_per_cluster + r.wr_cluster_off

DescriptorSound(r, d, ch) ==
  /\ {"entry", "wr_off", "wr_cluster", "wr_cluster_off"} \subseteq DOMAIN r
  /\ r.entry \in FilesOf(d) /\ r.wr_off \in Nat
  /\ \/ r.wr_cluster = 0 /\ r.wr_off = 0 /\ r.wr_cluster_off = 0
     \/ WritesAt(r, At(d, r.entry).first_cluster, ch)

VolumeSound(f, d, ds, ch) ==
  /\ Chained(f, Roots(d), ch) /\ DirectorySound(d, ch) /\ DOMAIN ds = FD
  /\ \A x \in FD : ds[x] # NotOpen => DescriptorSound(ds[x], d, ch)

FATInv == \E ch : VolumeSound(fat, dir, fds, ch)

LEMMA LinksOfChain ==
  ASSUME NEW S, NEW ch, Chained(fat, S, ch), NEW c \in S
  PROVE  /\ Links(c) = {ch[c][i] : i \in 1..Len(ch[c])}
         /\ Ends(c) /\ Links(c) \subseteq Cluster \ FreeClusters(fat)
<1> DEFINE L == Len(ch[c])
<1>1. /\ L \in Nat \ {0} /\ ch[c][1] = c /\ L < LastCluster /\ 1 \in 1..L
      /\ \A i \in 1..L : ch[c][i] \in Cluster
      /\ \A i \in 1..L : fat[ch[c][i]] = IF i = L THEN kEndOfClusterchain ELSE ch[c][i + 1]
  <2>1. /\ L \in Nat \ {0} /\ ch[c][1] = c
        /\ \A i \in 1..L : ch[c][i] \in Cluster
        /\ \A i \in 1..L : fat[ch[c][i]] = IF i = L THEN kEndOfClusterchain ELSE ch[c][i + 1]
    BY ONLY Chained(fat, S, ch), c \in S, ChainOf
  <2>2. L < LastCluster
    BY ONLY Chained(fat, S, ch), c \in S, LengthOfChain
  <2> HIDE DEF L
  <2> QED
    BY <2>1, <2>2
<1>2. LastCluster \in Nat
  BY FATAssumption
<1>3. ASSUME NEW n \in Nat
      PROVE  Nth(fat, c, n) = IF n + 1 <= L THEN ch[c][n + 1] ELSE kEndOfClusterchain
  <2>1. Nth(fat, ch[c][1], n) = IF n + 1 <= Len(ch[c]) THEN ch[c][n + 1] ELSE kEndOfClusterchain
    <3>1. 1 \in 1..Len(ch[c])
      BY <1>1
    <3> QED
      BY ONLY Chained(fat, S, ch), c \in S, n \in Nat, <3>1, NthOfChain
  <2> QED
    BY <1>1, <2>1
<1> HIDE DEF L
<1>4. Ends(c)
  BY <1>1, <1>2, <1>3 DEF Ends
<1>5. \A x \in Links(c) : \E i \in 1..L : ch[c][i] = x
  <2> TAKE x \in Links(c)
  <2>1. PICK k \in 0..LastCluster : x = Nth(fat, c, k) /\ x # kEndOfClusterchain
    BY DEF Links
  <2>2. k \in Nat /\ k + 1 <= L /\ x = ch[c][k + 1]
    BY <1>2, <1>3, <2>1
  <2>3. k + 1 \in 1..L
    BY <1>1, <2>2
  <2> QED
    BY <2>2, <2>3
<1>6. \A i \in 1..L : ch[c][i] \in Links(c)
  <2> TAKE i \in 1..L
  <2>1. i - 1 \in 0..LastCluster /\ i - 1 \in Nat /\ i - 1 + 1 = i /\ i <= L
    BY <1>1, <1>2
  <2>2. Nth(fat, c, i - 1) = ch[c][i]
    BY <1>3, <2>1
  <2>3. ch[c][i] # kEndOfClusterchain
    BY <1>1, EndIsNoCluster
  <2> QED
    BY <2>1, <2>2, <2>3 DEF Links
<1>7. Links(c) = {ch[c][i] : i \in 1..L}
  BY <1>5, <1>6
<1>8. \A i \in 1..L : ch[c][i] \in Cluster /\ fat[ch[c][i]] # 0
  <2> TAKE i \in 1..L
  <2>1. i # L => i + 1 \in 1..L
    BY <1>1
  <2> QED
    BY <1>1, <2>1, EndIsNoCluster
<1>9. Links(c) \subseteq Cluster \ FreeClusters(fat)
  BY <1>7, <1>8 DEF FreeClusters
<1> QED
  BY <1>4, <1>7, <1>9 DEF L

\* The invariant says more than ChainsSound.
LEMMA VolumeIsSound ==
  ASSUME FATInv
  PROVE  ChainsSound
<1>1. PICK ch : VolumeSound(fat, dir, fds, ch)
  BY DEF FATInv
<1> DEFINE S == Roots(dir)
<1>2. /\ FilePlaces = FilesOf(dir) /\ Starts \cup {root_cluster} = S
      /\ \A p : Entry(p) = At(dir, p)
  BY DEF FilePlaces, FilesOf, Starts, Roots, Entry, At, Places
<1>3. Chained(fat, S, ch) /\ DirectorySound(dir, ch)
  BY <1>1 DEF VolumeSound
<1> HIDE DEF S
<1>4. \A c \in S : /\ Links(c) = {ch[c][i] : i \in 1..Len(ch[c])}
                   /\ Ends(c) /\ Links(c) \subseteq Cluster \ FreeClusters(fat)
  BY <1>3, LinksOfChain
<1>5. \A b, c \in S : b # c => Links(b) \cap Links(c) = {}
  <2> TAKE b, c \in S
  <2> HAVE b # c
  <2>1. \A i \in 1..Len(ch[b]), k \in 1..Len(ch[c]) : ch[b][i] # ch[c][k]
    BY <1>3 DEF Chained
  <2> QED
    BY <1>4, <2>1
<1>6. \A p, q \in FilePlaces :
        p # q => Entry(p).first_cluster = 0 \/ Entry(p).first_cluster # Entry(q).first_cluster
  BY <1>2, <1>3 DEF DirectorySound
<1>7. Cluster = FreeClusters(fat) \cup UNION {Links(c) : c \in S}
  <2>1. \A x \in Cluster : fat[x] # 0 => \E c \in S : x \in Links(c)
    BY <1>3, <1>4 DEF Chained
  <2>2. \A x \in Cluster : x \in FreeClusters(fat) \/ \E c \in S : x \in Links(c)
    BY <2>1 DEF FreeClusters
  <2>3. FreeClusters(fat) \subseteq Cluster
    BY DEF FreeClusters
  <2> QED
    BY <1>4, <2>2, <2>3
<1>8. ASSUME NEW p \in FilePlaces
      PROVE  Entry(p).file_size <= IF Entry(p).first_cluster = 0 THEN 0
               ELSE bytes_per_cluster * Cardinality(Links(Entry(p).first_cluster))
  <2>1. Entry(p).file_size <= Holds(Entry(p), ch)
    BY <1>2, <1>3 DEF DirectorySound
  <2>2. Entry(p).first_cluster # 0 => Entry(p).first_cluster \in S
    BY <1>2 DEF S, Roots
  <2>3. \A c \in S : Cardinality(Links(c)) = Len(ch[c])
    BY <1>3, <1>4, LengthOfChain
  <2> QED
    BY <2>1, <2>2, <2>3 DEF Holds
<1> QED
  BY <1>2, <1>4, <1>5, <1>6, <1>7, <1>8 DEF ChainsSound

LEMMA InitIsSound ==
  ASSUME FATInit
  PROVE  FATInv
<1> DEFINE ch == [c \in {root_cluster} |-> <<root_cluster>>]
<1>1. root_cluster \in Cluster
  BY FATAssumption DEF Cluster, root_cluster
<1>2. FilesOf(dir) = {} /\ dir \in [Cluster -> [1..EntriesPerCluster -> EntryRecord]]
      /\ \A p \in Places : At(dir, p).first_cluster = 0
  <2>1. EmptyEntry \in EntryRecord /\ EmptyEntry.name = NoName /\ EmptyEntry.first_cluster = 0
    BY DEF EmptyEntry, EntryRecord
  <2> HIDE DEF EmptyEntry
  <2>2. \A p \in Places : At(dir, p) = EmptyEntry
    BY DEF FATInit, Places, At, EmptyDirectory
  <2>3. dir \in [Cluster -> [1..EntriesPerCluster -> EntryRecord]]
    BY <2>1 DEF FATInit, EmptyDirectory
  <2> QED
    BY <2>1, <2>2, <2>3, FATAssumption DEF FilesOf
<1>3. Roots(dir) = {root_cluster}
  BY <1>2 DEF Roots
<1>4. Chained(fat, {root_cluster}, ch)
  <2>1. fat \in [Cluster -> Int] /\ fat[root_cluster] = kEndOfClusterchain
        /\ \A x \in Cluster : fat[x] # 0 => x = root_cluster
    BY <1>1 DEF FATInit, kEndOfClusterchain
  <2>2. <<root_cluster>> \in Seq(Cluster) /\ Len(<<root_cluster>>) = 1 /\ <<root_cluster>>[1] = root_cluster
    BY <1>1
  <2>3. ch \in [{root_cluster} -> Seq(Cluster)] /\ Len(ch[root_cluster]) = 1
        /\ ch[root_cluster][1] = root_cluster
    <3> DEFINE one == <<root_cluster>>
    <3>1. one \in Seq(Cluster) /\ Len(one) = 1 /\ one[1] = root_cluster
      BY <2>2
    <3> HIDE DEF one
    <3>2. [c \in {root_cluster} |-> one] \in [{root_cluster} -> Seq(Cluster)]
          /\ [c \in {root_cluster} |-> one][root_cluster] = one
      BY <3>1
    <3>3. ch = [c \in {root_cluster} |-> one]
      BY DEF one
    <3> HIDE DEF ch
    <3> QED
      BY <3>1, <3>2, <3>3
  <2> HIDE DEF ch
  <2>4. \A i \in 1..1 : i = 1
    OBVIOUS
  <2> DEFINE seq == ch[root_cluster]
  <2>5. ch[root_cluster] = seq /\ Len(seq) = 1 /\ seq[1] = root_cluster /\ 1 \in 1..1
    BY <2>3
  <2> HIDE DEF seq
  <2>6. ASSUME NEW c \in {root_cluster}
        PROVE  /\ Len(ch[c]) >= 1 /\ ch[c][1] = c /\ fat[ch[c][Len(ch[c])]] = kEndOfClusterchain
               /\ \A k \in 1..Len(ch[c]) - 1 : fat[ch[c][k]] = ch[c][k + 1]
    <3>1. c = root_cluster /\ ch[c] = seq
      BY <2>5
    <3>2. fat[seq[1]] = kEndOfClusterchain
      BY <2>1, <2>5
    <3>3. \A k \in 1..Len(seq) - 1 : FALSE
      BY ONLY <2>5
    <3>4. /\ Len(seq) >= 1 /\ seq[1] = root_cluster /\ fat[seq[Len(seq)]] = kEndOfClusterchain
      BY ONLY <2>5, <3>2
    <3> QED
      BY ONLY <3>1, <3>3, <3>4
  <2>7. ASSUME NEW b \in {root_cluster}, NEW c \in {root_cluster},
               NEW i \in 1..Len(ch[b]), NEW j \in 1..Len(ch[c])
        PROVE  b = c /\ i = j
    BY <2>4, <2>5
  <2>8. ASSUME NEW x \in Cluster, fat[x] # 0
        PROVE  \E c \in {root_cluster} : \E i \in 1..Len(ch[c]) : ch[c][i] = x
    BY <2>1, <2>5, <2>8
  <2> QED
    BY <1>1, <2>1, <2>3, <2>6, <2>7, <2>8 DEF Chained
<1>5. DirectorySound(dir, ch)
  BY <1>2 DEF DirectorySound
<1>6. DOMAIN fds = FD /\ \A x \in FD : fds[x] = NotOpen
  BY DEF FATInit
<1> HIDE DEF ch
<1> QED
  BY <1>3, <1>4, <1>5, <1>6 DEF FATInv, VolumeSound

\* As the chains grow, the clusters of an entry hold no less, and descriptors
\* stay where they are.
LEMMA HoldsNoLess ==
  ASSUME NEW S, NEW ch, NEW more, Grown(S, ch, more),
         \A c \in S : Len(ch[c]) \in Nat /\ Len(more[c]) \in Nat,
         NEW e, e.first_cluster \in S \cup {0}, NEW x \in Nat, x <= Holds(e, ch)
  PROVE  x <= Holds(e, more)
<1> DEFINE B == bytes_per_cluster
<1>1. CASE e.first_cluster = 0
  BY <1>1 DEF Holds
<1>2. CASE e.first_cluster # 0
  <2>1. /\ Len(ch[e.first_cluster]) \in Nat /\ Len(more[e.first_cluster]) \in Nat
        /\ Len(ch[e.first_cluster]) <= Len(more[e.first_cluster]) /\ B \in Nat
    BY <1>2, FATAssumption DEF Grown
  <2>2. \A l, m \in Nat : l <= m => B * l <= B * m /\ B * l \in Nat /\ B * m \in Nat
    BY <2>1
  <2>3. x <= B * Len(ch[e.first_cluster])
    BY <1>2 DEF Holds
  <2> HIDE DEF B
  <2>4. \A y, z \in Nat : x <= y /\ y <= z => x <= z
    OBVIOUS
  <2>5. x <= B * Len(more[e.first_cluster])
    BY ONLY <2>1, <2>2, <2>3, <2>4
  <2> QED
    BY <1>2, <2>5 DEF Holds, B
<1> QED
  BY <1>1, <1>2

LEMMA DescriptorKept ==
  ASSUME NEW d, NEW new, NEW ch, NEW more, Grown(Roots(d), ch, more),
         NEW r, DescriptorSound(r, d, ch), r.entry \in FilesOf(new),
         LET first == At(d, r.entry).first_cluster
         IN  first # 0 => At(new, r.entry).first_cluster = first
  PROVE  DescriptorSound(r, new, more)
<1> DEFINE first == At(d, r.entry).first_cluster
<1>1. CASE r.wr_cluster = 0 /\ r.wr_off = 0 /\ r.wr_cluster_off = 0
  BY <1>1 DEF DescriptorSound
<1>2. CASE WritesAt(r, first, ch)
  <2>1. first # 0 /\ first \in Roots(d) /\ At(new, r.entry).first_cluster = first
    BY <1>2 DEF WritesAt, DescriptorSound, Roots
  <2>2. PICK j \in 1..Len(ch[first]) :
          /\ r.wr_cluster = ch[first][j] /\ r.wr_cluster_off \in 0..bytes_per_cluster
          /\ r.wr_off <= (j - 1) * bytes_per_cluster + r.wr_cluster_off
    BY <1>2 DEF WritesAt
  <2>3. j \in 1..Len(more[first]) /\ more[first][j] = ch[first][j]
    BY <2>1, <2>2 DEF Grown
  <2> HIDE DEF first
  <2>4. WritesAt(r, first, more)
    BY <2>1, <2>2, <2>3 DEF WritesAt
  <2> QED
    BY <2>1, <2>4 DEF DescriptorSound
<1> QED
  BY <1>1, <1>2 DEF DescriptorSound

LEMMA EntryTyped ==
  ASSUME NEW d \in [Cluster -> [1..EntriesPerCluster -> EntryRecord]], NEW p \in Places
  PROVE  /\ At(d, p) \in EntryRecord /\ At(d, p).file_size \in Nat
         /\ At(d, p).first_cluster \in Cluster \cup {0}
         /\ At(d, p) = [name |-> At(d, p).name, first_cluster |-> At(d, p).first_cluster,
                       file_size |-> At(d, p).file_size]
<1>1. At(d, p) \in EntryRecord
  BY DEF At, Places
<1> QED
  BY <1>1 DEF EntryRecord

\* What happens to an entry: it is named, or written to, and put back.
Named(e, n) == [e EXCEPT !.name = n, !.file_size = 0]
Sized(e, size) == [e EXCEPT !.file_size = size]
Begun(e, first) == [e EXCEPT !.first_cluster = first]
Put(d, p, e) == [d EXCEPT ![p[1]][p[2]] = e]

LEMMA EntryChanged ==
  ASSUME NEW e \in EntryRecord
  PROVE  /\ \A n \in Name :
              /\ Named(e, n) \in EntryRecord /\ Named(e, n).name = n
              /\ Named(e, n).file_size = 0 /\ Named(e, n).first_cluster = e.first_cluster
         /\ \A size \in Nat :
              /\ Sized(e, size) \in EntryRecord /\ Sized(e, size).name = e.name
              /\ Sized(e, size).file_size = size
              /\ Sized(e, size).first_cluster = e.first_cluster
         /\ \A first \in Cluster :
              /\ Begun(e, first) \in EntryRecord /\ Begun(e, first).name = e.name
              /\ Begun(e, first).file_size = e.file_size
              /\ Begun(e, first).first_cluster = first
  BY DEF EntryRecord, Named, Sized, Begun

LEMMA EntryPut ==
  ASSUME NEW d \in [Cluster -> [1..EntriesPerCluster -> EntryRecord]], NEW p \in Places,
         NEW e \in EntryRecord
  PROVE  /\ Put(d, p, e) \in [Cluster -> [1..EntriesPerCluster -> EntryRecord]]
         /\ At(Put(d, p, e), p) = e
         /\ \A q \in Places \ {p} : At(Put(d, p, e), q) = At(d, q)
<1> DEFINE new == Put(d, p, e)
<1>1. PICK a \in Cluster, b \in 1..EntriesPerCluster : p = <<a, b>>
  BY DEF Places
<1>2. p[1] = a /\ p[2] = b
  BY <1>1
<1>3. /\ new \in [Cluster -> [1..EntriesPerCluster -> EntryRecord]] /\ new[a][b] = e
      /\ \A c \in Cluster, i \in 1..EntriesPerCluster : c # a \/ i # b => new[c][i] = d[c][i]
  <2>1. new = [d EXCEPT ![a][b] = e]
    BY <1>2 DEF Put
  <2> HIDE DEF new
  <2> DEFINE line == [d[a] EXCEPT ![b] = e]
             Line == [1..EntriesPerCluster -> EntryRecord]
  <2>2. d[a] \in Line
    OBVIOUS
  <2>3. line \in Line /\ line[b] = e /\ \A i \in 1..EntriesPerCluster : i # b => line[i] = d[a][i]
    BY <2>2
  <2>4. new = [d EXCEPT ![a] = line]
    BY <2>1
  <2> HIDE DEF line
  <2>5. new[a] = line /\ \A c \in Cluster : c # a => new[c] = d[c]
    BY <2>4
  <2>6. new \in [Cluster -> Line]
    <3> HIDE DEF Line
    <3> QED
      BY <2>3, <2>4 DEF Line
  <2> QED
    BY <2>3, <2>5, <2>6
<1>4. ASSUME NEW q \in Places \ {p} PROVE At(new, q) = At(d, q)
  <2>1. PICK c \in Cluster, i \in 1..EntriesPerCluster : q = <<c, i>>
    BY DEF Places
  <2>2. q[1] = c /\ q[2] = i /\ (c # a \/ i # b)
    BY <1>1, <2>1
  <2> QED
    BY <1>3, <2>2 DEF At
<1> HIDE DEF new
<1>5. At(new, p) = e
  BY <1>2, <1>3 DEF At
<1> QED
  BY <1>3, <1>4, <1>5 DEF new

\* A file that is added, and a new descriptor for it.
LEMMA FileAdded ==
  ASSUME NEW f, NEW d, NEW ds, NEW ch, VolumeSound(f, d, ds, ch),
         NEW p \in Places, p \notin FilesOf(d),
         NEW table, NEW new, NEW more,
         Chained(table, Roots(d), more), Grown(Roots(d), ch, more),
         new \in [Cluster -> [1..EntriesPerCluster -> EntryRecord]],
         \A q \in Places : At(new, q).name = NoName => At(new, q).first_cluster = 0,
         FilesOf(new) = FilesOf(d) \cup {p}, \A q \in FilesOf(d) : At(new, q) = At(d, q),
         At(new, p).first_cluster = 0, At(new, p).file_size = 0,
         \E i \in 1..Len(more[root_cluster]) : more[root_cluster][i] = p[1],
         NEW x \in FD, NEW mode
  PROVE  VolumeSound(table, new, [ds EXCEPT ![x] = NewDescriptor(p, mode)], more)
<1> DEFINE S == Roots(d)
<1>1. Roots(new) = S
  BY DEF Roots
<1>2. Chained(f, S, ch) /\ DirectorySound(d, ch) /\ DOMAIN ds = FD /\ root_cluster \in S
      /\ \A y \in FD : ds[y] # NotOpen => DescriptorSound(ds[y], d, ch)
  BY DEF VolumeSound, Roots
<1>3. \A c \in S : Len(ch[c]) \in Nat /\ Len(more[c]) \in Nat
  BY <1>2, ChainOf
<1>4. \A q \in FilesOf(d) : At(d, q).first_cluster \in S \cup {0}
  BY DEF Roots
<1>5. \A q \in FilesOf(d) : At(d, q).file_size \in Nat
  BY <1>2, EntryTyped DEF DirectorySound, FilesOf
<1> HIDE DEF S
<1>6. ASSUME NEW q \in FilesOf(d)
      PROVE  /\ At(new, q).first_cluster # root_cluster
             /\ \E i \in 1..Len(more[root_cluster]) : more[root_cluster][i] = q[1]
             /\ At(new, q).file_size <= Holds(At(new, q), more)
  <2>1. At(new, q) = At(d, q) /\ At(d, q).first_cluster # root_cluster
    BY <1>2 DEF DirectorySound
  <2>2. PICK i \in 1..Len(ch[root_cluster]) : ch[root_cluster][i] = q[1]
    BY <1>2 DEF DirectorySound
  <2>3. i \in 1..Len(more[root_cluster]) /\ more[root_cluster][i] = q[1]
    BY <1>2, <2>2 DEF Grown, S
  <2>4. At(d, q).file_size <= Holds(At(d, q), ch)
    BY <1>2 DEF DirectorySound
  <2>5. At(d, q).file_size <= Holds(At(d, q), more)
    <3>1. Grown(S, ch, more)
      BY DEF S
    <3> QED
      BY ONLY <1>3, <1>4, <1>5, <2>4, <3>1, q \in FilesOf(d), FATAssumption, HoldsNoLess
  <2> QED
    BY <2>1, <2>3, <2>5
<1>7. At(new, p).first_cluster # root_cluster /\ At(new, p).file_size <= Holds(At(new, p), more)
  BY DEF Holds, root_cluster
<1>8. \A q, o \in FilesOf(new) :
        q # o => At(new, q).first_cluster = 0 \/ At(new, q).first_cluster # At(new, o).first_cluster
  <2> TAKE q, o \in FilesOf(new)
  <2>1. CASE q = p
    BY <2>1
  <2>2. CASE q # p /\ o = p
    BY <2>2
  <2>3. CASE q # p /\ o # p
    BY <1>2, <2>3 DEF DirectorySound
  <2> QED
    BY <2>1, <2>2, <2>3
<1>9. DirectorySound(new, more)
  BY <1>6, <1>7, <1>8 DEF DirectorySound
<1>10. DescriptorSound(NewDescriptor(p, mode), new, more)
  BY DEF DescriptorSound, NewDescriptor
<1>11. ASSUME NEW y \in FD, ds[y] # NotOpen PROVE DescriptorSound(ds[y], new, more)
  <2>1. DescriptorSound(ds[y], d, ch) /\ ds[y].entry \in FilesOf(d)
    BY <1>2, <1>11 DEF DescriptorSound
  <2>2. ds[y].entry \in FilesOf(new) /\ At(new, ds[y].entry) = At(d, ds[y].entry)
    BY <2>1
  <2> QED
    BY <2>1, <2>2, DescriptorKept
<1> DEFINE after == [ds EXCEPT ![x] = NewDescriptor(p, mode)]
<1>12. DOMAIN after = FD /\ after[x] = NewDescriptor(p, mode) /\ \A y \in FD \ {x} : after[y] = ds[y]
  BY <1>2
<1> HIDE DEF after
<1>13. \A y \in FD : after[y] # NotOpen => DescriptorSound(after[y], new, more)
  BY <1>10, <1>11, <1>12
<1>14. VolumeSound(table, new, after, more)
  BY <1>1, <1>9, <1>12, <1>13 DEF VolumeSound, S
<1> QED
  BY <1>14 DEF after

\* A file that is written.
LEMMA FileWritten ==
  ASSUME NEW f, NEW d, NEW ds, NEW ch, VolumeSound(f, d, ds, ch),
         NEW p \in FilesOf(d), NEW first \in Cluster,
         IF At(d, p).first_cluster = 0 THEN first \notin Roots(d) ELSE first = At(d, p).first_cluster,
         NEW table, NEW new, NEW more,
         Chained(table, Roots(d) \cup {first}, more), Grown(Roots(d), ch, more),
         new \in [Cluster -> [1..EntriesPerCluster -> EntryRecord]],
         At(new, p).name = At(d, p).name, At(new, p).first_cluster = first,
         At(new, p).file_size <= bytes_per_cluster * Len(more[first]),
         \A q \in Places \ {p} : At(new, q) = At(d, q)
  PROVE  VolumeSound(table, new, ds, more)
<1> DEFINE S == Roots(d)
           T == Roots(d) \cup {first}
<1>1. FilesOf(new) = FilesOf(d) /\ p \in Places /\ FilesOf(d) \subseteq Places
  BY DEF FilesOf
<1>2. Chained(f, S, ch) /\ DirectorySound(d, ch) /\ root_cluster \in S /\ first # 0 /\ DOMAIN ds = FD
      /\ \A y \in FD : ds[y] # NotOpen => DescriptorSound(ds[y], d, ch)
  BY EndIsNoCluster DEF VolumeSound, Roots
<1>3. Roots(new) = T
  <2>1. \A q \in FilesOf(d) \ {p} : At(new, q) = At(d, q)
    BY <1>1
  <2>2. At(d, p).first_cluster \in {0, first}
    OBVIOUS
  <2> QED
    BY <1>1, <1>2, <2>1, <2>2 DEF Roots
<1>4. \A c \in S : Len(ch[c]) \in Nat /\ Len(more[c]) \in Nat
  BY <1>2, ChainOf
<1>5. \A q \in FilesOf(d) : At(d, q).first_cluster \in S \cup {0} /\ At(d, q).file_size \in Nat
  <2>1. \A q \in FilesOf(d) : At(d, q).file_size \in Nat
    BY <1>1, <1>2, EntryTyped DEF DirectorySound
  <2> QED
    BY <2>1 DEF Roots
<1>6. first # root_cluster
  BY <1>2 DEF DirectorySound
<1>7. \A q \in FilesOf(d) \ {p} : At(new, q) = At(d, q) /\ At(new, q).first_cluster # first
  <2> TAKE q \in FilesOf(d) \ {p}
  <2>1. At(new, q) = At(d, q)
    BY <1>1
  <2>2. At(d, q).first_cluster # first
    <3>1. CASE At(d, p).first_cluster = 0
      <4>1. At(d, q).first_cluster = 0 \/ At(d, q).first_cluster \in Roots(d)
        BY <1>5
      <4> QED
        BY <1>2, <3>1, <4>1
    <3>2. CASE At(d, p).first_cluster # 0
      BY <1>2, <3>2 DEF DirectorySound
    <3> QED
      BY <3>1, <3>2
  <2> QED
    BY <2>1, <2>2
<1> HIDE DEF S, T
<1>8. ASSUME NEW q \in FilesOf(d)
      PROVE  /\ At(new, q).first_cluster # root_cluster
             /\ \E i \in 1..Len(more[root_cluster]) : more[root_cluster][i] = q[1]
             /\ At(new, q).file_size <= Holds(At(new, q), more)
  <2>1. PICK i \in 1..Len(ch[root_cluster]) : ch[root_cluster][i] = q[1]
    BY <1>2 DEF DirectorySound
  <2>2. i \in 1..Len(more[root_cluster]) /\ more[root_cluster][i] = q[1]
    BY <1>2, <2>1 DEF Grown, S
  <2>3. CASE q = p
    BY <1>2, <1>6, <2>2, <2>3 DEF Holds
  <2>4. CASE q # p
    <3>1. At(new, q) = At(d, q) /\ At(d, q).first_cluster # root_cluster
      BY <1>2, <1>7, <2>4 DEF DirectorySound
    <3>2. At(d, q).file_size <= Holds(At(d, q), ch) /\ Grown(S, ch, more)
      BY <1>2 DEF DirectorySound, S
    <3>3. At(d, q).file_size <= Holds(At(d, q), more)
      BY ONLY <1>4, <1>5, <3>2, q \in FilesOf(d), FATAssumption, HoldsNoLess
    <3> QED
      BY <2>2, <3>1, <3>3
  <2> QED
    BY <2>3, <2>4
<1>9. \A q, o \in FilesOf(d) :
        q # o => At(new, q).first_cluster = 0 \/ At(new, q).first_cluster # At(new, o).first_cluster
  <2> TAKE q, o \in FilesOf(d)
  <2>1. CASE q = p
    BY <1>7, <2>1
  <2>2. CASE q # p /\ o = p
    BY <1>7, <2>2
  <2>3. CASE q # p /\ o # p
    BY <1>2, <1>7, <2>3 DEF DirectorySound
  <2> QED
    BY <2>1, <2>2, <2>3
<1>10. \A q \in Places : At(new, q).name = NoName => At(new, q).first_cluster = 0
  BY <1>2, FATAssumption DEF DirectorySound, FilesOf
<1>11. DirectorySound(new, more)
  BY <1>1, <1>8, <1>9, <1>10 DEF DirectorySound
<1>12. ASSUME NEW y \in FD, ds[y] # NotOpen PROVE DescriptorSound(ds[y], new, more)
  <2>1. DescriptorSound(ds[y], d, ch) /\ ds[y].entry \in FilesOf(d)
    BY <1>2, <1>12 DEF DescriptorSound
  <2>2. At(d, ds[y].entry).first_cluster # 0 =>
          At(new, ds[y].entry).first_cluster = At(d, ds[y].entry).first_cluster
    BY <1>7, <2>1
  <2>3. ds[y].entry \in FilesOf(new)
    BY <1>1, <2>1
  <2> QED
    BY <2>1, <2>2, <2>3, DescriptorKept
<1> QED
  BY <1>2, <1>3, <1>11, <1>12 DEF VolumeSound, T

-----------------------------------------------------------------------------
(* The steps                                                               *)

\* A descriptor that is closed, opened for a file there is, or read from.
LEMMA OneDescriptor ==
  ASSUME NEW f, NEW d, NEW ds, NEW ch, VolumeSound(f, d, ds, ch),
         NEW x \in FD, NEW after, DOMAIN after = FD, \A y \in FD \ {x} : after[y] = ds[y],
         after[x] # NotOpen => DescriptorSound(after[x], d, ch)
  PROVE  VolumeSound(f, d, after, ch)
  BY DEF VolumeSound

LEMMA CloseKeeps ==
  ASSUME FATInv, NEW d \in FD, Close(d)
  PROVE  FATInv'
<1>1. PICK ch : VolumeSound(fat, dir, fds, ch)
  BY DEF FATInv
<1>2. /\ fat' = fat /\ dir' = dir /\ DOMAIN fds' = FD /\ fds'[d] = NotOpen
      /\ \A y \in FD \ {d} : fds'[y] = fds[y]
  BY <1>1 DEF Close, VolumeSound
<1>3. VolumeSound(fat, dir, fds', ch)
  BY <1>1, <1>2, OneDescriptor
<1> QED
  BY <1>2, <1>3 DEF FATInv

LEMMA ReadKeeps ==
  ASSUME FATInv, NEW d \in FD, fds[d] # NotOpen, NEW len, Read(d, len)
  PROVE  FATInv'
<1>1. PICK ch : VolumeSound(fat, dir, fds, ch)
  BY DEF FATInv
<1> DEFINE end == ReadFrom(Entry(fds[d].entry), fds[d].rd_cluster, fds[d].rd_cluster_off, fds[d].rd_off, len)
           r == fds[d]
<1>2. /\ fat' = fat /\ dir' = dir
      /\ fds' = [fds EXCEPT ![d].rd_cluster = end.cluster, ![d].rd_cluster_off = end.off,
                            ![d].rd_off = @ + Len(end.buf)]
  BY DEF Read
<1> HIDE DEF end
<1>3. DOMAIN fds = FD /\ DescriptorSound(r, dir, ch)
  BY <1>1 DEF VolumeSound
<1>4. /\ DOMAIN fds' = FD /\ \A y \in FD \ {d} : fds'[y] = fds[y]
      /\ DOMAIN fds'[d] = DOMAIN r
      /\ \A w \in DOMAIN r \ {"rd_cluster", "rd_cluster_off", "rd_off"} : fds'[d][w] = r[w]
  BY <1>2, <1>3
<1>5. DescriptorSound(fds'[d], dir, ch)
  <2>1. fds'[d].entry = r.entry /\ fds'[d].wr_off = r.wr_off
        /\ fds'[d].wr_cluster = r.wr_cluster /\ fds'[d].wr_cluster_off = r.wr_cluster_off
    BY <1>3, <1>4 DEF DescriptorSound
  <2> QED
    BY <1>3, <1>4, <2>1 DEF DescriptorSound, WritesAt
<1>6. VolumeSound(fat, dir, fds', ch)
  BY <1>1, <1>4, <1>5, OneDescriptor
<1> QED
  BY <1>2, <1>6 DEF FATInv

\* A file is created in the first unused entry of its directory.
TakesEntry(d, n, mode, place) ==
  /\ place \in FirstOf({NoName}) /\ fat' = fat
  /\ dir' = [dir EXCEPT ![place[1]][place[2]] = NewEntry(n, place)]
  /\ fds' = [fds EXCEPT ![d] = NewDescriptor(place, mode)]

LEMMA EntryTaken ==
  ASSUME NEW ch, VolumeSound(fat, dir, fds, ch), NEW d \in FD, NEW n \in Name, NEW mode,
         NEW place \in Places, TakesEntry(d, n, mode, place)
  PROVE  /\ VolumeSound(fat', dir', fds', ch)
         /\ At(dir, place).name = NoName /\ At(dir', place).name = n /\ At(dir', place).file_size = 0
         /\ \A q \in Places \ {place} : At(dir', q) = At(dir, q)
<1> DEFINE S == Roots(dir)
           L == Len(ch[root_cluster])
<1>1. VolumeSound(fat, dir, fds, ch)
  OBVIOUS
<1>2. fds' = [fds EXCEPT ![d] = NewDescriptor(place, mode)]
  BY DEF TakesEntry
<1>3. Chained(fat, S, ch) /\ DirectorySound(dir, ch) /\ root_cluster \in S /\ DOMAIN fds = FD
  BY <1>1 DEF VolumeSound, Roots
<1>4. /\ L \in Nat \ {0} /\ ch[root_cluster][1] = root_cluster
      /\ \A c \in S : Len(ch[c]) \in Nat
  BY <1>3, ChainOf
<1>5. 1 \in 1..L
  BY <1>4
<1> HIDE DEF S, L
<1>6. NoName \notin Name /\ EmptyEntry \in EntryRecord /\ 1 \in 1..EntriesPerCluster
  BY FATAssumption DEF EmptyEntry, EntryRecord
<1>7. /\ place \in FirstOf({NoName}) /\ fat' = fat
      /\ dir' = [dir EXCEPT ![place[1]][place[2]] = NewEntry(n, place)]
  BY DEF TakesEntry
<1>8. At(dir, place).name = NoName /\ \E i \in 1..L : ch[root_cluster][i] = place[1]
  <2>1. PICK k \in PlaceNumber : place = Place(k) /\ Entry(Place(k)).name = NoName
    BY <1>7 DEF FirstOf
  <2> DEFINE m == (k - 1) \div EntriesPerCluster
  <2>2. m \in Nat
    <3>1. k - 1 \in Nat /\ EntriesPerCluster \in Nat \ {0}
      BY FATAssumption DEF PlaceNumber
    <3> QED
      BY <3>1
  <2>3. place[1] = Nth(fat, root_cluster, m) /\ place[1] \in Cluster
    BY <2>1 DEF Place, Places
  <2> HIDE DEF m
  <2>4. Nth(fat, ch[root_cluster][1], m) =
          IF m + 1 <= Len(ch[root_cluster]) THEN ch[root_cluster][m + 1] ELSE kEndOfClusterchain
    <3>1. 1 \in 1..Len(ch[root_cluster])
      BY <1>5 DEF L
    <3> QED
      BY ONLY <1>3, <2>2, <3>1, NthOfChain
  <2>5. m + 1 <= L /\ place[1] = ch[root_cluster][m + 1]
    BY <1>4, <2>3, <2>4, EndIsNoCluster DEF L
  <2>6. m + 1 \in 1..L
    BY <1>4, <2>2, <2>5
  <2> QED
    BY <2>1, <2>5, <2>6 DEF Entry, At
<1> DEFINE e == NewEntry(n, place)
<1>9. e \in EntryRecord /\ e.name = n /\ e.first_cluster = 0 /\ e.file_size = 0
  <2>1. At(dir, place).first_cluster = 0
    BY <1>3, <1>8 DEF DirectorySound
  <2>2. At(dir, place) \in EntryRecord /\ 0 \in Nat
    BY <1>3, EntryTyped DEF DirectorySound
  <2>3. e = Named(At(dir, place), n)
    BY DEF NewEntry, Entry, At, Named
  <2> HIDE DEF e
  <2> QED
    BY <2>1, <2>2, <2>3, EntryChanged
<1> HIDE DEF e
<1>10. /\ dir' \in [Cluster -> [1..EntriesPerCluster -> EntryRecord]] /\ At(dir', place) = e
      /\ \A q \in Places \ {place} : At(dir', q) = At(dir, q)
  <2>1. dir \in [Cluster -> [1..EntriesPerCluster -> EntryRecord]]
    BY <1>3 DEF DirectorySound
  <2>2. dir' = Put(dir, place, e) /\ e \in EntryRecord
    BY <1>7, <1>9 DEF e, Put
  <2> QED
    BY ONLY <2>1, <2>2, place \in Places, EntryPut
<1>11. place \notin FilesOf(dir) /\ FilesOf(dir') = FilesOf(dir) \cup {place}
      /\ \A q \in FilesOf(dir) : At(dir', q) = At(dir, q)
  BY <1>6, <1>8, <1>9, <1>10 DEF FilesOf
<1>12. \A q \in Places : At(dir', q).name = NoName => At(dir', q).first_cluster = 0
  BY <1>3, <1>9, <1>10 DEF DirectorySound
<1>13. Grown(S, ch, ch)
  BY <1>4 DEF Grown
<1>14. VolumeSound(fat, dir', [fds EXCEPT ![d] = NewDescriptor(place, mode)], ch)
  <2>1. /\ Chained(fat, Roots(dir), ch) /\ Grown(Roots(dir), ch, ch)
        /\ At(dir', place).first_cluster = 0 /\ At(dir', place).file_size = 0
        /\ \E i \in 1..Len(ch[root_cluster]) : ch[root_cluster][i] = place[1]
    BY <1>3, <1>8, <1>9, <1>10, <1>13 DEF S, L
  <2> QED
    BY ONLY <1>1, <1>10, <1>11, <1>12, <2>1, d \in FD, place \in Places, FileAdded
<1> QED
  BY <1>2, <1>7, <1>8, <1>9, <1>10, <1>14

\* A file is created in a cluster that is added to its directory.
AddsCluster(d, n, mode, place) ==
  /\ FreeClusters(fat) # {} /\ place = <<ExtendCluster(fat, root_cluster, 1).last, 1>>
  /\ fat' = ExtendCluster(fat, root_cluster, 1).fat
  /\ dir' = [dir EXCEPT ![ExtendCluster(fat, root_cluster, 1).last] =
               [EmptyDirectory EXCEPT ![1] = [EmptyEntry EXCEPT !.name = n]]]
  /\ fds' = [fds EXCEPT ![d] = NewDescriptor(place, mode)]

LEMMA ClusterAdded ==
  ASSUME NEW ch, VolumeSound(fat, dir, fds, ch), NEW d \in FD, NEW n \in Name, NEW mode,
         NEW place \in Places, AddsCluster(d, n, mode, place)
  PROVE  \E more :
           /\ VolumeSound(fat', dir', fds', more) /\ Grown(Roots(dir), ch, more)
           /\ Chained(fat', Roots(dir), more)
           /\ Len(more[root_cluster]) = Len(ch[root_cluster]) + 1
           /\ place = <<more[root_cluster][Len(ch[root_cluster]) + 1], 1>>
           /\ At(dir', place).name = n /\ At(dir', place).file_size = 0
           /\ \A q \in Places \ {place} :
                At(dir', q) = IF q[1] = place[1] THEN EmptyEntry ELSE At(dir, q)
<1> DEFINE S == Roots(dir)
           L == Len(ch[root_cluster])
<1>1. VolumeSound(fat, dir, fds, ch)
  OBVIOUS
<1>2. fds' = [fds EXCEPT ![d] = NewDescriptor(place, mode)]
  BY DEF AddsCluster
<1>3. Chained(fat, S, ch) /\ DirectorySound(dir, ch) /\ root_cluster \in S /\ DOMAIN fds = FD
  BY <1>1 DEF VolumeSound, Roots
<1>4. /\ L \in Nat \ {0} /\ ch[root_cluster][1] = root_cluster
      /\ \A c \in S : Len(ch[c]) \in Nat
  BY <1>3, ChainOf
<1>5. 1 \in 1..L
  BY <1>4
<1> HIDE DEF S, L
<1>6. NoName \notin Name /\ EmptyEntry \in EntryRecord /\ 1 \in 1..EntriesPerCluster
  BY FATAssumption DEF EmptyEntry, EntryRecord
<1>7. /\ FreeClusters(fat) # {} /\ place = <<ExtendCluster(fat, root_cluster, 1).last, 1>>
      /\ fat' = ExtendCluster(fat, root_cluster, 1).fat
      /\ dir' = [dir EXCEPT ![ExtendCluster(fat, root_cluster, 1).last] =
                   [EmptyDirectory EXCEPT ![1] = [EmptyEntry EXCEPT !.name = n]]]
  BY DEF AddsCluster
<1> DEFINE more == Longer(fat, ch, root_cluster, 1)
           last == ExtendCluster(fat, root_cluster, 1).last
           table == ExtendCluster(fat, root_cluster, 1).fat
           e == [EmptyEntry EXCEPT !.name = n]
<1>8. 1 <= FreeCount(fat) /\ 1 <= Cardinality(FreeClusters(fat))
  <2>1. FreeCount(fat) # 0
    BY <1>7, FreeAreFinite, FS_EmptySet DEF FreeCount
  <2> QED
    BY <2>1, FreeAreFinite DEF FreeCount
<1>9. /\ Chained(table, S, more) /\ Grown(S, ch, more)
      /\ last = more[root_cluster][L + 1] /\ Len(more[root_cluster]) = L + 1
  <2>1. /\ 1 \in 1..Len(ch[root_cluster]) /\ root_cluster = ch[root_cluster][1] /\ 1 \in Nat \ {0} /\ 1 \in Nat
    BY <1>4, <1>5 DEF L
  <2>2. Chained(ExtendCluster(fat, ch[root_cluster][1], 1).fat, S, more)
    BY ONLY <1>3, <1>8, <2>1, FATAssumption, ExtendsChain
  <2>3. Grown(S, ch, more)
    BY ONLY <1>3, <1>8, <2>1, FATAssumption, LongerIsGrown
  <2>4. ExtendCluster(fat, ch[root_cluster][1], 1).last = more[root_cluster][Len(ch[root_cluster]) + 1]
    BY ONLY <1>3, <1>8, <2>1, FATAssumption, Extended
  <2>5. Len(more[root_cluster]) = Len(ch[root_cluster]) + 1
    BY ONLY <1>3, <1>8, <2>1, FATAssumption, LongerChain
  <2> QED
    BY <2>1, <2>2, <2>3, <2>4, <2>5 DEF L
<1>10. e \in EntryRecord /\ e.name = n /\ e.first_cluster = 0 /\ e.file_size = 0
  BY DEF EmptyEntry, EntryRecord
<1>11. place = <<last, 1>> /\ place[1] = last /\ last \in Cluster
  BY <1>7 DEF Places
<1> HIDE DEF more, last, table, e
<1>12. L + 1 \in 1..L + 1 /\ \A i \in 1..L : i \in 1..L + 1 /\ i # L + 1 /\ i \in 1..Len(ch[root_cluster])
  BY <1>4 DEF L
<1>13. \A i \in 1..L : ch[root_cluster][i] # last
  <2> TAKE i \in 1..L
  <2>1. more[root_cluster][i] = ch[root_cluster][i]
    BY <1>3, <1>9, <1>12 DEF Grown
  <2>2. more[root_cluster][i] # more[root_cluster][L + 1]
    BY <1>3, <1>9, <1>12, ChainOf
  <2> QED
    BY <1>9, <2>1, <2>2
<1>14. \A q \in FilesOf(dir) : q[1] # last
  BY <1>3, <1>13 DEF DirectorySound, L
<1>15. /\ dir' \in [Cluster -> [1..EntriesPerCluster -> EntryRecord]] /\ At(dir', place) = e
      /\ \A q \in Places \ {place} : At(dir', q) = IF q[1] = last THEN EmptyEntry ELSE At(dir, q)
  <2> DEFINE new == [EmptyDirectory EXCEPT ![1] = e]
  <2>1. /\ new \in [1..EntriesPerCluster -> EntryRecord] /\ new[1] = e
        /\ \A i \in 1..EntriesPerCluster : i # 1 => new[i] = EmptyEntry
    BY <1>6, <1>10 DEF EmptyDirectory
  <2>2. dir' = [dir EXCEPT ![last] = new]
    BY <1>7 DEF last, e
  <2> HIDE DEF new
  <2>3. dir' \in [Cluster -> [1..EntriesPerCluster -> EntryRecord]] /\ dir'[last] = new
        /\ \A c \in Cluster : c # last => dir'[c] = dir[c]
    BY <1>3, <1>11, <2>1, <2>2 DEF DirectorySound
  <2>4. At(dir', place) = e
    BY <1>11, <2>1, <2>3 DEF At
  <2>5. ASSUME NEW q \in Places \ {place}
        PROVE  At(dir', q) = IF q[1] = last THEN EmptyEntry ELSE At(dir, q)
    <3>1. q = <<q[1], q[2]>> /\ q[1] \in Cluster /\ q[2] \in 1..EntriesPerCluster
      BY DEF Places
    <3>2. q[1] = last => q[2] # 1
      BY <1>11, <3>1
    <3> QED
      BY <2>1, <2>3, <3>1, <3>2 DEF At
  <2> QED
    BY <2>3, <2>4, <2>5
<1>16. EmptyEntry.name = NoName /\ EmptyEntry.first_cluster = 0
  BY DEF EmptyEntry
<1>17. place \notin FilesOf(dir) /\ FilesOf(dir') = FilesOf(dir) \cup {place}
       /\ \A q \in FilesOf(dir) : At(dir', q) = At(dir, q)
  <2>1. place \notin FilesOf(dir)
    BY <1>11, <1>14
  <2>2. \A q \in FilesOf(dir) : q \in Places \ {place} /\ At(dir', q) = At(dir, q)
    BY <1>14, <1>15, <2>1 DEF FilesOf
  <2>3. \A q \in Places \ {place} : q \in FilesOf(dir') => q \in FilesOf(dir)
    BY <1>6, <1>15, <1>16 DEF FilesOf
  <2>4. place \in FilesOf(dir')
    BY <1>10, <1>15 DEF FilesOf
  <2>5. \A q \in FilesOf(dir) : q \in FilesOf(dir')
    BY <2>2 DEF FilesOf
  <2>6. FilesOf(dir') \subseteq Places
    BY DEF FilesOf
  <2> QED
    BY <2>1, <2>2, <2>3, <2>4, <2>5, <2>6
<1>18. \A q \in Places : At(dir', q).name = NoName => At(dir', q).first_cluster = 0
  BY <1>3, <1>10, <1>15, <1>16 DEF DirectorySound
<1>19. \E i \in 1..Len(more[root_cluster]) : more[root_cluster][i] = place[1]
  BY <1>9, <1>11, <1>12
<1>20. VolumeSound(table, dir', [fds EXCEPT ![d] = NewDescriptor(place, mode)], more)
  <2>1. Chained(table, Roots(dir), more) /\ Grown(Roots(dir), ch, more)
    BY <1>9 DEF S
  <2> QED
    BY ONLY <1>1, <1>10, <1>15, <1>17, <1>18, <1>19, <2>1, d \in FD, place \in Places, FileAdded
<1>21. fat' = table
  BY <1>7 DEF table
<1> QED
  <2>1. /\ VolumeSound(fat', dir', fds', more) /\ Grown(Roots(dir), ch, more)
        /\ Chained(fat', Roots(dir), more)
    BY <1>2, <1>9, <1>20, <1>21 DEF S
  <2>2. /\ Len(more[root_cluster]) = Len(ch[root_cluster]) + 1
        /\ place = <<more[root_cluster][Len(ch[root_cluster]) + 1], 1>>
    BY <1>9, <1>11 DEF L
  <2>3. /\ At(dir', place).name = n /\ At(dir', place).file_size = 0
        /\ \A q \in Places \ {place} :
             At(dir', q) = IF q[1] = place[1] THEN EmptyEntry ELSE At(dir, q)
    BY <1>10, <1>11, <1>15
  <2> QED
    BY ONLY <2>1, <2>2, <2>3

LEMMA OpenKeeps ==
  ASSUME FATInv, NEW d \in FD, NEW n \in Name, NEW mode \in Mode, Open(d, n, mode)
  PROVE  FATInv'
<1>1. PICK ch : VolumeSound(fat, dir, fds, ch)
  BY DEF FATInv
<1>2. PICK place \in Places :
        /\ \/ place \in FindFile(n) /\ fat' = fat /\ dir' = dir
           \/ CreateFile(n, place)
        /\ fds' = [fds EXCEPT ![d] = NewDescriptor(place, mode)]
  BY DEF Open, Places
<1>3. DOMAIN fds = FD
  BY <1>1 DEF VolumeSound
\* A file there is.
<1>4. CASE place \in FindFile(n) /\ fat' = fat /\ dir' = dir
  <2>1. place \in FilesOf(dir)
    BY <1>2, <1>4 DEF FindFile, FilesOf, Entry, At
  <2>2. DescriptorSound(NewDescriptor(place, mode), dir, ch)
    BY <2>1 DEF DescriptorSound, NewDescriptor
  <2>3. /\ DOMAIN fds' = FD /\ fds'[d] = NewDescriptor(place, mode)
        /\ \A y \in FD \ {d} : fds'[y] = fds[y]
    BY <1>2, <1>3
  <2>4. VolumeSound(fat, dir, fds', ch)
    BY <1>1, <2>2, <2>3, OneDescriptor
  <2> QED
    BY <1>4, <2>4 DEF FATInv
\* An unused entry is taken.
<1>5. CASE /\ place \in FirstOf({NoName}) /\ fat' = fat
           /\ dir' = [dir EXCEPT ![place[1]][place[2]] = NewEntry(n, place)]
  <2>1. VolumeSound(fat', dir', fds', ch)
    <3>1. TakesEntry(d, n, mode, place)
      BY <1>2, <1>5 DEF TakesEntry
    <3> QED
      BY ONLY <1>1, <3>1, d \in FD, n \in Name, place \in Places, EntryTaken
  <2> QED
    BY <2>1 DEF FATInv
\* The directory is made longer.
<1>6. CASE /\ FreeClusters(fat) # {} /\ place = <<ExtendCluster(fat, root_cluster, 1).last, 1>>
           /\ fat' = ExtendCluster(fat, root_cluster, 1).fat
           /\ dir' = [dir EXCEPT ![ExtendCluster(fat, root_cluster, 1).last] =
                        [EmptyDirectory EXCEPT ![1] = [EmptyEntry EXCEPT !.name = n]]]
  <2>1. \E more : VolumeSound(fat', dir', fds', more)
    <3>1. AddsCluster(d, n, mode, place)
      BY <1>2, <1>6 DEF AddsCluster
    <3> QED
      BY ONLY <1>1, <3>1, d \in FD, n \in Name, place \in Places, ClusterAdded
  <2> QED
    BY <2>1 DEF FATInv
<1> QED
  BY <1>2, <1>4, <1>5, <1>6 DEF CreateFile

\* A write begins and ends in the chain of its file, which may be new and may
\* have grown.
LEMMA WriteStaysInFile ==
  ASSUME NEW ch, VolumeSound(fat, dir, fds, ch), NEW d \in FD, fds[d] # NotOpen,
         NEW len \in Nat, NEW buf, Len(buf) = len, Write(d, buf)
  PROVE  LET fd == fds[d]
             e == At(dir, fd.entry)
             begin == Beginning(fd, e, len)
             first == IF fd.wr_cluster = 0 THEN begin.cluster ELSE e.first_cluster
         IN  /\ first \in Cluster
             /\ IF e.first_cluster = 0 THEN first \notin Roots(dir) ELSE first = e.first_cluster
             /\ \E more, j : /\ Grown(Roots(dir), ch, more)
                             /\ WritingAt(WriteLoop(begin, buf), Roots(dir) \cup {first}, first,
                                          fd.wr_off, len, more, j)
<1> DEFINE fd == fds[d]
           e == At(dir, fd.entry)
           begin == Beginning(fd, e, len)
           first == IF fd.wr_cluster = 0 THEN begin.cluster ELSE e.first_cluster
           end == WriteLoop(begin, buf)
           S == Roots(dir)
           T == Roots(dir) \cup {first}
           n == num_cluster(len)
           fresh == fd.wr_cluster = 0 /\ e.first_cluster = 0
           B == bytes_per_cluster
<1>1. /\ Chained(fat, S, ch) /\ DirectorySound(dir, ch) /\ DescriptorSound(fd, dir, ch)
      /\ fd.entry \in FilesOf(dir) /\ fd.wr_off \in Nat /\ B \in Nat \ {0}
  BY FATAssumption DEF VolumeSound, DescriptorSound
<1>2. /\ begin.total = 0 /\ begin.off = fd.wr_cluster_off
      /\ fresh => /\ begin.fat = AllocateClusterChain(fat, n).fat
                  /\ begin.cluster = AllocateClusterChain(fat, n).first
      /\ ~fresh => begin.fat = fat
      /\ ~fresh /\ fd.wr_cluster = 0 => begin.cluster = e.first_cluster
      /\ fd.wr_cluster # 0 => begin.cluster = fd.wr_cluster
  BY DEF Beginning
<1>3. /\ FreeClusters(fat) # {} /\ FreeCount(fat) >= Room(fd, e, n)
  BY DEF Write, Entry, At, FreeCount
<1>4. 1 <= FreeCount(fat) /\ FreeCount(fat) \in Nat
  <2>1. FreeCount(fat) # 0
    BY <1>3, FreeAreFinite, FS_EmptySet DEF FreeCount
  <2> QED
    BY <2>1, FreeAreFinite
<1>5. n \in Nat /\ len <= n * B /\ Triangle(n) \in Nat
  BY NumCluster, Triangles
<1> HIDE DEF begin, S, fd, e, n
\* A first cluster is found for it, and enough behind it.
<1>6. CASE fresh
  <2>1. first = AllocateClusterChain(fat, n).first /\ first = begin.cluster
    BY <1>2, <1>6
  <2>2. n <= FreeCount(fat)
    BY <1>3, <1>4, <1>5, <1>6 DEF Room
  <2> HIDE DEF first
  <2>3. /\ first \in Cluster \ S
        /\ \E more : /\ Chained(begin.fat, S \cup {first}, more) /\ n <= Len(more[first])
                     /\ \A c \in S : more[c] = ch[c]
    <3>1. /\ AllocateClusterChain(fat, n).first \in Cluster \ S
          /\ \E more : /\ Chained(AllocateClusterChain(fat, n).fat,
                                 S \cup {AllocateClusterChain(fat, n).first}, more)
                       /\ n <= Len(more[AllocateClusterChain(fat, n).first])
                       /\ \A c \in S : more[c] = ch[c]
      <4>1. Chained(fat, S, ch) /\ n \in Nat
        BY <1>1, <1>5
      <4> QED
        BY ONLY <1>4, <2>2, <4>1, AllocatesChain, Zenon
    <3>2. begin.fat = AllocateClusterChain(fat, n).fat
      BY <1>2, <1>6
    <3> QED
      BY <2>1, <3>1, <3>2, Zenon
  <2>4. PICK more : /\ Chained(begin.fat, S \cup {first}, more) /\ n <= Len(more[first])
                    /\ \A c \in S : more[c] = ch[c]
    BY <2>3
  <2> DEFINE L == Len(more[first])
  <2>5. /\ L \in Nat \ {0} /\ more[first][1] = first
        /\ \A c \in S \cup {first} : Len(more[c]) \in Nat
    BY <2>4, ChainOf
  <2>6. fd.wr_off = 0 /\ begin.off = 0
    BY <1>1, <1>2, <1>6 DEF DescriptorSound, WritesAt, e
  <2>7. len <= (L - 1) * B + (B - 0)
    <3>1. n * B <= L * B /\ L * B = (L - 1) * B + (B - 0) /\ L * B \in Nat /\ n * B \in Nat
      <4>1. L \in Nat \ {0} /\ n <= L
        BY <2>4, <2>5
      <4> HIDE DEF L
      <4> QED
        BY <1>1, <1>5, <4>1
    <3> HIDE DEF L
    <3> QED
      BY <1>5, <3>1
  <2>8. WritingAt(begin, S \cup {first}, first, fd.wr_off, len, more, 1)
    <3>1. 1 \in 1..Len(more[first]) /\ begin.cluster = more[first][1]
      BY <2>1, <2>5
    <3>2. /\ begin.off \in 0..B /\ begin.total \in Nat
          /\ fd.wr_off + begin.total <= (1 - 1) * B + begin.off
      BY <1>1, <1>2, <2>6
    <3>3. len - begin.total <= (Len(more[first]) - 1) * B + (B - begin.off)
      BY <1>2, <2>6, <2>7
    <3> QED
      BY <2>4, <3>1, <3>2, <3>3 DEF WritingAt
  <2>9. Writing(begin, S \cup {first}, first, fd.wr_off, len, more)
    <3>1. Grown(S \cup {first}, more, more)
      BY <2>5 DEF Grown
    <3> QED
      BY <2>8, <3>1 DEF Writing
  <2>10. Writing(end, S \cup {first}, first, fd.wr_off, len, more)
    <3>1. first \in S \cup {first}
      OBVIOUS
    <3> QED
      BY <1>1, <2>5, <2>9, <3>1, WriteLoopKeeps
  <2>11. PICK yet, j : /\ Grown(S \cup {first}, more, yet)
                       /\ WritingAt(end, S \cup {first}, first, fd.wr_off, len, yet, j)
    BY <2>10 DEF Writing
  <2>12. Grown(S, ch, yet)
    BY <2>4, <2>11 DEF Grown
  <2> QED
    BY <1>6, <2>3, <2>11, <2>12 DEF S, first, begin, fd, e
\* It goes on in its chain.
<1>7. CASE ~fresh
  <2>1. /\ first = e.first_cluster /\ first # 0 /\ first \in S
        /\ \E j \in 1..Len(ch[first]) :
             /\ begin.cluster = ch[first][j] /\ fd.wr_cluster_off \in 0..B
             /\ fd.wr_off <= (j - 1) * B + fd.wr_cluster_off
    <3>1. e.first_cluster # 0
      BY <1>1, <1>7 DEF DescriptorSound, WritesAt, e
    <3>2. first = e.first_cluster /\ e.first_cluster \in S
      BY <1>1, <1>2, <1>7, <3>1 DEF Roots, S, e
    <3>3. CASE fd.wr_cluster # 0
      <4>1. WritesAt(fd, e.first_cluster, ch)
        BY <1>1, <3>3 DEF DescriptorSound, e
      <4>2. \E j \in 1..Len(ch[e.first_cluster]) :
               /\ fd.wr_cluster = ch[e.first_cluster][j] /\ fd.wr_cluster_off \in 0..B
               /\ fd.wr_off <= (j - 1) * B + fd.wr_cluster_off
        BY <4>1 DEF WritesAt
      <4>3. begin.cluster = fd.wr_cluster
        BY <1>2, <3>3
      <4> HIDE DEF first
      <4> QED
        BY <3>1, <3>2, <4>2, <4>3
    <3>4. CASE fd.wr_cluster = 0
      <4>1. ~WritesAt(fd, e.first_cluster, ch)
        <5>1. \A j \in 1..Len(ch[e.first_cluster]) : ch[e.first_cluster][j] \in Cluster
          BY <1>1, <3>2, ChainOf
        <5> QED
          BY <3>4, <5>1, EndIsNoCluster DEF WritesAt
      <4>2. fd.wr_off = 0 /\ fd.wr_cluster_off = 0
        BY <1>1, <4>1 DEF DescriptorSound, e
      <4>3. begin.cluster = ch[e.first_cluster][1] /\ 1 \in 1..Len(ch[e.first_cluster])
        <5>1. begin.cluster = e.first_cluster
          BY <1>2, <1>7, <3>4
        <5>2. ch[e.first_cluster][1] = e.first_cluster /\ Len(ch[e.first_cluster]) \in Nat \ {0}
          BY <1>1, <3>2, ChainOf
        <5> QED
          BY <5>1, <5>2
      <4>4. fd.wr_cluster_off \in 0..B /\ fd.wr_off <= (1 - 1) * B + fd.wr_cluster_off
        BY <1>1, <4>2
      <4> HIDE DEF first
      <4> QED
        BY <3>1, <3>2, <4>3, <4>4
    <3> QED
      BY <3>3, <3>4
  <2> HIDE DEF first
  <2>2. PICK j \in 1..Len(ch[first]) :
             /\ begin.cluster = ch[first][j] /\ fd.wr_cluster_off \in 0..B
             /\ fd.wr_off <= (j - 1) * B + fd.wr_cluster_off
    BY <2>1
  <2>3. first \in Cluster /\ \A c \in S : Len(ch[c]) \in Nat
    <3>1. S \subseteq Cluster
      BY <1>1 DEF Chained
    <3> QED
      BY <1>1, <2>1, <3>1, ChainOf
  <2>4. Triangle(num_cluster(len)) <= FreeCount(fat)
    BY <1>3, <1>4, <1>5, <1>7 DEF Room, Triangle, n
  <2>5. WritingAt(begin, S, first, fd.wr_off, len, ch, j)
    <3>1. Chained(begin.fat, S, ch) /\ begin.fat = fat /\ begin.off \in 0..bytes_per_cluster
          /\ begin.total \in Nat /\ begin.total = 0
      BY <1>1, <1>2, <1>7, <2>2
    <3>2. fd.wr_off + begin.total <= (j - 1) * bytes_per_cluster + begin.off
      BY <1>1, <1>2, <2>2
    <3>3. begin.total < len => Triangle(num_cluster(len - begin.total)) <= FreeCount(begin.fat)
      BY <2>4, <3>1
    <3> QED
      BY ONLY <2>2, <3>1, <3>2, <3>3, WritingWithRoom
  <2>6. Writing(begin, S, first, fd.wr_off, len, ch)
    <3>1. Grown(S, ch, ch)
      BY <2>3 DEF Grown
    <3> QED
      BY <2>5, <3>1 DEF Writing
  <2>7. Writing(end, S, first, fd.wr_off, len, ch)
    BY <1>1, <2>1, <2>3, <2>6, WriteLoopKeeps
  <2>8. S \cup {first} = S
    BY <2>1
  <2>9. \E more, k : Grown(S, ch, more)
          /\ WritingAt(end, S \cup {first}, first, fd.wr_off, len, more, k)
    BY <2>7, <2>8 DEF Writing
  <2> QED
    BY <2>1, <2>3, <2>9 DEF S, first, begin, fd, e
<1> QED
  BY <1>6, <1>7

\* What a write by d begins with, where the chain of its file begins, and how
\* it ends.
WriteBegin(d, buf) == Beginning(fds[d], At(dir, fds[d].entry), Len(buf))
WriteFirst(d, buf) == IF fds[d].wr_cluster = 0 THEN WriteBegin(d, buf).cluster
                      ELSE At(dir, fds[d].entry).first_cluster
WriteEnd(d, buf) == WriteLoop(WriteBegin(d, buf), buf)

\* A write that ends in cluster j of the chain of its file, in what chains have
\* grown to, leaves a sound volume, in which only its entry and descriptor change.
LEMMA WriteChanges ==
  ASSUME NEW ch, VolumeSound(fat, dir, fds, ch), NEW d \in FD, fds[d] # NotOpen, NEW buf, Write(d, buf),
         WriteFirst(d, buf) \in Cluster,
         IF At(dir, fds[d].entry).first_cluster = 0 THEN WriteFirst(d, buf) \notin Roots(dir)
         ELSE WriteFirst(d, buf) = At(dir, fds[d].entry).first_cluster,
         NEW more, NEW j, Grown(Roots(dir), ch, more),
         Chained(WriteEnd(d, buf).fat, Roots(dir) \cup {WriteFirst(d, buf)}, more),
         j \in 1..Len(more[WriteFirst(d, buf)]),
         WriteEnd(d, buf).cluster = more[WriteFirst(d, buf)][j],
         WriteEnd(d, buf).off \in 0..bytes_per_cluster, WriteEnd(d, buf).total \in Nat,
         fds[d].wr_off + WriteEnd(d, buf).total <= (j - 1) * bytes_per_cluster + WriteEnd(d, buf).off
  PROVE  /\ fat' = WriteEnd(d, buf).fat /\ VolumeSound(WriteEnd(d, buf).fat, dir', fds', more)
         /\ At(dir', fds[d].entry).name = At(dir, fds[d].entry).name
         /\ At(dir', fds[d].entry).first_cluster = WriteFirst(d, buf)
         /\ At(dir', fds[d].entry).file_size = fds[d].wr_off + WriteEnd(d, buf).total
         /\ \A q \in Places \ {fds[d].entry} : At(dir', q) = At(dir, q)
<1> DEFINE first == WriteFirst(d, buf)
           end == WriteEnd(d, buf)
<1> DEFINE fd == fds[d]
           p == fd.entry
           e == At(dir, p)
           begin == WriteBegin(d, buf)
           B == bytes_per_cluster
           size == fd.wr_off + end.total
           one == Put(dir, p, Sized(e, size))
<1>1. VolumeSound(fat, dir, fds, ch)
  OBVIOUS
<1>2. first = IF fd.wr_cluster = 0 THEN begin.cluster ELSE e.first_cluster
  BY DEF WriteFirst
<1>3. /\ fat' = end.fat
      /\ dir' = Put(one, p, Begun(At(one, p), IF fd.wr_cluster = 0 THEN begin.cluster
                                              ELSE At(one, p).first_cluster))
      /\ fds' = [fds EXCEPT ![d].wr_off = @ + end.total, ![d].wr_cluster = end.cluster,
                            ![d].wr_cluster_off = end.off]
  <2> DEFINE done == WriteLoop(Beginning(fd, e, Len(buf)), buf)
             sized == Put(dir, p, Sized(e, fd.wr_off + done.total))
  <2>1. /\ fat' = done.fat
        /\ fds' = [fds EXCEPT ![d].wr_off = @ + done.total, ![d].wr_cluster = done.cluster,
                              ![d].wr_cluster_off = done.off]
    BY DEF Write, Entry, At
  <2>2. dir' = Put(sized, p, Begun(At(sized, p),
                                   IF fd.wr_cluster = 0 THEN Beginning(fd, e, Len(buf)).cluster
                                   ELSE At(sized, p).first_cluster))
    <3> DEFINE begun == Beginning(fd, e, Len(buf))
    <3>1. dir' = [dir EXCEPT ![p[1]][p[2]].file_size = fd.wr_off + done.total,
                             ![p[1]][p[2]].first_cluster =
                               IF fd.wr_cluster = 0 THEN begun.cluster ELSE @]
      BY DEF Write, Entry, At
    <3> HIDE DEF done, fd, p, begun
    <3>2. dir' = Put(Put(dir, p, Sized(At(dir, p), fd.wr_off + done.total)), p,
                     Begun(At(Put(dir, p, Sized(At(dir, p), fd.wr_off + done.total)), p),
                           IF fd.wr_cluster = 0 THEN begun.cluster
                           ELSE At(Put(dir, p, Sized(At(dir, p), fd.wr_off + done.total)), p).first_cluster))
      BY ONLY <3>1 DEF Put, Sized, Begun, At
    <3> QED
      BY <3>2 DEF begun
  <2>3. done = end /\ sized = one /\ Beginning(fd, e, Len(buf)) = begin
    BY DEF WriteEnd, WriteBegin
  <2> QED
    BY <2>1, <2>2, <2>3
<1>4. /\ first \in Cluster
      /\ IF e.first_cluster = 0 THEN first \notin Roots(dir) ELSE first = e.first_cluster
  OBVIOUS
<1>5. /\ DirectorySound(dir, ch) /\ DescriptorSound(fd, dir, ch) /\ DOMAIN fds = FD
      /\ p \in FilesOf(dir) /\ p \in Places /\ fd.wr_off \in Nat /\ B \in Nat \ {0}
  BY <1>1, FATAssumption DEF VolumeSound, DescriptorSound, FilesOf
<1> DEFINE L == Len(more[first])
<1>7. /\ Chained(end.fat, Roots(dir) \cup {first}, more) /\ j \in 1..L /\ end.cluster = more[first][j]
      /\ end.off \in 0..B /\ end.total \in Nat /\ size <= (j - 1) * B + end.off
  OBVIOUS
<1> HIDE DEF begin, first, end
<1>8. L \in Nat
  <2>1. first \in Roots(dir) \cup {first}
    OBVIOUS
  <2> QED
    BY <1>7, <2>1, ChainOf
<1>9. size \in Nat /\ size <= B * L
  <2> HIDE DEF L
  <2>1. j \in Nat /\ j >= 1 /\ j <= L
    BY <1>7, <1>8
  <2>2. size \in Nat /\ end.off \in Nat /\ end.off <= B
    BY <1>5, <1>7
  <2> HIDE DEF size, B
  <2>3. (j - 1) * B + B = B * j /\ B * j <= B * L /\ B * j \in Nat /\ B * L \in Nat /\ (j - 1) * B \in Nat
    <3>1. B \in Nat /\ L \in Nat
      BY <1>5, <1>8
    <3> QED
      BY ONLY <2>1, <3>1
  <2> QED
    BY <1>5, <1>7, <2>2, <2>3
<1>10. /\ dir' \in [Cluster -> [1..EntriesPerCluster -> EntryRecord]]
       /\ At(dir', p).name = e.name /\ At(dir', p).first_cluster = first /\ At(dir', p).file_size = size
       /\ \A q \in Places \ {p} : At(dir', q) = At(dir, q)
  <2>1. dir \in [Cluster -> [1..EntriesPerCluster -> EntryRecord]] /\ e \in EntryRecord
    BY <1>5, EntryTyped DEF DirectorySound
  <2> HIDE DEF p, size
  <2>2. /\ Sized(e, size) \in EntryRecord /\ Sized(e, size).name = e.name
        /\ Sized(e, size).file_size = size /\ Sized(e, size).first_cluster = e.first_cluster
    BY <1>9, <2>1, EntryChanged
  <2> HIDE DEF e
  <2>3. /\ one \in [Cluster -> [1..EntriesPerCluster -> EntryRecord]] /\ At(one, p) = Sized(e, size)
        /\ \A q \in Places \ {p} : At(one, q) = At(dir, q)
    BY <1>5, <2>1, <2>2, EntryPut DEF e
  <2> HIDE DEF one
  <2> DEFINE new == Begun(At(one, p), first)
  <2>4. dir' = Put(one, p, new)
    <3>1. first = IF fd.wr_cluster = 0 THEN begin.cluster ELSE At(one, p).first_cluster
      BY <1>2, <2>2, <2>3
    <3> QED
      BY <1>3, <3>1
  <2>5. new \in EntryRecord /\ new.name = e.name /\ new.file_size = size /\ new.first_cluster = first
    <3>1. first \in Cluster /\ At(one, p) \in EntryRecord
      BY <1>4, <2>2, <2>3
    <3>2. /\ new \in EntryRecord /\ new.name = At(one, p).name
          /\ new.file_size = At(one, p).file_size /\ new.first_cluster = first
      BY ONLY <3>1, EntryChanged
    <3> HIDE DEF new
    <3> QED
      BY <2>2, <2>3, <3>2
  <2> HIDE DEF new
  <2>6. /\ Put(one, p, new) \in [Cluster -> [1..EntriesPerCluster -> EntryRecord]]
        /\ At(Put(one, p, new), p) = new /\ \A q \in Places \ {p} : At(Put(one, p, new), q) = At(one, q)
    BY <1>5, <2>3, <2>5, EntryPut
  <2> QED
    BY <2>3, <2>4, <2>5, <2>6
<1>11. /\ DOMAIN fds' = FD /\ \A y \in FD \ {d} : fds'[y] = fds[y]
       /\ DOMAIN fds'[d] = DOMAIN fd /\ fds'[d].entry = p /\ fds'[d].wr_off = size
       /\ fds'[d].wr_cluster = end.cluster /\ fds'[d].wr_cluster_off = end.off
  <2>1. {"entry", "wr_off", "wr_cluster", "wr_cluster_off"} \subseteq DOMAIN fd
    BY <1>5 DEF DescriptorSound
  <2> QED
    BY <1>3, <1>5, <2>1
<1>12. DescriptorSound(fds'[d], dir', more)
  <2>1. p \in FilesOf(dir')
    BY <1>5, <1>10 DEF FilesOf
  <2>2. WritesAt(fds'[d], first, more)
    BY <1>4, <1>7, <1>11, EndIsNoCluster DEF WritesAt
  <2> QED
    BY <1>5, <1>9, <1>10, <1>11, <2>1, <2>2 DEF DescriptorSound
<1>13. VolumeSound(end.fat, dir', fds', more)
  <2>1. IF At(dir, p).first_cluster = 0 THEN first \notin Roots(dir) ELSE first = At(dir, p).first_cluster
    BY <1>4
  <2> HIDE DEF p, size
  <2> QED
    <3>1. p \in FilesOf(dir) /\ first \in Cluster
      BY <1>4, <1>5
    <3>2. Chained(end.fat, Roots(dir) \cup {first}, more) /\ Grown(Roots(dir), ch, more)
      BY <1>7
    <3>3. At(dir', p).name = At(dir, p).name
      BY <1>10
    <3>4. At(dir', p).file_size <= bytes_per_cluster * Len(more[first])
      BY <1>9, <1>10
    <3> HIDE DEF L, e
    <3>5. VolumeSound(end.fat, dir', fds, more)
      BY ONLY <1>1, <1>10, <2>1, <3>1, <3>2, <3>3, <3>4, FileWritten
    <3>6. DOMAIN fds' = FD /\ \A y \in FD \ {d} : fds'[y] = fds[y]
      BY <1>11
    <3> QED
      BY ONLY <1>12, <3>5, <3>6, d \in FD, OneDescriptor
<1> QED
  BY <1>3, <1>10, <1>13 DEF first, end

LEMMA WriteKeeps ==
  ASSUME FATInv, NEW d \in FD, fds[d] # NotOpen, NEW len \in Nat, NEW buf \in [1..len -> Byte],
         Write(d, buf)
  PROVE  FATInv'
<1>1. PICK ch : VolumeSound(fat, dir, fds, ch)
  BY DEF FATInv
<1>2. Len(buf) = len
  OBVIOUS
<1> DEFINE first == WriteFirst(d, buf)
           end == WriteEnd(d, buf)
           e == At(dir, fds[d].entry)
<1>3. /\ first \in Cluster
      /\ IF e.first_cluster = 0 THEN first \notin Roots(dir) ELSE first = e.first_cluster
      /\ \E more, j : /\ Grown(Roots(dir), ch, more)
                      /\ WritingAt(end, Roots(dir) \cup {first}, first, fds[d].wr_off, len, more, j)
  BY <1>1, <1>2, WriteStaysInFile DEF WriteFirst, WriteBegin, WriteEnd
<1> HIDE DEF first, end
<1>4. PICK more, j : /\ Grown(Roots(dir), ch, more)
                     /\ WritingAt(end, Roots(dir) \cup {first}, first, fds[d].wr_off, len, more, j)
  BY <1>3
<1>5. fat' = end.fat /\ VolumeSound(end.fat, dir', fds', more)
  <2>1. /\ Chained(end.fat, Roots(dir) \cup {first}, more)
        /\ j \in 1..Len(more[first]) /\ end.cluster = more[first][j]
        /\ end.off \in 0..bytes_per_cluster /\ end.total \in Nat
        /\ fds[d].wr_off + end.total <= (j - 1) * bytes_per_cluster + end.off
    BY <1>4 DEF WritingAt
  <2>2. Write(d, buf) /\ fds[d] # NotOpen
    OBVIOUS
  <2> QED
    BY ONLY <1>1, <1>3, <1>4, <2>1, <2>2, d \in FD, WriteChanges DEF first, end
<1> QED
  BY <1>5 DEF FATInv

-----------------------------------------------------------------------------
LEMMA FATStep ==
  ASSUME FATInv, [FATNext]_fatVars
  PROVE  FATInv'
<1>1. CASE UNCHANGED fatVars
  BY <1>1 DEF FATInv, fatVars
<1>2. CASE FATNext
  <2>1. PICK d \in FD : \/ \E n \in Name, mode \in Mode : Open(d, n, mode)
                        \/ fds[d] # NotOpen /\ Use(d)
    BY <1>2 DEF FATNext
  <2>2. CASE \E n \in Name, mode \in Mode : Open(d, n, mode)
    BY <2>2, OpenKeeps
  <2>3. CASE fds[d] # NotOpen /\ Close(d)
    BY <2>3, CloseKeeps
  <2>4. CASE fds[d] # NotOpen /\ \E len \in 0..MaxLen : \E buf \in [1..len -> Byte] : Write(d, buf)
    <3>1. PICK len \in 0..MaxLen : \E buf \in [1..len -> Byte] : Write(d, buf)
      BY <2>4
    <3>2. len \in Nat
      OBVIOUS
    <3> QED
      BY <2>4, <3>1, <3>2, WriteKeeps
  <2>5. CASE fds[d] # NotOpen /\ \E len \in 1..MaxLen : Read(d, len)
    BY <2>5, ReadKeeps
  <2>6. CASE fds[d] # NotOpen /\ \E offset \in 0..MaxSize : Load(d, MaxLen, offset)
    BY <2>6 DEF Load, FATInv
  <2> QED
    BY <2>1, <2>2, <2>3, <2>4, <2>5, <2>6 DEF Use
<1> QED
  BY <1>1, <1>2

\* No call of Open, Read, Write or Close, whatever it extends, breaks a chain or
\* joins two, loses a cluster, or leaves a file larger than its chain.
THEOREM ChainsSoundCorrect == FATSpec => []ChainsSound
<1>1. FATInit => FATInv
  BY InitIsSound
<1>2. FATInv /\ [FATNext]_fatVars => FATInv'
  BY FATStep
<1>3. FATInv => ChainsSound
  BY VolumeIsSound
<1> QED
  BY <1>1, <1>2, <1>3, PTL DEF FATSpec

-----------------------------------------------------------------------------
\* Quotient and remainder.
LEMMA Digits ==
  ASSUME NEW k \in Nat \ {0}, NEW m \in Nat
  PROVE  m \div k \in Nat /\ m % k \in 0..k - 1 /\ m = (m \div k) * k + (m % k)
<1>1. k \in Nat /\ k > 0
  OBVIOUS
<1>2. m \div k \in Nat /\ m % k \in 0..k - 1 /\ m = k * (m \div k) + (m % k)
  <2>1. m \div k \in Nat
    BY <1>1
  <2>2. m % k \in 0..k - 1
    BY <1>1
  <2>3. m = k * (m \div k) + (m % k)
    BY <1>1
  <2> QED
    BY <2>1, <2>2, <2>3
<1> DEFINE q == m \div k
           r == m % k
<1> HIDE DEF q, r
<1>3. q \in Nat /\ r \in 0..k - 1 /\ m = q * k + r
  BY <1>1, <1>2 DEF q, r
<1> QED
  BY <1>3 DEF q, r

\* A quotient and a remainder are determined.
LEMMA SameDigits ==
  ASSUME NEW k \in Nat \ {0}, NEW a \in Nat, NEW b \in Nat, NEW q \in 0..k - 1, NEW r \in 0..k - 1,
         a * k + q = b * k + r
  PROVE  a = b /\ q = r
<1>1. ASSUME NEW x \in Nat, NEW y \in Nat, x < y PROVE x * k + k <= y * k
  <2>1. (x + 1) * k <= y * k
    BY <1>1
  <2> QED
    BY <2>1
<1>2. ~(a < b)
  <2> SUFFICES ASSUME a < b PROVE FALSE
    OBVIOUS
  <2>1. a * k + k <= b * k /\ a * k \in Nat /\ b * k \in Nat
    BY <1>1
  <2> QED
    BY <2>1
<1>3. ~(b < a)
  <2> SUFFICES ASSUME b < a PROVE FALSE
    OBVIOUS
  <2>1. b * k + k <= a * k /\ a * k \in Nat /\ b * k \in Nat
    BY <1>1
  <2> QED
    BY <2>1
<1> QED
  BY <1>2, <1>3

\* What is written as a quotient and a remainder has them.
LEMMA DigitsOf ==
  ASSUME NEW k \in Nat \ {0}, NEW a \in Nat, NEW q \in 0..k - 1
  PROVE  (a * k + q) \div k = a /\ (a * k + q) % k = q
<1> DEFINE m == a * k + q
<1>1. m \in Nat /\ m = a * k + q
  OBVIOUS
<1> HIDE DEF m
<1>2. m \div k \in Nat /\ m % k \in 0..k - 1 /\ m = (m \div k) * k + (m % k)
  BY <1>1, Digits
<1>3. a = m \div k /\ q = m % k
  BY <1>1, <1>2, SameDigits
<1> QED
  BY <1>3 DEF m

\* Less in full lengths of k.
LEMMA DigitsBelow ==
  ASSUME NEW k \in Nat \ {0}, NEW a \in Nat, NEW q \in Nat, NEW L \in Nat, a * k + q < L * k
  PROVE  a < L
<1> SUFFICES ASSUME L <= a PROVE FALSE
  OBVIOUS
<1>1. L * k <= a * k /\ a * k \in Nat /\ L * k \in Nat
  OBVIOUS
<1> QED
  BY <1>1

-----------------------------------------------------------------------------
(* What the volume shows                                                   *)

\* Content and Contents, FindFile and what it looks at, of any table, data
\* and directory.
ByteIn(dat, c, i) == IF c \in Cluster THEN dat[c][(i % bytes_per_cluster) + 1] ELSE Garbage
ContentIn(f, dat, e) ==
  [i \in 1..e.file_size |->
     ByteIn(dat, Nth(f, e.first_cluster, (i - 1) \div bytes_per_cluster), i - 1)]

SpotIn(f, k) == <<Nth(f, root_cluster, (k - 1) \div EntriesPerCluster), ((k - 1) % EntriesPerCluster) + 1>>
SpotsIn(f) == 1..EntriesPerCluster * (1 + After(f, root_cluster))
FirstIn(f, d, names) ==
  {SpotIn(f, k) : k \in {k \in SpotsIn(f) : /\ At(d, SpotIn(f, k)).name \in names
                                            /\ \A i \in 1..k - 1 : At(d, SpotIn(f, i)).name \notin names}}
FindIn(f, d, n) == {p \in FirstIn(f, d, {n, NoName}) : At(d, p).name = n}
ContentsIn(f, dat, d) ==
  [n \in Name |-> IF FindIn(f, d, n) = {} THEN NoFile
                  ELSE CHOOSE s \in {ContentIn(f, dat, At(d, p)) : p \in FindIn(f, d, n)} : TRUE]

\* They are those of the variables.
LEMMA ContentsOfVolume ==
  /\ Contents = ContentsIn(fat, data, dir) /\ Contents' = ContentsIn(fat', data', dir')
  /\ \A n : FindFile(n) = FindIn(fat, dir, n)
  /\ \A names : FirstOf(names) = FirstIn(fat, dir, names)
  /\ \A e : Content(e) = ContentIn(fat, data, e)
<1>1. Contents = ContentsIn(fat, data, dir)
  BY DEF Contents, ContentsIn, FindFile, FindIn, FirstOf, FirstIn, Place, PlaceNumber, SpotIn, SpotsIn,
         Entry, At, Content, ContentIn, ByteAt, ByteIn
<1>2. Contents' = ContentsIn(fat', data', dir')
  BY DEF Contents, ContentsIn, FindFile, FindIn, FirstOf, FirstIn, Place, PlaceNumber, SpotIn, SpotsIn,
         Entry, At, Content, ContentIn, ByteAt, ByteIn
<1>3. \A n : FindFile(n) = FindIn(fat, dir, n)
  BY DEF FindFile, FindIn, FirstOf, FirstIn, Place, PlaceNumber, SpotIn, SpotsIn, Entry, At
<1>4. \A names : FirstOf(names) = FirstIn(fat, dir, names)
  BY DEF FirstOf, FirstIn, Place, PlaceNumber, SpotIn, SpotsIn, Entry, At
<1>5. \A e : Content(e) = ContentIn(fat, data, e)
  BY DEF Content, ContentIn, ByteAt, ByteIn
<1> QED
  BY <1>1, <1>2, <1>3, <1>4, <1>5

\* A byte of a file is in a cluster of its chain.
ByteOfFile(f, S, ch, e, q, o) ==
  /\ Chained(f, S, ch) /\ e.file_size \in Nat /\ e.first_cluster \in S \cup {0}
  /\ e.file_size <= Holds(e, ch)
  /\ q \in Nat /\ o \in 0..bytes_per_cluster - 1 /\ q * bytes_per_cluster + o < e.file_size
ReadsByte(f, S, ch, dat, e, q, o) ==
  /\ e.first_cluster \in S /\ q + 1 \in 1..Len(ch[e.first_cluster])
  /\ ContentIn(f, dat, e)[q * bytes_per_cluster + o + 1] = dat[ch[e.first_cluster][q + 1]][o + 1]

LEMMA ContentAt ==
  ASSUME NEW f, NEW S, NEW ch, NEW dat, NEW e, NEW q, NEW o, ByteOfFile(f, S, ch, e, q, o)
  PROVE  ReadsByte(f, S, ch, dat, e, q, o)
<1> USE DEF ReadsByte
<1>0. /\ Chained(f, S, ch) /\ e.file_size \in Nat /\ e.first_cluster \in S \cup {0}
      /\ e.file_size <= Holds(e, ch)
      /\ q \in Nat /\ o \in 0..bytes_per_cluster - 1 /\ q * bytes_per_cluster + o < e.file_size
  BY DEF ByteOfFile
<1> USE <1>0
<1> DEFINE B == bytes_per_cluster
           m == q * B + o
           c == e.first_cluster
           L == Len(ch[c])
<1>1. B \in Nat \ {0} /\ m \in Nat /\ m < e.file_size
  <2>1. B \in Nat \ {0}
    BY FATAssumption
  <2> HIDE DEF B
  <2>2. q * B \in Nat
    BY <2>1
  <2> QED
    BY <2>1, <2>2 DEF B
<1>2. m \div B = q /\ m % B = o
  <2>1. o \in 0..B - 1
    OBVIOUS
  <2> HIDE DEF B
  <2> QED
    BY <1>1, <2>1, DigitsOf
<1>3. c \in S
  BY <1>1 DEF Holds
<1>4. /\ L \in Nat \ {0} /\ ch[c][1] = c /\ 1 \in 1..Len(ch[c])
      /\ \A i \in 1..L : ch[c][i] \in Cluster
  BY <1>3, ChainOf
<1>5. q < L
  <2>1. m < B * L
    <3>1. e.file_size <= B * L
      BY <1>3, EndIsNoCluster DEF Holds, Chained
    <3> HIDE DEF m, L, B
    <3>2. B * L \in Nat
      BY <1>1, <1>4
    <3> QED
      BY <1>1, <3>1, <3>2
  <2>2. q * B + o < L * B /\ o \in Nat
    <3>1. B * L = L * B
      <4> HIDE DEF L, B
      <4> QED
        BY <1>1, <1>4
    <3> QED
      BY <2>1, <3>1, <1>1
  <2> HIDE DEF B, L
  <2> QED
    BY <1>1, <1>4, <2>2, DigitsBelow
<1> HIDE DEF L
<1>6. q + 1 \in 1..L
  BY <1>4, <1>5
<1>7. Nth(f, c, q) = ch[c][q + 1]
  <2>1. Nth(f, ch[c][1], q) = IF q + 1 <= Len(ch[c]) THEN ch[c][q + 1] ELSE kEndOfClusterchain
    <3>1. Chained(f, S, ch) /\ q \in Nat
      BY <1>0
    <3> HIDE DEF c, L, m
    <3>2. Nth(f, ch[c][1], q) = IF q + 1 <= Len(ch[c]) THEN ch[c][q + 1] ELSE kEndOfClusterchain
      BY ONLY <3>1, <1>3, <1>4, NthOfChain
    <3> QED
      BY <3>2
  <2> QED
    BY <1>4, <1>6, <2>1 DEF L
<1>8. ContentIn(f, dat, e)[m + 1] = ByteIn(dat, Nth(f, c, m \div B), m)
  <2> HIDE DEF m, c
  <2>1. PICK i \in 1..e.file_size : i = m + 1
    BY <1>1
  <2> DEFINE x == i - 1
  <2>2. ContentIn(f, dat, e)[i] = ByteIn(dat, Nth(f, c, x \div B), x)
    BY DEF ContentIn, c
  <2>3. x = m
    BY <1>1, <2>1
  <2> HIDE DEF x
  <2> QED
    BY <2>1, <2>2, <2>3
<1>9. ch[c][q + 1] \in Cluster
  BY <1>4, <1>6
<1>10. ByteIn(dat, Nth(f, c, m \div B), m) = dat[ch[c][q + 1]][o + 1]
  <2> HIDE DEF m, c
  <2> QED
    BY <1>2, <1>7, <1>9 DEF ByteIn
<1> QED
  BY <1>3, <1>6, <1>8, <1>10 DEF L

\* A file contains as many bytes as its size says.
LEMMA ContentIsSequence ==
  ASSUME NEW f, NEW dat, NEW e, e.file_size \in Nat
  PROVE  /\ DOMAIN ContentIn(f, dat, e) = 1..e.file_size
         /\ Len(ContentIn(f, dat, e)) = e.file_size
  BY DEF ContentIn

-----------------------------------------------------------------------------
(* Finding entries                                                         *)

\* Place k of a directory whose chain is r.
Spot(r, k) == <<r[((k - 1) \div EntriesPerCluster) + 1], ((k - 1) % EntriesPerCluster) + 1>>
Spots(r) == 1..EntriesPerCluster * Len(r)

\* Chains without repetition.
Distinct(r) ==
  /\ Len(r) \in Nat /\ \A i \in 1..Len(r) : r[i] \in Cluster
  /\ \A i, j \in 1..Len(r) : r[i] = r[j] => i = j

\* The places of a chain, counted, are the entries of its clusters, one after another.
LEMMA SpotsOfChain ==
  ASSUME NEW r, Distinct(r)
  PROVE  /\ \A k \in Spots(r) : \E i \in 1..Len(r), x \in 1..EntriesPerCluster :
              k = (i - 1) * EntriesPerCluster + x /\ Spot(r, k) = <<r[i], x>>
         /\ \A i \in 1..Len(r), x \in 1..EntriesPerCluster :
              /\ (i - 1) * EntriesPerCluster + x \in Spots(r)
              /\ Spot(r, (i - 1) * EntriesPerCluster + x) = <<r[i], x>>
         /\ \A k \in Spots(r) : Spot(r, k) \in Places
         /\ \A k, l \in Spots(r) : Spot(r, k) = Spot(r, l) => k = l
<1> DEFINE E == EntriesPerCluster
           L == Len(r)
<1>1. E \in Nat \ {0} /\ L \in Nat
  BY FATAssumption DEF Distinct
<1>2. ASSUME NEW i \in 1..L, NEW x \in 1..E
      PROVE  /\ (i - 1) * E + x \in 1..E * L
             /\ Spot(r, (i - 1) * E + x) = <<r[i], x>>
  <2> DEFINE a == i - 1
             o == x - 1
             k == a * E + x
  <2>1. a \in Nat /\ a + 1 = i /\ o \in 0..E - 1 /\ o + 1 = x /\ a + 1 <= L
    BY <1>1
  <2>2. a * E \in Nat /\ (a + 1) * E = a * E + E /\ (a + 1) * E <= L * E /\ L * E = E * L /\ E * L \in Nat
    <3> HIDE DEF E, L, a
    <3>1. a * E \in Nat /\ (a + 1) * E = a * E + E
      BY <1>1, <2>1
    <3>2. (a + 1) * E <= L * E
      BY <1>1, <2>1
    <3>3. L * E = E * L /\ E * L \in Nat
      BY <1>1
    <3> QED
      BY <3>1, <3>2, <3>3
  <2>3. k \in 1..E * L /\ k - 1 = a * E + o
    <3>1. x \in 1..E
      OBVIOUS
    <3> HIDE DEF E, L, a
    <3> QED
      BY <1>1, <2>1, <2>2, <3>1
  <2>4. (a * E + o) \div E = a /\ (a * E + o) % E = o
    <3> HIDE DEF E, a, o
    <3> QED
      BY <1>1, <2>1, DigitsOf
  <2> DEFINE m == k - 1
  <2>5. m \div E = a /\ m % E = o
    <3> HIDE DEF E, a, o, m
    <3>1. m = a * E + o
      BY <2>3 DEF m
    <3> QED
      BY <2>4, <3>1
  <2>6. Spot(r, k) = <<r[(m \div E) + 1], (m % E) + 1>>
    BY DEF Spot
  <2> HIDE DEF m
  <2>7. Spot(r, k) = <<r[i], x>>
    <3> HIDE DEF k, a, o, E
    <3> QED
      BY <2>1, <2>5, <2>6
  <2> QED
    BY <2>3, <2>7
<1>3. ASSUME NEW k \in 1..E * L
      PROVE  \E i \in 1..L, x \in 1..E : k = (i - 1) * E + x
  <2> DEFINE m == k - 1
             a == m \div E
             o == m % E
  <2>1. m \in Nat /\ m < E * L /\ m + 1 = k
    <3> HIDE DEF E, L
    <3>1. E * L \in Nat
      BY <1>1
    <3> QED
      BY <3>1
  <2> HIDE DEF m
  <2>2. a \in Nat /\ o \in 0..E - 1 /\ m = a * E + o
    <3> HIDE DEF E
    <3> QED
      BY <1>1, <2>1, Digits
  <2> HIDE DEF a, o
  <2>3. a < L
    <3>1. a * E + o < L * E /\ o \in Nat
      <4> HIDE DEF E, L
      <4>1. E * L = L * E
        BY <1>1
      <4> QED
        BY <2>1, <2>2, <4>1
    <3> HIDE DEF E, L
    <3> QED
      BY <1>1, <2>2, <3>1, DigitsBelow
  <2>4. a + 1 \in 1..L /\ o + 1 \in 1..E
    <3> HIDE DEF E, L
    <3> QED
      BY <1>1, <2>2, <2>3
  <2> HIDE DEF E, L
  <2>5. PICK i \in 1..L, x \in 1..E : i = a + 1 /\ x = o + 1
    BY <2>4
  <2>6. i - 1 = a /\ a * E \in Nat /\ o \in Nat /\ k \in Nat
    BY <1>1, <2>1, <2>2, <2>5
  <2>7. k = a * E + x
    BY <2>1, <2>2, <2>5, <2>6
  <2> QED
    BY <2>6, <2>7
<1> HIDE DEF E, L
<1>4. ASSUME NEW k \in 1..E * L
      PROVE  \E i \in 1..L, x \in 1..E : k = (i - 1) * E + x /\ Spot(r, k) = <<r[i], x>>
  BY <1>2, <1>3
<1>5. ASSUME NEW k \in 1..E * L PROVE Spot(r, k) \in Places
  BY <1>4 DEF Places, Distinct, E, L
<1>6. ASSUME NEW k \in 1..E * L, NEW l \in 1..E * L, Spot(r, k) = Spot(r, l) PROVE k = l
  <2>1. PICK i \in 1..L, x \in 1..E : k = (i - 1) * E + x /\ Spot(r, k) = <<r[i], x>>
    BY <1>4
  <2>2. PICK j \in 1..L, y \in 1..E : l = (j - 1) * E + y /\ Spot(r, l) = <<r[j], y>>
    BY <1>4
  <2>3. r[i] = r[j] /\ x = y
    BY <1>6, <2>1, <2>2
  <2>4. i = j
    BY <2>3 DEF Distinct, L
  <2> QED
    BY <2>1, <2>2, <2>3, <2>4
<1> QED
  BY <1>2, <1>4, <1>5, <1>6 DEF Spots, E, L

\* No entry after an unused one is used, and no two files have one name.
Ordered(d, r) ==
  \A k, l \in Spots(r) : k < l /\ At(d, Spot(r, l)).name \in Name => At(d, Spot(r, k)).name \in Name
Unique(d) == \A p, q \in FilesOf(d) : At(d, p).name = At(d, q).name => p = q

\* No cluster is twice in a chain.
LEMMA ChainIsDistinct ==
  ASSUME NEW f, NEW S, NEW ch, Chained(f, S, ch), NEW c \in S
  PROVE  Distinct(ch[c])
  BY ChainOf DEF Distinct

\* They are the places at which FindFile and AllocateEntry look.
LEMMA SpotsOfVolume ==
  ASSUME NEW f, NEW S, NEW ch, Chained(f, S, ch), root_cluster \in S
  PROVE  /\ SpotsIn(f) = Spots(ch[root_cluster])
         /\ \A k \in Spots(ch[root_cluster]) : SpotIn(f, k) = Spot(ch[root_cluster], k)
<1> DEFINE r == ch[root_cluster]
           L == Len(r)
           E == EntriesPerCluster
<1>1. L \in Nat \ {0} /\ r[1] = root_cluster /\ 1 \in 1..L /\ E \in Nat \ {0}
  BY ChainOf, FATAssumption
<1>2. After(f, root_cluster) = L - 1
  <2>1. After(f, ch[root_cluster][1]) = Len(ch[root_cluster]) - 1
    BY ONLY <1>1, Chained(f, S, ch), root_cluster \in S, AfterOfChain
  <2> QED
    BY <1>1, <2>1
<1>3. SpotsIn(f) = Spots(r)
  <2>1. 1 + After(f, root_cluster) = L
    BY <1>1, <1>2
  <2> QED
    BY <2>1 DEF SpotsIn, Spots
<1>4. ASSUME NEW k \in Spots(r) PROVE SpotIn(f, k) = Spot(r, k)
  <2> DEFINE a == (k - 1) \div E
  <2>1. a \in Nat /\ a < L
    <3>1. PICK i \in 1..L, x \in 1..E : k = (i - 1) * E + x
      BY ChainIsDistinct, SpotsOfChain
    <3> DEFINE m == k - 1
    <3>2. i - 1 \in Nat /\ x - 1 \in 0..E - 1 /\ m = (i - 1) * E + (x - 1)
      <4> HIDE DEF E, L
      <4>1. i - 1 \in Nat /\ x \in Int /\ x - 1 \in 0..E - 1 /\ (i - 1) * E \in Int
        BY <1>1
      <4> QED
        BY <3>1, <4>1
    <3>3. m \div E = i - 1
      <4> DEFINE b == i - 1
                 o == x - 1
      <4>1. b \in Nat /\ o \in 0..E - 1 /\ m = b * E + o
        BY <3>2
      <4> HIDE DEF b, o, m, E
      <4>2. m \div E = b
        BY <1>1, <4>1, DigitsOf
      <4> QED
        BY <4>2 DEF b
    <3>4. a = i - 1
      BY <3>3
    <3> HIDE DEF a, L
    <3> QED
      BY <1>1, <3>4
  <2>2. Nth(f, root_cluster, a) = r[a + 1]
    <3> HIDE DEF a
    <3>1. Nth(f, ch[root_cluster][1], a) =
            IF a + 1 <= Len(ch[root_cluster]) THEN ch[root_cluster][a + 1] ELSE kEndOfClusterchain
      BY ONLY <1>1, <2>1, Chained(f, S, ch), root_cluster \in S, NthOfChain
    <3>2. a + 1 <= L
      BY <1>1, <2>1
    <3> QED
      BY <1>1, <3>1, <3>2
  <2> QED
    BY <2>2 DEF SpotIn, Spot
<1> QED
  BY <1>3, <1>4

\* Every file has its entry at one of them.
LEMMA FileHasSpot ==
  ASSUME NEW d, NEW ch, DirectorySound(d, ch), Distinct(ch[root_cluster]), NEW p \in FilesOf(d)
  PROVE  \E k \in Spots(ch[root_cluster]) : Spot(ch[root_cluster], k) = p
<1> DEFINE r == ch[root_cluster]
<1>1. PICK i \in 1..Len(r) : r[i] = p[1]
  BY DEF DirectorySound
<1>2. p = <<p[1], p[2]>> /\ p[2] \in 1..EntriesPerCluster
  BY DEF FilesOf, Places
<1>3. /\ (i - 1) * EntriesPerCluster + p[2] \in Spots(r)
      /\ Spot(r, (i - 1) * EntriesPerCluster + p[2]) = <<r[i], p[2]>>
  BY <1>2, SpotsOfChain
<1> QED
  BY <1>1, <1>2, <1>3

\* An entry has a name or the mark of none.
LEMMA NamesOfSpots ==
  ASSUME NEW d \in [Cluster -> [1..EntriesPerCluster -> EntryRecord]], NEW p \in Places
  PROVE  /\ At(d, p).name \in Name \cup {NoName} /\ NoName \notin Name
         /\ p \in FilesOf(d) <=> At(d, p).name \in Name
<1>1. At(d, p) \in EntryRecord
  BY EntryTyped
<1> QED
  BY <1>1, FATAssumption DEF EntryRecord, FilesOf

\* FindFile finds the one entry that has the name.
LEMMA FileFound ==
  ASSUME NEW f, NEW S, NEW ch, Chained(f, S, ch), root_cluster \in S,
         NEW d, DirectorySound(d, ch), Ordered(d, ch[root_cluster]), Unique(d), NEW n \in Name
  PROVE  /\ \A p \in FilesOf(d) : At(d, p).name = n => FindIn(f, d, n) = {p}
         /\ (\A p \in FilesOf(d) : At(d, p).name # n) => FindIn(f, d, n) = {}
<1> DEFINE r == ch[root_cluster]
<1>1. /\ SpotsIn(f) = Spots(r) /\ \A k \in Spots(r) : SpotIn(f, k) = Spot(r, k)
  BY SpotsOfVolume
<1>2. Distinct(r) /\ d \in [Cluster -> [1..EntriesPerCluster -> EntryRecord]]
  BY ChainIsDistinct DEF DirectorySound
<1>3. /\ \A k \in Spots(r) : Spot(r, k) \in Places
      /\ \A k, l \in Spots(r) : Spot(r, k) = Spot(r, l) => k = l
  BY <1>2, SpotsOfChain
<1>4. \A p \in FindIn(f, d, n) : p \in FilesOf(d) /\ At(d, p).name = n
  <2> TAKE p \in FindIn(f, d, n)
  <2>1. At(d, p).name = n /\ \E k \in SpotsIn(f) : p = SpotIn(f, k)
    BY DEF FindIn, FirstIn
  <2>2. p \in Places
    BY <1>1, <1>3, <2>1
  <2> QED
    BY <2>1, <2>2 DEF FilesOf
<1>5. ASSUME NEW p \in FilesOf(d), At(d, p).name = n PROVE p \in FindIn(f, d, n)
  <2>1. PICK k \in Spots(r) : Spot(r, k) = p
    BY <1>2, FileHasSpot
  <2>2. k \in Nat /\ \A i \in 1..k - 1 : i \in Spots(r) /\ i < k /\ i # k
    <3>1. EntriesPerCluster * Len(r) \in Nat
      BY <1>2, FATAssumption DEF Distinct
    <3> QED
      BY <3>1 DEF Spots
  <2>3. ASSUME NEW i \in 1..k - 1 PROVE At(d, SpotIn(f, i)).name \notin {n, NoName}
    <3>1. i \in Spots(r) /\ SpotIn(f, i) = Spot(r, i) /\ Spot(r, i) \in Places
      BY <1>1, <1>3, <2>2
    <3>2. At(d, Spot(r, i)).name \in Name
      BY <1>5, <2>1, <2>2, <3>1 DEF Ordered
    <3>3. Spot(r, i) \in FilesOf(d) /\ Spot(r, i) # p
      BY <1>3, <2>1, <2>2, <3>1, <3>2 DEF FilesOf
    <3>4. At(d, Spot(r, i)).name # n
      BY <1>5, <3>3 DEF Unique
    <3> QED
      BY <3>1, <3>2, <3>4, FATAssumption
  <2>4. k \in SpotsIn(f) /\ SpotIn(f, k) = p /\ At(d, SpotIn(f, k)).name \in {n, NoName}
    BY <1>1, <1>5, <2>1
  <2>5. p \in FirstIn(f, d, {n, NoName})
    BY <2>3, <2>4 DEF FirstIn
  <2> QED
    BY <1>5, <2>5 DEF FindIn
<1>6. ASSUME NEW p \in FilesOf(d), At(d, p).name = n PROVE FindIn(f, d, n) = {p}
  <2>1. \A q \in FindIn(f, d, n) : q = p
    BY <1>4, <1>6 DEF Unique
  <2> QED
    BY <1>5, <1>6, <2>1
<1> QED
  BY <1>4, <1>6

\* The first unused entry comes after used ones only; without one all are used.
LEMMA FirstUnused ==
  ASSUME NEW f, NEW S, NEW ch, Chained(f, S, ch), root_cluster \in S,
         NEW d \in [Cluster -> [1..EntriesPerCluster -> EntryRecord]]
  PROVE  /\ \A p \in FirstIn(f, d, {NoName}) : \E k \in Spots(ch[root_cluster]) :
              /\ p = Spot(ch[root_cluster], k)
              /\ \A i \in 1..k - 1 : At(d, Spot(ch[root_cluster], i)).name \in Name
         /\ FirstIn(f, d, {NoName}) = {} =>
              \A k \in Spots(ch[root_cluster]) : At(d, Spot(ch[root_cluster], k)).name \in Name
<1> DEFINE r == ch[root_cluster]
<1>1. /\ SpotsIn(f) = Spots(r) /\ \A k \in Spots(r) : SpotIn(f, k) = Spot(r, k)
  BY SpotsOfVolume
<1>2. Distinct(r)
  BY ChainIsDistinct
<1>3. \A k \in Spots(r) : At(d, Spot(r, k)).name \in Name \cup {NoName}
  BY <1>2, SpotsOfChain, NamesOfSpots
<1>4. Spots(r) \in SUBSET Nat /\ \A k \in Spots(r) : \A i \in 1..k - 1 : i \in Spots(r) /\ ~(k <= i)
  <2>1. EntriesPerCluster * Len(r) \in Nat
    BY <1>2, FATAssumption DEF Distinct
  <2> QED
    BY <2>1 DEF Spots
<1>5. ASSUME NEW p \in FirstIn(f, d, {NoName})
      PROVE  \E k \in Spots(r) : p = Spot(r, k) /\ \A i \in 1..k - 1 : At(d, Spot(r, i)).name \in Name
  <2>1. PICK k \in SpotsIn(f) : /\ p = SpotIn(f, k)
                                /\ \A i \in 1..k - 1 : At(d, SpotIn(f, i)).name \notin {NoName}
    BY DEF FirstIn
  <2> QED
    BY <1>1, <1>3, <1>4, <2>1
<1>6. ASSUME FirstIn(f, d, {NoName}) = {}, NEW k \in Spots(r), At(d, Spot(r, k)).name \notin Name
      PROVE  FALSE
  <2> DEFINE U == {i \in Spots(r) : At(d, Spot(r, i)).name \notin Name}
  <2>1. U \in SUBSET Nat /\ U # {}
    BY <1>4, <1>6
  <2>2. PICK l \in U : \A i \in U : l <= i
    <3> HIDE DEF U
    <3> QED
      BY <2>1, LeastOf
  <2>3. l \in Spots(r) /\ At(d, Spot(r, l)).name = NoName
    BY <1>3
  <2>4. \A i \in 1..l - 1 : At(d, Spot(r, i)).name # NoName
    <3>1. \A i \in 1..l - 1 : i \in Spots(r) /\ i \notin U
      BY <1>4, <2>2, <2>3
    <3> QED
      BY <3>1, FATAssumption
  <2>5. SpotIn(f, l) \in FirstIn(f, d, {NoName})
    BY <1>1, <1>4, <2>3, <2>4 DEF FirstIn
  <2> QED
    BY <1>6, <2>5
<1> QED
  BY <1>5, <1>6

-----------------------------------------------------------------------------
(* Contents                                                                *)

Text == Byte \cup {Garbage}
DataTyped(dat) == dat \in [Cluster -> [1..bytes_per_cluster -> Text]]

\* What a file contains are bytes, or what was on the volume before.
LEMMA ContentIsText ==
  ASSUME NEW f, NEW dat, DataTyped(dat), NEW e, e.file_size \in Nat
  PROVE  ContentIn(f, dat, e) \in Seq(Text) /\ Len(ContentIn(f, dat, e)) = e.file_size
<1>1. ASSUME NEW i \in 1..e.file_size PROVE ContentIn(f, dat, e)[i] \in Text
  <2> DEFINE c == Nth(f, e.first_cluster, (i - 1) \div bytes_per_cluster)
             m == i - 1
             y == m % bytes_per_cluster
  <2>1. m \in Nat /\ bytes_per_cluster \in Nat \ {0}
    BY FATAssumption
  <2> HIDE DEF m
  <2>2. y \in 0..bytes_per_cluster - 1
    BY <2>1, Digits
  <2>3. y + 1 \in 1..bytes_per_cluster
    <3> HIDE DEF y
    <3> QED
      BY <2>1, <2>2
  <2>4. ContentIn(f, dat, e)[i] = ByteIn(dat, c, m)
    BY DEF ContentIn, m
  <2>5. ByteIn(dat, c, m) = IF c \in Cluster THEN dat[c][y + 1] ELSE Garbage
    BY DEF ByteIn
  <2> HIDE DEF c, y
  <2> QED
    BY <2>3, <2>4, <2>5 DEF DataTyped, Text
<1>2. ContentIn(f, dat, e) \in [1..e.file_size -> Text]
  BY <1>1 DEF ContentIn
<1> QED
  BY <1>2

\* The same bytes, place by place, are the same content.
LEMMA ContentEqual ==
  ASSUME NEW f, NEW dat, NEW e, e.file_size \in Nat, NEW text, text \in Seq(Text), Len(text) = e.file_size,
         \A q \in Nat, o \in 0..bytes_per_cluster - 1 : q * bytes_per_cluster + o < e.file_size =>
            ContentIn(f, dat, e)[q * bytes_per_cluster + o + 1] = text[q * bytes_per_cluster + o + 1]
  PROVE  ContentIn(f, dat, e) = text
<1> DEFINE B == bytes_per_cluster
<1>1. B \in Nat \ {0}
  BY FATAssumption
<1>2. ASSUME NEW i \in 1..e.file_size PROVE ContentIn(f, dat, e)[i] = text[i]
  <2> DEFINE m == i - 1
             q == m \div B
             o == m % B
  <2>1. m \in Nat /\ m + 1 = i /\ m < e.file_size
    OBVIOUS
  <2> HIDE DEF m
  <2>2. q \in Nat /\ o \in 0..B - 1 /\ m = q * B + o
    BY <1>1, <2>1, Digits
  <2> HIDE DEF q, o
  <2>3. q * B + o < e.file_size =>
          ContentIn(f, dat, e)[q * B + o + 1] = text[q * B + o + 1]
    BY <2>2
  <2>4. q * B + o + 1 = i
    <3> HIDE DEF B
    <3> QED
      BY <1>1, <2>1, <2>2
  <2>5. ContentIn(f, dat, e)[q * B + o + 1] = text[q * B + o + 1]
    <3> HIDE DEF B
    <3> QED
      BY <2>1, <2>2, <2>3
  <2> QED
    BY <2>4, <2>5
<1>3. DOMAIN text = 1..e.file_size /\ text \in [1..e.file_size -> Text]
  OBVIOUS
<1>4. ContentIn(f, dat, e) = [i \in 1..e.file_size |-> ContentIn(f, dat, e)[i]]
  BY DEF ContentIn
<1>5. text = [i \in 1..e.file_size |-> text[i]]
  BY <1>3
<1> QED
  BY <1>2, <1>4, <1>5

\* A file keeps its content while its chain only grows, and in its clusters
\* nothing is written.
LEMMA ContentKept ==
  ASSUME NEW f, NEW S, NEW ch, Chained(f, S, ch), NEW dat, DataTyped(dat),
         NEW table, NEW R, NEW more, Chained(table, R, more), S \subseteq R, Grown(S, ch, more),
         NEW after, NEW e, e.file_size \in Nat, e.first_cluster \in S \cup {0}, e.file_size <= Holds(e, ch),
         e.first_cluster \in S => \A i \in 1..Len(ch[e.first_cluster]) :
           after[ch[e.first_cluster][i]] = dat[ch[e.first_cluster][i]]
  PROVE  ContentIn(table, after, e) = ContentIn(f, dat, e)
<1>1. ContentIn(f, dat, e) \in Seq(Text) /\ Len(ContentIn(f, dat, e)) = e.file_size
  BY ContentIsText
<1>2. e.first_cluster \in R \cup {0} /\ e.file_size <= Holds(e, more)
  <2>1. \A c \in S : Len(ch[c]) \in Nat /\ Len(more[c]) \in Nat
    BY ChainOf
  <2> QED
    BY <2>1, HoldsNoLess
<1>3. ASSUME NEW q \in Nat, NEW o \in 0..bytes_per_cluster - 1, q * bytes_per_cluster + o < e.file_size
      PROVE  ContentIn(table, after, e)[q * bytes_per_cluster + o + 1]
               = ContentIn(f, dat, e)[q * bytes_per_cluster + o + 1]
  <2> DEFINE c == e.first_cluster
             m == q * bytes_per_cluster + o + 1
  <2>1. /\ c \in S /\ q + 1 \in 1..Len(ch[c])
        /\ ContentIn(f, dat, e)[m] = dat[ch[c][q + 1]][o + 1]
    <3>1. ByteOfFile(f, S, ch, e, q, o)
      BY <1>3 DEF ByteOfFile
    <3>2. ReadsByte(f, S, ch, dat, e, q, o)
      BY ONLY <3>1, ContentAt
    <3> QED
      BY <3>2 DEF ReadsByte
  <2>2. ContentIn(table, after, e)[m] = after[more[c][q + 1]][o + 1]
    <3>1. ByteOfFile(table, R, more, e, q, o)
      BY <1>2, <1>3 DEF ByteOfFile
    <3>2. ReadsByte(table, R, more, after, e, q, o)
      BY ONLY <3>1, ContentAt
    <3> QED
      BY <3>2 DEF ReadsByte
  <2>3. more[c][q + 1] = ch[c][q + 1] /\ after[ch[c][q + 1]] = dat[ch[c][q + 1]]
    BY <2>1 DEF Grown
  <2> QED
    BY <2>1, <2>2, <2>3
<1> QED
  BY ONLY <1>1, <1>3, e.file_size \in Nat, ContentEqual

\* What the volume shows of each name.
LEMMA ContentsAre ==
  ASSUME NEW f, NEW S, NEW ch, Chained(f, S, ch), root_cluster \in S, NEW dat,
         NEW d, DirectorySound(d, ch), Ordered(d, ch[root_cluster]), Unique(d)
  PROVE  /\ \A p \in FilesOf(d) : At(d, p).name \in Name
                                  /\ ContentsIn(f, dat, d)[At(d, p).name] = ContentIn(f, dat, At(d, p))
         /\ \A n \in Name : (\A p \in FilesOf(d) : At(d, p).name # n) => ContentsIn(f, dat, d)[n] = NoFile
<1>1. ASSUME NEW p \in FilesOf(d)
      PROVE  At(d, p).name \in Name /\ ContentsIn(f, dat, d)[At(d, p).name] = ContentIn(f, dat, At(d, p))
  <2> DEFINE n == At(d, p).name
  <2>1. n \in Name
    BY DEF FilesOf
  <2>2. FindIn(f, d, n) = {p}
    BY <2>1, FileFound
  <2>3. ContentsIn(f, dat, d)[n] = CHOOSE s \in {ContentIn(f, dat, At(d, x)) : x \in FindIn(f, d, n)} : TRUE
    BY <2>1, <2>2 DEF ContentsIn
  <2>4. {ContentIn(f, dat, At(d, x)) : x \in FindIn(f, d, n)} = {ContentIn(f, dat, At(d, p))}
    BY <2>2
  <2> QED
    BY <2>1, <2>3, <2>4
<1>2. ASSUME NEW n \in Name, \A p \in FilesOf(d) : At(d, p).name # n
      PROVE  ContentsIn(f, dat, d)[n] = NoFile
  <2>1. FindIn(f, d, n) = {}
    BY <1>2, FileFound
  <2> QED
    BY <2>1 DEF ContentsIn
<1> QED
  BY <1>1, <1>2

\* The order of the entries does not show that the chain of the directory has grown.
LEMMA OrderedInLonger ==
  ASSUME NEW d \in [Cluster -> [1..EntriesPerCluster -> EntryRecord]],
         NEW r, Distinct(r), NEW more, Distinct(more), Len(r) <= Len(more),
         \A i \in 1..Len(r) : i \in 1..Len(more) /\ more[i] = r[i],
         \A p \in FilesOf(d) : \E i \in 1..Len(r) : r[i] = p[1], Ordered(d, r)
  PROVE  Ordered(d, more)
<1>1. ASSUME NEW k \in Spots(r) PROVE k \in Spots(more) /\ Spot(more, k) = Spot(r, k)
  <2>1. PICK i \in 1..Len(r), x \in 1..EntriesPerCluster :
          k = (i - 1) * EntriesPerCluster + x /\ Spot(r, k) = <<r[i], x>>
    BY SpotsOfChain
  <2>2. i \in 1..Len(more) /\ more[i] = r[i]
    OBVIOUS
  <2> DEFINE m == (i - 1) * EntriesPerCluster + x
  <2>3. m \in Spots(more) /\ Spot(more, m) = <<more[i], x>>
    BY ONLY Distinct(more), <2>2, x \in 1..EntriesPerCluster, SpotsOfChain
  <2>4. m = k
    BY <2>1
  <2> HIDE DEF m
  <2> QED
    BY <2>1, <2>2, <2>3, <2>4
<1>2. ASSUME NEW l \in Spots(more), At(d, Spot(more, l)).name \in Name PROVE l \in Spots(r)
  <2> DEFINE p == Spot(more, l)
  <2>1. p \in FilesOf(d)
    BY <1>2, SpotsOfChain DEF FilesOf
  <2>2. PICK i \in 1..Len(r) : r[i] = p[1]
    BY <2>1
  <2>3. p = <<p[1], p[2]>> /\ p[2] \in 1..EntriesPerCluster
    BY <2>1 DEF FilesOf, Places
  <2> DEFINE k == (i - 1) * EntriesPerCluster + p[2]
  <2>4. k \in Spots(r) /\ Spot(r, k) = p
    <3>1. k \in Spots(r) /\ Spot(r, k) = <<r[i], p[2]>>
      BY ONLY Distinct(r), i \in 1..Len(r), <2>3, SpotsOfChain
    <3> HIDE DEF k, p
    <3> QED
      BY <2>2, <2>3, <3>1
  <2>5. k \in Spots(more) /\ Spot(more, k) = Spot(more, l)
    BY <1>1, <2>4
  <2>6. k = l
    <3> HIDE DEF k, p
    <3> QED
      BY <2>5, SpotsOfChain
  <2> QED
    BY <2>4, <2>6
<1>3. Spots(r) \subseteq Nat /\ \A l \in Spots(r) : \A k \in Spots(more) : k < l => k \in Spots(r)
  <2>1. EntriesPerCluster * Len(r) \in Nat /\ EntriesPerCluster * Len(more) \in Nat
    BY FATAssumption DEF Distinct
  <2> QED
    BY <2>1 DEF Spots
<1> QED
  BY <1>1, <1>2, <1>3 DEF Ordered

-----------------------------------------------------------------------------
(* The loop of Read                                                        *)

\* Cluster c and offset o are where byte m of a file is, or would be, whose
\* chain is s.
PointsAt(m, c, o, s) ==
  /\ o \in 0..bytes_per_cluster - 1
  /\ \E q \in 0..Len(s) : /\ m = q * bytes_per_cluster + o
                          /\ c = IF q < Len(s) THEN s[q + 1] ELSE kEndOfClusterchain

\* What a read of want bytes from start on has read so far.
Reading(s, text, start, want, chain) ==
  /\ s.buf \in Seq(Text) /\ Len(s.buf) <= want
  /\ PointsAt(start + Len(s.buf), s.cluster, s.off, chain)
  /\ \A i \in 1..Len(s.buf) : s.buf[i] = text[start + i]

\* What ReadOn returns.
LEMMA ReadOnReturns ==
  ASSUME NEW s, NEW len, Len(s.buf) # len
  PROVE  LET n == min(len - Len(s.buf), bytes_per_cluster - s.off)
         IN  /\ ReadOn(s, len).buf = s.buf \o [i \in 1..n |-> IF s.cluster \in Cluster
                                                             THEN data[s.cluster][s.off + i] ELSE Garbage]
             /\ ReadOn(s, len).cluster = IF s.off + n = bytes_per_cluster
                                         THEN NextCluster(fat, s.cluster) ELSE s.cluster
             /\ ReadOn(s, len).off = IF s.off + n = bytes_per_cluster THEN 0 ELSE s.off + n
  BY DEF ReadOn

\* From one place on by n bytes, at most to the end of the cluster.
LEMMA PointsOn ==
  ASSUME NEW f, NEW S, NEW ch, Chained(f, S, ch), NEW b \in S,
         NEW m \in Nat, NEW q \in Nat, q < Len(ch[b]), NEW o \in 0..bytes_per_cluster - 1,
         m = q * bytes_per_cluster + o, NEW n \in Nat, o + n <= bytes_per_cluster
  PROVE  PointsAt(m + n, IF o + n = bytes_per_cluster THEN NextCluster(f, ch[b][q + 1]) ELSE ch[b][q + 1],
                  IF o + n = bytes_per_cluster THEN 0 ELSE o + n, ch[b])
<1> DEFINE B == bytes_per_cluster
           L == Len(ch[b])
<1>1. /\ B \in Nat \ {0} /\ L \in Nat \ {0} /\ q + 1 \in 1..L /\ ch[b][q + 1] \in Cluster
      /\ f[ch[b][q + 1]] = IF q + 1 = L THEN kEndOfClusterchain ELSE ch[b][q + 1 + 1]
  <2>1. B \in Nat \ {0} /\ L \in Nat \ {0}
    BY FATAssumption, ChainOf
  <2>2. q + 1 \in 1..L
    <3> HIDE DEF L
    <3> QED
      BY <2>1, q < L DEF L
  <2> QED
    BY <2>1, <2>2, ChainOf
<1>2. q * B \in Nat /\ (q + 1) * B = q * B + B
  <2> HIDE DEF B
  <2> QED
    BY <1>1
<1> HIDE DEF L
<1>3. CASE o + n = B
  <2>1. NextCluster(f, ch[b][q + 1]) = IF q + 1 < L THEN ch[b][q + 1 + 1] ELSE kEndOfClusterchain
    BY <1>1 DEF NextCluster
  <2>2. m + n = (q + 1) * B + 0 /\ 0 \in 0..B - 1 /\ q + 1 \in 0..L
    <3> HIDE DEF B
    <3>1. m = q * B + o /\ o \in Int
      BY DEF B
    <3> QED
      BY <1>1, <1>2, <1>3, <3>1
  <2> QED
    BY <1>3, <2>1, <2>2 DEF PointsAt, L
<1>4. CASE o + n # B
  <2>1. m + n = q * B + (o + n) /\ o + n \in 0..B - 1 /\ q \in 0..L /\ q < L
    <3>1. m = q * B + o /\ o \in Nat /\ o + n <= B /\ q < L
      BY DEF L
    <3>2. q \in 0..L
      BY <1>1, <3>1
    <3>3. o + n \in 0..B - 1
      <4> HIDE DEF B
      <4> QED
        BY <1>1, <1>4, <3>1
    <3>4. m + n = q * B + (o + n)
      <4> HIDE DEF B
      <4> QED
        BY <1>2, <3>1
    <3> QED
      BY <3>1, <3>2, <3>3, <3>4
  <2> QED
    BY <1>4, <2>1 DEF PointsAt, L
<1> QED
  BY <1>3, <1>4

\* A round of Read copies on, and gets further.
LEMMA ReadOnReads ==
  ASSUME NEW S, NEW ch, Chained(fat, S, ch), DataTyped(data),
         NEW e, e.file_size \in Nat, e.first_cluster \in S \cup {0}, e.file_size <= Holds(e, ch),
         NEW start \in Nat, NEW want \in Nat, start + want <= e.file_size,
         NEW s, Reading(s, ContentIn(fat, data, e), start, want, ch[e.first_cluster]), Len(s.buf) # want
  PROVE  /\ Reading(ReadOn(s, want), ContentIn(fat, data, e), start, want, ch[e.first_cluster])
         /\ Len(ReadOn(s, want).buf) > Len(s.buf)
<1> DEFINE B == bytes_per_cluster
           c == e.first_cluster
           text == ContentIn(fat, data, e)
           k == Len(s.buf)
           o == s.off
           n == min(want - k, B - o)
           t == ReadOn(s, want)
           bytes == [i \in 1..n |-> IF s.cluster \in Cluster THEN data[s.cluster][o + i] ELSE Garbage]
<1>1. /\ B \in Nat \ {0} /\ s.buf \in Seq(Text) /\ k \in Nat /\ k < want /\ o \in 0..B - 1
      /\ \A i \in 1..k : s.buf[i] = text[start + i]
  BY FATAssumption DEF Reading, PointsAt
<1>2. PICK q \in 0..Len(ch[c]) : /\ start + k = q * B + o
                                 /\ s.cluster = IF q < Len(ch[c]) THEN ch[c][q + 1] ELSE kEndOfClusterchain
  BY DEF Reading, PointsAt
<1>3. t.buf = s.buf \o bytes
  BY ReadOnReturns
<1>4. t.cluster = (IF o + n = B THEN NextCluster(fat, s.cluster) ELSE s.cluster)
      /\ t.off = IF o + n = B THEN 0 ELSE o + n
  BY ReadOnReturns
<1>5. n \in Nat \ {0} /\ o + n <= B /\ k + n <= want
  <2> HIDE DEF B, k, o
  <2> QED
    BY <1>1 DEF min
<1> HIDE DEF n, t
\* The cluster is one of the file.
<1>6. /\ c \in S /\ q + 1 \in 1..Len(ch[c]) /\ q \in Nat
      /\ \A x \in 0..B - 1 : q * B + x < e.file_size => text[q * B + x + 1] = data[ch[c][q + 1]][x + 1]
  <2>1. q * B + o < e.file_size
    <3>1. start + k < e.file_size
      <4> HIDE DEF k
      <4> QED
        BY <1>1
    <3> QED
      BY <1>2, <3>1
  <2>2. q \in Nat
    <3>1. Len(ch[c]) \in Nat \/ Len(ch[c]) \notin Nat
      OBVIOUS
    <3> QED
      OBVIOUS
  <2>3. c \in S /\ q + 1 \in 1..Len(ch[c])
    <3>1. ByteOfFile(fat, S, ch, e, q, o)
      BY <2>2, <1>1, <2>1 DEF ByteOfFile
    <3>2. ReadsByte(fat, S, ch, data, e, q, o)
      BY ONLY <3>1, ContentAt
    <3> QED
      BY <3>2 DEF ReadsByte
  <2>4. ASSUME NEW x \in 0..B - 1, q * B + x < e.file_size
        PROVE  text[q * B + x + 1] = data[ch[c][q + 1]][x + 1]
    <3>1. ByteOfFile(fat, S, ch, e, q, x)
      BY <2>2, <2>4 DEF ByteOfFile
    <3>2. ReadsByte(fat, S, ch, data, e, q, x)
      BY ONLY <3>1, ContentAt
    <3> QED
      BY <3>2 DEF ReadsByte
  <2> QED
    BY <2>2, <2>3, <2>4
<1>7. Len(ch[c]) \in Nat \ {0} /\ q < Len(ch[c]) /\ ch[c][q + 1] \in Cluster /\ s.cluster = ch[c][q + 1]
  <2>1. Len(ch[c]) \in Nat \ {0}
    BY <1>6, ChainOf
  <2>2. q < Len(ch[c])
    BY <1>6, <2>1
  <2> QED
    BY <1>2, <1>6, <2>1, <2>2, ChainOf
<1>8. \A i \in 1..n : bytes[i] = text[start + k + i] /\ bytes[i] \in Text
  <2> TAKE i \in 1..n
  <2> DEFINE x == o + i - 1
  <2>1. x \in 0..B - 1 /\ x + 1 = o + i /\ o + i \in 1..B
    <3> HIDE DEF B, o
    <3> QED
      BY <1>1, <1>5
  <2>2. q * B + x < e.file_size /\ q * B + x + 1 = start + k + i
    <3> HIDE DEF B, k
    <3>1. q * B \in Nat
      BY <1>1, <1>6
    <3>2. x = o + i - 1 /\ start + k = q * B + o /\ o \in Int
      BY <1>1, <1>2
    <3> HIDE DEF o, x
    <3> QED
      BY <1>1, <1>5, <3>1, <3>2
  <2> HIDE DEF x
  <2>3. text[q * B + x + 1] = data[ch[c][q + 1]][x + 1]
    BY <1>6, <2>1, <2>2
  <2>4. text[start + k + i] = data[ch[c][q + 1]][o + i]
    <3> HIDE DEF k, B, c, text
    <3> QED
      BY <2>1, <2>2, <2>3
  <2>5. bytes[i] = data[ch[c][q + 1]][o + i]
    BY <1>7
  <2>6. data[ch[c][q + 1]][o + i] \in Text
    <3> HIDE DEF o
    <3> QED
      BY <1>7, <2>1 DEF DataTyped
  <2> HIDE DEF bytes, text
  <2> QED
    BY <2>4, <2>5, <2>6
<1>9. bytes \in Seq(Text) /\ Len(bytes) = n
  <2>1. bytes = [i \in 1..n |-> bytes[i]]
    OBVIOUS
  <2> HIDE DEF bytes
  <2>2. bytes \in [1..n -> Text]
    BY <1>8, <2>1
  <2> QED
    BY <1>5, <2>2
<1> HIDE DEF bytes, text
<1>10. /\ t.buf \in Seq(Text) /\ Len(t.buf) = k + n
       /\ \A i \in 1..k + n : t.buf[i] = IF i <= k THEN s.buf[i] ELSE bytes[i - k]
  <2>1. s.buf \in Seq(Text)
    BY <1>1
  <2>2. /\ s.buf \o bytes \in Seq(Text) /\ Len(s.buf \o bytes) = Len(s.buf) + Len(bytes)
        /\ \A i \in 1..Len(s.buf) + Len(bytes) :
             (s.buf \o bytes)[i] = IF i <= Len(s.buf) THEN s.buf[i] ELSE bytes[i - Len(s.buf)]
    BY ONLY <2>1, <1>9, ConcatProperties
  <2> HIDE DEF k
  <2>3. Len(s.buf) = k
    BY DEF k
  <2> QED
    BY ONLY <1>3, <1>9, <2>2, <2>3
<1> HIDE DEF k
<1>11. \A i \in 1..k + n : t.buf[i] = text[start + i]
  <2> TAKE i \in 1..k + n
  <2>1. CASE i <= k
    BY <1>1, <1>10, <2>1
  <2>2. CASE ~(i <= k)
    <3>1. i - k \in 1..n /\ start + k + (i - k) = start + i
      BY <1>1, <1>5, <2>2
    <3>2. bytes[i - k] = text[start + k + (i - k)]
      BY <1>8, <3>1
    <3> QED
      BY <1>10, <2>2, <3>1, <3>2
  <2> QED
    BY <2>1, <2>2
<1>12. PointsAt(start + (k + n), t.cluster, t.off, ch[c])
  <2>1. start + k \in Nat /\ start + (k + n) = start + k + n
    BY <1>1, <1>5
  <2>2. PointsAt(start + k + n, IF o + n = B THEN NextCluster(fat, ch[c][q + 1]) ELSE ch[c][q + 1],
                 IF o + n = B THEN 0 ELSE o + n, ch[c])
    BY ONLY Chained(fat, S, ch), <1>1, <1>2, <1>5, <1>6, <1>7, <2>1, PointsOn
  <2> QED
    BY <1>4, <1>7, <2>1, <2>2
<1>13. Len(t.buf) <= want /\ Len(t.buf) > k
  BY <1>1, <1>5, <1>10
<1>14. PointsAt(start + Len(t.buf), t.cluster, t.off, ch[c]) /\ \A i \in 1..Len(t.buf) : t.buf[i] = text[start + i]
  BY <1>10, <1>11, <1>12
<1>15. Reading(t, text, start, want, ch[c])
  BY <1>10, <1>13, <1>14 DEF Reading
<1>16. Reading(ReadOn(s, want), ContentIn(fat, data, e), start, want, ch[c])
  BY ONLY <1>15 DEF t, text
<1>17. Len(ReadOn(s, want).buf) > Len(s.buf)
  BY ONLY <1>13 DEF t, k
<1> QED
  BY <1>16, <1>17

\* The loop of Read, round after round.
LEMMA ReadFromRuns ==
  ASSUME NEW e, NEW cluster, NEW off, NEW rd_off, NEW len, Rest(e, rd_off, len) \in Nat
  PROVE  \E run :
           /\ run[0] = [buf |-> <<>>, cluster |-> IF cluster = 0 THEN e.first_cluster ELSE cluster,
                        off |-> off]
           /\ \A k \in 1..Rest(e, rd_off, len) : run[k] = ReadOn(run[k - 1], Rest(e, rd_off, len))
           /\ ReadFrom(e, cluster, off, rd_off, len) = run[Rest(e, rd_off, len)]
<1> DEFINE n == Rest(e, rd_off, len)
           begin == [buf |-> <<>>, cluster |-> IF cluster = 0 THEN e.first_cluster ELSE cluster,
                     off |-> off]
           Round(x) == ReadOn(x, n)
           Until(m, g) == g = [k \in 0..m |-> IF k = 0 THEN begin ELSE Round(g[k - 1])]
           Runs == { m \in Nat : \E g : Until(m, g) }
           run == CHOOSE g : Until(n, g)
<1>0. ReadFrom(e, cluster, off, rd_off, len) = run[n]
  BY DEF ReadFrom
<1> HIDE DEF Round, begin, n, run
<1>1. 0 \in Runs
  <2>1. Until(0, [k \in 0..0 |-> begin])
    OBVIOUS
  <2> QED
    BY <2>1
<1>2. ASSUME NEW k \in 1..n, k - 1 \in Runs PROVE k \in Runs
  <2>1. PICK g : Until(k - 1, g)
    BY <1>2
  <2> DEFINE h == [j \in 0..k |-> IF j = k THEN Round(g[k - 1]) ELSE g[j]]
  <2>2. \A j \in 0..k : h[j] = IF j = 0 THEN begin ELSE Round(h[j - 1])
    BY <2>1
  <2>3. Until(k, h)
    BY <2>2
  <2> HIDE DEF Until, h
  <2> QED
    BY <2>3
<1>3. n \in Nat
  BY DEF n
<1>4. Until(n, run)
  <2> HIDE DEF Runs
  <2>2. \A k \in 0..n : k \in Runs
    BY <1>1, <1>2, <1>3, RoundsHold
  <2>3. n \in Runs
    BY <1>3, <2>2
  <2>4. \E g : Until(n, g)
    BY <2>3 DEF Runs
  <2> HIDE DEF Until
  <2> QED
    BY <2>4 DEF run
<1>5. run[0] = begin /\ \A k \in 1..n : run[k] = Round(run[k - 1])
  BY <1>3, <1>4
<1> QED
  BY <1>0, <1>5 DEF Round, begin, n

\* The part of a sequence that a read is to return, byte by byte.
LEMMA PartIs ==
  ASSUME NEW text, text \in Seq(Text), NEW start \in Nat, start <= Len(text), NEW len \in Nat,
         NEW buf, buf \in Seq(Text), Len(buf) = min(len, Len(text) - start),
         \A i \in 1..Len(buf) : buf[i] = text[start + i]
  PROVE  buf = Volume!Part(text, start, len)
<1> DEFINE n == min(len, Len(text) - start)
           last == IF start + len < Len(text) THEN start + len ELSE Len(text)
           first == start + 1
           part == SubSeq(text, first, last)
<1>1. n \in Nat /\ last = start + n /\ last \in 0..Len(text) /\ Len(text) \in Nat
  BY DEF min
<1> HIDE DEF n, last
<1>2. first \in Int /\ last \in Int /\ \A i \in first..last : text[i] \in Text
  BY <1>1
<1> HIDE DEF first
<1>3. /\ part \in Seq(Text) /\ Len(part) = IF first <= last THEN last - first + 1 ELSE 0
      /\ \A i \in 1..last - first + 1 : part[i] = text[first + i - 1]
  BY <1>2, SubSeqProperties
<1> HIDE DEF part
<1>4. first = start + 1
  BY DEF first
<1>5. Len(part) = n /\ last - first + 1 = n
  BY <1>1, <1>3, <1>4
<1>6. \A i \in 1..n : part[i] = text[start + i]
  <2> TAKE i \in 1..n
  <2>1. first + i - 1 = start + i
    BY <1>1, <1>4
  <2>2. part[i] = text[first + i - 1]
    BY <1>3, <1>5
  <2> QED
    BY <2>1, <2>2
<1>7. Len(buf) = n
  BY DEF n
<1>8. buf = part
  <2>1. buf = [i \in 1..n |-> buf[i]]
    BY <1>7
  <2>2. part = [i \in 1..n |-> part[i]]
    BY <1>3, <1>5
  <2>3. \A i \in 1..n : buf[i] = part[i]
    BY <1>6, <1>7
  <2> QED
    BY ONLY <2>1, <2>2, <2>3
<1>9. part = Volume!Part(text, start, len)
  BY DEF part, first, last, Volume!Part
<1> QED
  BY <1>8, <1>9

\* What ReadFrom returns, and where it ends.
LEMMA ReadFromReads ==
  ASSUME NEW S, NEW ch, Chained(fat, S, ch), DataTyped(data),
         NEW e, e.file_size \in Nat, e.first_cluster \in S \cup {0}, e.file_size <= Holds(e, ch),
         NEW start \in Nat, start <= e.file_size, NEW len \in Nat, NEW cluster, NEW off,
         \/ start = e.file_size
         \/ PointsAt(start, IF cluster = 0 THEN e.first_cluster ELSE cluster, off, ch[e.first_cluster])
  PROVE  LET end == ReadFrom(e, cluster, off, start, len)
             from == IF cluster = 0 THEN e.first_cluster ELSE cluster
         IN  /\ end.buf = Volume!Part(ContentIn(fat, data, e), start, len)
             /\ Len(end.buf) \in Nat /\ start + Len(end.buf) <= e.file_size
             /\ PointsAt(start, from, off, ch[e.first_cluster]) =>
                  PointsAt(start + Len(end.buf), end.cluster, end.off, ch[e.first_cluster])
             /\ start = e.file_size => end = [buf |-> <<>>, cluster |-> from, off |-> off]
<1> DEFINE want == Rest(e, start, len)
           from == IF cluster = 0 THEN e.first_cluster ELSE cluster
           begin == [buf |-> <<>>, cluster |-> from, off |-> off]
           end == ReadFrom(e, cluster, off, start, len)
           text == ContentIn(fat, data, e)
           chain == ch[e.first_cluster]
<1>1. want \in Nat /\ want = min(len, e.file_size - start) /\ start + want <= e.file_size
  BY DEF Rest, min
<1> HIDE DEF want
<1>2. PICK run : run[0] = begin /\ (\A k \in 1..want : run[k] = ReadOn(run[k - 1], want)) /\ end = run[want]
  <2>1. Rest(e, start, len) \in Nat
    BY <1>1 DEF want
  <2> QED
    BY <2>1, ReadFromRuns DEF want
<1> HIDE DEF end
<1>3. text \in Seq(Text) /\ Len(text) = e.file_size
  BY ContentIsText
<1> HIDE DEF text, chain, from
<1>4. begin.buf = <<>> /\ begin.cluster = from /\ begin.off = off /\ Len(begin.buf) = 0 /\ begin.buf \in Seq(Text)
  OBVIOUS
<1> HIDE DEF begin
\* Round by round.
<1>5. ASSUME PointsAt(start, from, off, chain)
      PROVE  Reading(end, text, start, want, chain) /\ Len(end.buf) = want
  <2> DEFINE T == {k \in 0..want : Reading(run[k], text, start, want, chain) /\ Len(run[k].buf) >= k}
  <2>1. 0 \in T
    <3>1. start + 0 = start
      OBVIOUS
    <3>2. Reading(begin, text, start, want, chain)
      BY <1>1, <1>4, <1>5, <3>1 DEF Reading
    <3>3. Reading(run[0], text, start, want, chain) /\ Len(run[0].buf) = 0
      BY <1>2, <1>4, <3>2
    <3>4. 0 \in 0..want /\ 0 >= 0
      BY <1>1
    <3> QED
      BY <3>3, <3>4
  <2>2. ASSUME NEW k \in 1..want, k - 1 \in T PROVE k \in T
    <3> DEFINE s == run[k - 1]
    <3>1. Reading(s, text, start, want, chain) /\ Len(s.buf) >= k - 1 /\ run[k] = ReadOn(s, want)
      BY <1>2, <2>2
    <3> HIDE DEF s
    <3>2. Len(s.buf) \in Nat
      BY <3>1 DEF Reading
    <3>3. CASE Len(s.buf) = want
      <4>1. ReadOn(s, want) = s
        BY <3>3 DEF ReadOn
      <4> QED
        BY <3>1, <3>3, <4>1
    <3>4. CASE Len(s.buf) # want
      <4>1. Reading(ReadOn(s, want), text, start, want, chain) /\ Len(ReadOn(s, want).buf) > Len(s.buf)
        BY <1>1, <3>1, <3>4, ReadOnReads DEF text, chain
      <4>2. Len(ReadOn(s, want).buf) \in Nat
        BY <4>1 DEF Reading
      <4> QED
        BY <3>1, <3>2, <4>1, <4>2
    <3> QED
      BY <3>3, <3>4
  <2> HIDE DEF T
  <2>3. \A k \in 0..want : k \in T
    BY <1>1, <2>1, <2>2, RoundsHold
  <2>4. Reading(run[want], text, start, want, chain) /\ Len(run[want].buf) >= want
    <3>1. want \in T
      BY <1>1, <2>3
    <3> QED
      BY <3>1 DEF T
  <2>5. Len(end.buf) \in Nat /\ Len(end.buf) <= want
    BY <1>2, <2>4 DEF Reading
  <2> QED
    BY <1>1, <1>2, <2>4, <2>5
<1>6. ASSUME start = e.file_size PROVE want = 0 /\ end = begin
  <2>1. e.file_size - start = 0
    BY <1>6
  <2>2. want = 0
    BY <1>1, <2>1 DEF min
  <2> QED
    BY <1>2, <2>2
<1>7. /\ end.buf \in Seq(Text) /\ Len(end.buf) = want
      /\ \A i \in 1..Len(end.buf) : end.buf[i] = text[start + i]
  <2>1. CASE start = e.file_size
    <3>1. want = 0 /\ end = begin
      BY <1>6, <2>1
    <3>2. end.buf \in Seq(Text) /\ Len(end.buf) = 0
      BY <1>4, <3>1
    <3>3. 1..Len(end.buf) = {}
      BY <3>2
    <3> QED
      BY <3>1, <3>2, <3>3
  <2>2. CASE PointsAt(start, from, off, chain)
    BY <1>5, <2>2 DEF Reading
  <2> QED
    BY <2>1, <2>2 DEF from, chain
<1>8. end.buf = Volume!Part(text, start, len)
  <2>1. start <= Len(text) /\ Len(end.buf) = min(len, Len(text) - start)
    BY <1>1, <1>3, <1>7
  <2>2. text \in Seq(Text) /\ end.buf \in Seq(Text)
    BY <1>3, <1>7
  <2> QED
    BY ONLY <1>7, <2>1, <2>2, start \in Nat, len \in Nat, PartIs
<1>9. PointsAt(start, from, off, chain) => PointsAt(start + Len(end.buf), end.cluster, end.off, chain)
  BY <1>5 DEF Reading
<1>10. Len(end.buf) \in Nat /\ start + Len(end.buf) <= e.file_size
  BY <1>1, <1>7
<1> QED
  BY <1>6, <1>8, <1>9, <1>10 DEF end, text, from, chain, begin

\* Load skips clusters until it has found the one it is to read from.
LEMMA LoadReads ==
  ASSUME NEW S, NEW ch, Chained(fat, S, ch), DataTyped(data), NEW d,
         Entry(fds[d].entry).file_size \in Nat, Entry(fds[d].entry).first_cluster \in S \cup {0},
         Entry(fds[d].entry).file_size <= Holds(Entry(fds[d].entry), ch),
         NEW offset \in Nat, NEW len \in Nat, Load(d, len, offset)
  PROVE  out' = Volume!Part(ContentIn(fat, data, Entry(fds[d].entry)), offset, len)
<1> DEFINE e == Entry(fds[d].entry)
           B == bytes_per_cluster
           c == e.first_cluster
           L == Len(ch[c])
           begin == [cluster |-> e.first_cluster, off |-> offset]
           Round(x) == IF x.off < bytes_per_cluster THEN x
                       ELSE [cluster |-> NextCluster(fat, x.cluster), off |-> x.off - bytes_per_cluster]
           Until(m, g) == g = [k \in 0..m |-> IF k = 0 THEN begin ELSE Round(g[k - 1])]
           Runs == { m \in Nat : \E g : Until(m, g) }
           run == CHOOSE g : Until(offset, g)
<1>0. /\ out' = ReadFrom(e, run[offset].cluster, run[offset].off, offset, len).buf
      /\ offset <= e.file_size
  BY DEF Load
<1> HIDE DEF Round, begin, run
<1>1. 0 \in Runs
  <2>1. Until(0, [k \in 0..0 |-> begin])
    OBVIOUS
  <2> QED
    BY <2>1
<1>2. ASSUME NEW k \in 1..offset, k - 1 \in Runs PROVE k \in Runs
  <2>1. PICK g : Until(k - 1, g)
    BY <1>2
  <2> DEFINE h == [j \in 0..k |-> IF j = k THEN Round(g[k - 1]) ELSE g[j]]
  <2>2. \A j \in 0..k : h[j] = IF j = 0 THEN begin ELSE Round(h[j - 1])
    BY <2>1
  <2>3. Until(k, h)
    BY <2>2
  <2> HIDE DEF Until, h
  <2> QED
    BY <2>3
<1>3. Until(offset, run)
  <2> HIDE DEF Runs
  <2>2. \A k \in 0..offset : k \in Runs
    BY <1>1, <1>2, RoundsHold
  <2>3. offset \in Runs
    BY <2>2
  <2>4. \E g : Until(offset, g)
    BY <2>3 DEF Runs
  <2> HIDE DEF Until
  <2> QED
    BY <2>4 DEF run
<1>4. run[0] = begin /\ \A k \in 1..offset : run[k] = Round(run[k - 1])
  BY <1>3
<1>5. B \in Nat \ {0}
  BY FATAssumption
\* Where it is after each round.
<1>6. ASSUME c # 0
      PROVE  PointsAt(offset, IF run[offset].cluster = 0 THEN c ELSE run[offset].cluster, run[offset].off, ch[c])
  <2>1. /\ c \in S /\ L \in Nat \ {0} /\ ch[c][1] = c /\ offset <= B * L
        /\ \A i \in 1..L : /\ ch[c][i] \in Cluster
                           /\ NextCluster(fat, ch[c][i]) = IF i = L THEN kEndOfClusterchain ELSE ch[c][i + 1]
    <3>1. c \in S
      BY <1>6
    <3>2. /\ L \in Nat \ {0} /\ ch[c][1] = c
          /\ \A i \in 1..L : ch[c][i] \in Cluster
                             /\ NextCluster(fat, ch[c][i]) = IF i = L THEN kEndOfClusterchain ELSE ch[c][i + 1]
      BY <3>1, ChainOf DEF NextCluster
    <3>3. e.file_size <= B * L /\ e.file_size \in Nat
      BY <1>6 DEF Holds
    <3>4. offset <= B * L
      <4>1. B * L \in Nat
        <5> HIDE DEF B, L
        <5> QED
          BY <1>5, <3>2
      <4> HIDE DEF L, B
      <4> QED
        BY <1>0, <3>3, <4>1
    <3> QED
      BY <3>1, <3>2, <3>4
  <2> DEFINE In(s, k) ==
               /\ s.off \in Nat /\ (s.off < B \/ s.off <= offset - k)
               /\ \E q \in 0..L : /\ offset = q * B + s.off
                                  /\ s.cluster = IF q < L THEN ch[c][q + 1] ELSE kEndOfClusterchain
             T == {k \in 0..offset : In(run[k], k)}
  <2>2. 0 \in T
    <3>1. begin.off = offset /\ begin.cluster = c
      BY DEF begin
    <3>2. offset = 0 * B + offset /\ 0 \in 0..L /\ 0 < L /\ 0 + 1 = 1 /\ offset <= offset - 0 /\ 0 \in 0..offset
      <4> HIDE DEF B, L
      <4> QED
        BY <1>5, <2>1
    <3> HIDE DEF B, L, c
    <3> QED
      BY <1>4, <2>1, <3>1, <3>2
  <2>3. ASSUME NEW k \in 1..offset, k - 1 \in T PROVE k \in T
    <3> DEFINE s == run[k - 1]
    <3>1. run[k] = Round(s) /\ In(s, k - 1)
      BY <1>4, <2>3
    <3> HIDE DEF s
    <3>2. CASE s.off < B
      <4>1. Round(s) = s
        BY <3>2 DEF Round
      <4>2. In(s, k)
        BY <3>1, <3>2
      <4> HIDE DEF In
      <4> QED
        BY <3>1, <4>1, <4>2
    <3>3. CASE ~(s.off < B)
      <4> DEFINE o == s.off - B
      <4>1. /\ Round(s).cluster = NextCluster(fat, s.cluster) /\ Round(s).off = o
        BY <3>3 DEF Round
      <4>2. o \in Nat /\ s.off = o + B /\ o <= offset - k
        <5>1. s.off \in Nat /\ (s.off < B \/ s.off <= offset - (k - 1))
          BY <3>1
        <5> HIDE DEF B, In
        <5> QED
          BY <1>5, <3>3, <5>1
      <4>3. PICK q \in 0..L : /\ offset = q * B + s.off
                              /\ s.cluster = IF q < L THEN ch[c][q + 1] ELSE kEndOfClusterchain
        BY <3>1
      <4> HIDE DEF o, L, B
      <4>4. q \in Nat /\ q * B \in Nat /\ (q + 1) * B = q * B + B /\ L * B = B * L /\ B * L \in Nat
        <5>1. q \in Nat
          BY <2>1
        <5> QED
          BY <1>5, <2>1, <5>1
      <4>5. offset = (q + 1) * B + o
        BY <1>5, <4>2, <4>3, <4>4
      <4>6. q < L
        <5> SUFFICES ASSUME ~(q < L) PROVE FALSE
          OBVIOUS
        <5>1. q = L
          BY <2>1, <4>4
        <5>2. q * B = L * B
          BY <5>1
        <5> DEFINE x == q * B
                   y == L * B
        <5>3. x = y /\ y \in Nat /\ offset <= y /\ offset = x + B + o
          BY <2>1, <4>4, <4>5, <5>2
        <5> HIDE DEF x, y
        <5> QED
          BY <1>5, <4>2, <5>3
      <4>7. q + 1 \in 0..L /\ q + 1 \in 1..L /\ (q + 1 = L <=> ~(q + 1 < L))
        BY <2>1, <4>4, <4>6
      <4>8. Round(s).cluster = IF q + 1 < L THEN ch[c][q + 1 + 1] ELSE kEndOfClusterchain
        BY <2>1, <4>1, <4>3, <4>6, <4>7
      <4>9. In(Round(s), k)
        BY <4>1, <4>2, <4>5, <4>7, <4>8 DEF L, B
      <4> HIDE DEF In
      <4> QED
        BY <3>1, <4>9
    <3> QED
      BY <3>2, <3>3
  <2> HIDE DEF In
  <2>4. In(run[offset], offset)
    <3> HIDE DEF T
    <3>1. \A k \in 0..offset : k \in T
      BY <2>2, <2>3, RoundsHold
    <3>2. offset \in T
      BY <3>1
    <3> QED
      BY <3>2 DEF T
  <2> DEFINE s == run[offset]
  <2> HIDE DEF s
  <2>5. In(s, offset)
    BY <2>4 DEF s
  <2>6. s.off \in 0..B - 1
    <3>1. s.off \in Nat /\ (s.off < B \/ s.off <= offset - offset)
      BY <2>5 DEF In
    <3> HIDE DEF B
    <3> QED
      BY <1>5, <3>1
  <2>7. PICK q \in 0..L : /\ offset = q * B + s.off
                          /\ s.cluster = IF q < L THEN ch[c][q + 1] ELSE kEndOfClusterchain
    BY <2>5 DEF In
  <2>8. s.cluster # 0
    <3>1. q < L => q + 1 \in 1..L
      <4> HIDE DEF L
      <4> QED
        BY <2>1
    <3> QED
      BY <2>1, <2>7, <3>1, EndIsNoCluster
  <2>9. PointsAt(offset, s.cluster, s.off, ch[c])
    BY <2>6, <2>7 DEF PointsAt
  <2> QED
    BY <2>8, <2>9 DEF s
<1>7. offset = e.file_size \/
      PointsAt(offset, IF run[offset].cluster = 0 THEN e.first_cluster ELSE run[offset].cluster,
               run[offset].off, ch[e.first_cluster])
  <2>1. c = 0 => offset = e.file_size
    <3>1. c = 0 => e.file_size <= 0
      BY DEF Holds
    <3> QED
      BY <1>0, <3>1
  <2> QED
    BY <1>6, <2>1
<1>8. ReadFrom(e, run[offset].cluster, run[offset].off, offset, len).buf
        = Volume!Part(ContentIn(fat, data, e), offset, len)
  BY ONLY Chained(fat, S, ch), DataTyped(data), e.file_size \in Nat, e.first_cluster \in S \cup {0},
     e.file_size <= Holds(e, ch), offset \in Nat, len \in Nat, <1>0, <1>7, ReadFromReads
<1> QED
  BY <1>0, <1>8

-----------------------------------------------------------------------------
(* The bytes that are written                                              *)

\* In a chain of clusters, the bytes before base are what they were, those from
\* there on are the first m of buf, and other clusters are left alone.
Written(old, dat, chain, base, m, buf) ==
  /\ DataTyped(dat)
  /\ \A c \in Cluster : (\A i \in 1..Len(chain) : chain[i] # c) => dat[c] = old[c]
  /\ \A i \in 1..Len(chain), y \in 1..bytes_per_cluster :
       /\ (i - 1) * bytes_per_cluster + y <= base => dat[chain[i]][y] = old[chain[i]][y]
       /\ \A k \in 1..m : (i - 1) * bytes_per_cluster + y = base + k => dat[chain[i]][y] = buf[k]

\* The bytes of a cluster with n of them, behind the first o, taken from behind
\* the first m of buf.
Filled(bytes, o, n, m, buf) ==
  [i \in 1..bytes_per_cluster |->
     IF i \in o + 1..o + n THEN IF m + i - o <= Len(buf) THEN buf[m + i - o] ELSE Garbage ELSE bytes[i]]

\* Data in which cluster c is filled so.
Patched(dat, c, o, n, m, buf) == [dat EXCEPT ![c] = Filled(dat[c], o, n, m, buf)]

\* Byte y of cluster i, and byte x of cluster j, in a row.
LEMMA InOrder ==
  ASSUME NEW B \in Nat \ {0}, NEW i \in Nat, NEW j \in Nat, NEW y \in 1..B, NEW x \in 1..B, i # j
  PROVE  (i * B + y < j * B + x <=> i < j) /\ i * B + y # j * B + x
<1>1. ASSUME NEW a \in Nat, NEW b \in Nat, a < b, NEW u \in 1..B, NEW v \in 1..B
      PROVE  a * B + u < b * B + v /\ a * B \in Nat /\ b * B \in Nat
  <2>1. (a + 1) * B <= b * B /\ (a + 1) * B = a * B + B /\ a * B \in Nat /\ b * B \in Nat
    BY <1>1
  <2> QED
    BY <2>1
<1>2. CASE i < j
  BY <1>1, <1>2
<1>3. CASE j < i
  <2>1. j * B + x < i * B + y /\ j * B \in Nat /\ i * B \in Nat
    BY <1>1, <1>3
  <2> QED
    BY <1>3, <2>1
<1> QED
  BY <1>2, <1>3

\* A round fills n bytes of cluster j behind the first o.
LEMMA RoundWritten ==
  ASSUME NEW chain, Distinct(chain), NEW old, NEW dat, NEW base \in Nat, NEW m \in Nat,
         NEW buf, buf \in Seq(Byte), Written(old, dat, chain, base, m, buf),
         NEW j \in 1..Len(chain), NEW o \in 0..bytes_per_cluster - 1,
         base + m = (j - 1) * bytes_per_cluster + o,
         NEW n \in Nat, o + n <= bytes_per_cluster, m + n <= Len(buf)
  PROVE  Written(old, Patched(dat, chain[j], o, n, m, buf), chain, base, m + n, buf)
<1> DEFINE B == bytes_per_cluster
           c == chain[j]
           part == Filled(dat[c], o, n, m, buf)
           after == Patched(dat, c, o, n, m, buf)
<1>1. B \in Nat \ {0} /\ c \in Cluster /\ dat \in [Cluster -> [1..B -> Text]] /\ Len(buf) \in Nat
      /\ j \in Nat \ {0} /\ o \in Nat
  <2>1. B \in Nat \ {0} /\ c \in Cluster /\ dat \in [Cluster -> [1..B -> Text]] /\ Len(buf) \in Nat
    BY FATAssumption DEF Distinct, Written, DataTyped
  <2>2. Len(chain) \in Nat
    BY DEF Distinct
  <2> QED
    BY <2>1, <2>2
<1>2. after[c] = part /\ DOMAIN after = Cluster /\ \A x \in Cluster \ {c} : after[x] = dat[x]
  BY <1>1 DEF Patched
<1> HIDE DEF after
<1>3. \A i \in 1..B : /\ i \in o + 1..o + n =>
                           m + i - o \in m + 1..m + n /\ m + i - o <= Len(buf) /\ part[i] = buf[m + i - o]
                      /\ i \notin o + 1..o + n => part[i] = dat[c][i]
  <2> TAKE i \in 1..B
  <2>1. part[i] = IF i \in o + 1..o + n THEN IF m + i - o <= Len(buf) THEN buf[m + i - o] ELSE Garbage
                  ELSE dat[c][i]
    BY DEF Filled
  <2> HIDE DEF part, c
  <2>2. i \in o + 1..o + n => m + i - o \in m + 1..m + n /\ m + i - o <= Len(buf)
    BY <1>1
  <2> QED
    BY <2>1, <2>2
<1>4. \A k \in 1..Len(buf) : buf[k] \in Text
  BY DEF Text
<1>5. part \in [1..B -> Text]
  <2>1. ASSUME NEW i \in 1..B PROVE part[i] \in Text
    <3>1. CASE i \in o + 1..o + n
      <4>1. m + i - o \in 1..Len(buf) /\ part[i] = buf[m + i - o]
        <5>1. m + i - o \in m + 1..m + n /\ m + i - o <= Len(buf) /\ part[i] = buf[m + i - o]
          BY <1>3, <3>1
        <5> HIDE DEF part
        <5> QED
          BY <1>1, <5>1
      <4> HIDE DEF part
      <4> QED
        BY <1>4, <4>1
    <3>2. CASE i \notin o + 1..o + n
      <4>1. part[i] = dat[c][i]
        BY <1>3, <3>2
      <4> HIDE DEF part, c
      <4> QED
        BY <1>1, <4>1
    <3> QED
      BY <3>1, <3>2
  <2>2. part = [i \in 1..B |-> part[i]]
    BY DEF Filled
  <2> HIDE DEF part
  <2> QED
    BY <2>1, <2>2
<1> HIDE DEF part
<1>6. DataTyped(after)
  <2>1. \A x \in Cluster : after[x] \in [1..B -> Text]
    BY <1>1, <1>2, <1>5
  <2>2. after = [x \in Cluster |-> after[x]]
    <3>1. after = [dat EXCEPT ![c] = after[c]]
      BY <1>2 DEF part, after, Patched
    <3>2. DOMAIN dat = Cluster
      BY <1>1
    <3> QED
      BY ONLY <3>1, <3>2
  <2> QED
    BY <2>1, <2>2 DEF DataTyped
<1>7. ASSUME NEW x \in Cluster, \A i \in 1..Len(chain) : chain[i] # x PROVE after[x] = old[x]
  BY <1>2, <1>7 DEF Written
\* Which byte of the file is byte y of cluster i.
<1>8. ASSUME NEW i \in 1..Len(chain), NEW y \in 1..B
      PROVE  /\ (i - 1) * B + y <= base => after[chain[i]][y] = old[chain[i]][y]
             /\ \A k \in 1..m + n : (i - 1) * B + y = base + k => after[chain[i]][y] = buf[k]
  <2> DEFINE p == (i - 1) * B + y
  <2>1. /\ p <= base => dat[chain[i]][y] = old[chain[i]][y]
        /\ \A k \in 1..m : p = base + k => dat[chain[i]][y] = buf[k]
    BY DEF Written
  <2>2. i \in Nat \ {0} /\ i - 1 \in Nat /\ j - 1 \in Nat /\ chain[i] \in Cluster
        /\ (i # j => chain[i] # c /\ i - 1 # j - 1)
    <3>1. i \in Nat \ {0} /\ chain[i] \in Cluster /\ (i # j => chain[i] # c)
      BY DEF Distinct
    <3> HIDE DEF c
    <3> QED
      BY <1>1, <3>1
  <2>3. CASE i # j
    <3>1. after[chain[i]] = dat[chain[i]]
      BY <1>2, <2>2, <2>3
    <3>2. ASSUME NEW k \in 1..m + n, p = base + k PROVE k <= m
      <4> SUFFICES ASSUME m < k PROVE FALSE
        OBVIOUS
      <4> DEFINE x == o + (k - m)
      <4>1. x \in 1..B /\ p = (j - 1) * B + x
        <5> DEFINE w == (j - 1) * B
        <5>1. base + m = w + o /\ w \in Nat
          <6>1. j - 1 \in Nat
            BY <2>2
          <6> HIDE DEF B
          <6> QED
            BY <1>1, <6>1 DEF B
        <5>2. k \in Nat /\ k <= m + n /\ o + n <= B
          OBVIOUS
        <5> HIDE DEF w, B, p
        <5>3. x \in 1..B /\ p = w + x
          BY <1>1, <3>2, <5>1, <5>2
        <5> QED
          BY <5>3 DEF w
      <4> DEFINE a == i - 1
                 b == j - 1
      <4>2. a \in Nat /\ b \in Nat /\ a # b /\ p = a * B + y
        BY <2>2, <2>3
      <4>3. p = b * B + x
        BY <4>1
      <4>4. x \in 1..B /\ y \in 1..B
        BY <4>1
      <4> HIDE DEF a, b, x, p, B
      <4>5. a * B + y # b * B + x
        BY <1>1, <4>2, <4>4, InOrder
      <4> QED
        BY <4>2, <4>3, <4>5
    <3> HIDE DEF p
    <3>3. ASSUME NEW k \in 1..m + n, p = base + k PROVE dat[chain[i]][y] = buf[k]
      <4>1. k \in 1..m
        BY <3>2, <3>3
      <4> QED
        BY <2>1, <3>3, <4>1
    <3> QED
      BY <2>1, <3>1, <3>3 DEF p
  <2>4. CASE i = j
    <3> DEFINE w == (j - 1) * B
    <3>1. base + m = w + o /\ w \in Nat /\ p = w + y
      <4>1. w \in Nat
        <5> HIDE DEF B
        <5> QED
          BY <1>1, <2>2
      <4> QED
        BY <2>4, <4>1
    <3>2. chain[i] = c /\ after[c] = part
      BY <1>2, <2>4
    <3> HIDE DEF w, p, c
    <3>3. ASSUME p <= base PROVE after[chain[i]][y] = old[chain[i]][y]
      <4>1. y \notin o + 1..o + n
        BY <1>1, <3>1, <3>3
      <4>2. part[y] = dat[c][y]
        BY <1>3, <4>1
      <4> QED
        BY <2>1, <3>2, <3>3, <4>2
    <3>4. ASSUME NEW k \in 1..m + n, p = base + k PROVE after[chain[i]][y] = buf[k]
      <4>1. CASE k <= m
        <5>1. y \notin o + 1..o + n /\ k \in 1..m
          BY <1>1, <3>1, <3>4, <4>1
        <5>2. part[y] = dat[c][y]
          BY <1>3, <5>1
        <5>3. dat[chain[i]][y] = buf[k]
          BY <2>1, <3>4, <5>1
        <5> QED
          BY <3>2, <5>2, <5>3
      <4>2. CASE ~(k <= m)
        <5>1. y \in o + 1..o + n /\ m + y - o = k
          BY <1>1, <3>1, <3>4, <4>2
        <5>2. part[y] = buf[m + y - o]
          BY <1>3, <5>1
        <5> QED
          BY <3>2, <5>1, <5>2
      <4> QED
        BY <4>1, <4>2
    <3> QED
      BY <3>3, <3>4 DEF p
  <2> QED
    BY <2>3, <2>4
<1> QED
  BY <1>6, <1>7, <1>8 DEF Written, after

\* A chain that grows leaves what is written.
LEMMA WrittenInLonger ==
  ASSUME NEW chain, Len(chain) \in Nat, NEW more, Len(more) \in Nat, Len(chain) <= Len(more),
         \A i \in 1..Len(chain) : i \in 1..Len(more) /\ more[i] = chain[i],
         NEW old, NEW dat, NEW base \in Nat, NEW m \in Nat, NEW buf,
         base + m <= Len(chain) * bytes_per_cluster, Written(old, dat, chain, base, m, buf)
  PROVE  Written(old, dat, more, base, m, buf)
<1> DEFINE B == bytes_per_cluster
           L == Len(chain)
<1>1. ASSUME NEW c \in Cluster, \A i \in 1..Len(more) : more[i] # c PROVE dat[c] = old[c]
  <2>1. \A i \in 1..Len(chain) : chain[i] # c
    BY <1>1
  <2> QED
    BY <2>1 DEF Written
<1>2. ASSUME NEW i \in 1..Len(more), NEW y \in 1..B
      PROVE  /\ (i - 1) * B + y <= base => dat[more[i]][y] = old[more[i]][y]
             /\ \A k \in 1..m : (i - 1) * B + y = base + k => dat[more[i]][y] = buf[k]
  <2>1. CASE i \in 1..L
    BY <2>1 DEF Written
  <2>2. CASE i \notin 1..L
    <3> DEFINE a == i - 1
    <3>1. a \in Nat /\ L <= a /\ L \in Nat /\ B \in Nat \ {0}
      BY <2>2, FATAssumption
    <3> HIDE DEF a, B, L
    <3>2. L * B <= a * B /\ L * B \in Nat /\ a * B \in Nat
      BY <3>1
    <3> DEFINE v == a * B
               w == L * B
    <3>3. base + m <= w /\ w <= v /\ v \in Nat /\ w \in Nat
      BY <3>2 DEF L, B
    <3> HIDE DEF v, w
    <3>4. ~(v + y <= base) /\ \A k \in 1..m : v + y # base + k
      BY <3>1, <3>3
    <3>5. (i - 1) * B + y = v + y
      BY DEF v, a
    <3> QED
      BY <3>4, <3>5
  <2> QED
    BY <2>1, <2>2
<1> QED
  BY <1>1, <1>2 DEF Written

\* What a round changes, where it stays in its cluster or goes on to another.
LEMMA WriteOnPuts ==
  ASSUME NEW s, NEW buf, ~(s.total >= Len(buf)), NEW o, o = IF s.off = bytes_per_cluster THEN 0 ELSE s.off,
         NEW n, n = min(Len(buf), bytes_per_cluster - o), NEW t, t = WriteOn(s, buf)
  PROVE  /\ t.off = o + n /\ t.total = s.total + n
         /\ t.data = Patched(s.data, t.cluster, o, n, s.total, buf)
  BY DEF WriteOn, Filled, Patched

\* A write has filled the chain of b up to where it is, from base on.
Fills(s, S, b, base, ch, j, old, buf) ==
  /\ Chained(s.fat, S, ch) /\ j \in 1..Len(ch[b]) /\ s.cluster = ch[b][j]
  /\ s.off \in 0..bytes_per_cluster /\ s.total \in Nat
  /\ base + s.total = (j - 1) * bytes_per_cluster + s.off
  /\ Written(old, s.data, ch[b], base, s.total, buf)

\* A round from s on writes to cluster i of the chain of b, in what the chains
\* are then.
Finds(s, t, S, b, base, ch, more, i) ==
  /\ Grown(S, ch, more) /\ Chained(t.fat, S, more) /\ i \in 1..Len(more[b]) /\ t.cluster = more[b][i]
  /\ base + s.total = (i - 1) * bytes_per_cluster + (IF s.off = bytes_per_cluster THEN 0 ELSE s.off)

\* A round of Write finds its cluster, and extends the chain only at its end.
LEMMA WriteOnFinds ==
  ASSUME NEW S, NEW b \in S, NEW base \in Nat, NEW buf, Len(buf) \in Nat, NEW ch, NEW j, NEW old,
         NEW s, Fills(s, S, b, base, ch, j, old, buf), s.total < Len(buf),
         s.off = bytes_per_cluster /\ j = Len(ch[b]) =>
           num_cluster(Len(buf) - s.total) = 1 /\ 1 <= FreeCount(s.fat)
  PROVE  \E more, i : /\ Finds(s, WriteOn(s, buf), S, b, base, ch, more, i)
                      /\ more = ch \/ (s.off = bytes_per_cluster /\ j = Len(ch[b]))
<1> DEFINE B == bytes_per_cluster
           L == Len(ch[b])
           t == WriteOn(s, buf)
           o == IF s.off = bytes_per_cluster THEN 0 ELSE s.off
           w == base + s.total
           next == NextCluster(s.fat, s.cluster)
           extended == ExtendCluster(s.fat, s.cluster, num_cluster(Len(buf) - s.total))
<1>1. /\ Chained(s.fat, S, ch) /\ j \in 1..L /\ s.cluster = ch[b][j] /\ s.off \in 0..B
      /\ w = (j - 1) * B + s.off /\ B \in Nat \ {0} /\ s.total \in Nat
  BY FATAssumption DEF Fills
<1>2. L \in Nat \ {0} /\ j \in Nat \ {0} /\ ch[b][j] \in Cluster
  BY <1>1, ChainOf
<1>3. next = IF j = L THEN kEndOfClusterchain ELSE ch[b][j + 1]
  BY <1>1, <1>2, ChainOf DEF NextCluster
<1>4. /\ s.off # B => t.fat = s.fat /\ t.cluster = s.cluster
      /\ s.off = B /\ next # kEndOfClusterchain => t.fat = s.fat /\ t.cluster = next
      /\ s.off = B /\ next = kEndOfClusterchain => t.fat = extended.fat /\ t.cluster = extended.last
  <2>1. ~(s.total >= Len(buf))
    BY <1>1
  <2> QED
    BY ONLY <2>1, WriteOnReturns
<1> HIDE DEF t, next
<1>5. Grown(S, ch, ch)
  BY <1>1, ChainOf DEF Grown
<1>6. s.off = B => w = ((j + 1) - 1) * B + 0
  <2> HIDE DEF B, w
  <2>1. (j - 1) * B + B = j * B /\ (j + 1) - 1 = j /\ j * B \in Nat
    BY <1>1, <1>2
  <2> QED
    BY <1>1, <2>1
<1>7. CASE s.off # B
  <2>1. t.fat = s.fat /\ t.cluster = s.cluster /\ w = (j - 1) * B + o
    BY <1>1, <1>4, <1>7
  <2>2. Grown(S, ch, ch) /\ Chained(t.fat, S, ch) /\ j \in 1..Len(ch[b]) /\ t.cluster = ch[b][j]
    BY <1>1, <1>5, <2>1
  <2>3. base + s.total = (j - 1) * B + o
    BY <2>1
  <2>4. Finds(s, t, S, b, base, ch, ch, j)
    BY ONLY <2>2, <2>3, Zenon DEF Finds
  <2> WITNESS ch, j
  <2> QED
    BY <2>4 DEF t
<1>8. CASE s.off = B /\ j # L
  <2>1. j + 1 \in 1..L
    <3> HIDE DEF L
    <3> QED
      BY <1>1, <1>2, <1>8
  <2>2. ch[b][j + 1] \in Cluster
    BY <1>1, <2>1, ChainOf
  <2>3. t.fat = s.fat /\ t.cluster = ch[b][j + 1]
    BY <1>3, <1>4, <1>8, <2>2, EndIsNoCluster
  <2>4. w = ((j + 1) - 1) * B + o
    BY <1>6, <1>8
  <2>5. Grown(S, ch, ch) /\ Chained(t.fat, S, ch) /\ j + 1 \in 1..Len(ch[b]) /\ t.cluster = ch[b][j + 1]
    BY <1>1, <1>5, <2>1, <2>3
  <2>6. Finds(s, t, S, b, base, ch, ch, j + 1)
    BY ONLY <2>4, <2>5, Zenon DEF Finds
  <2> WITNESS ch, j + 1
  <2> QED
    BY <2>6 DEF t
<1>9. CASE s.off = B /\ j = L
  <2> DEFINE more == Longer(s.fat, ch, b, 1)
             f == s.fat
  <2>1. /\ num_cluster(Len(buf) - s.total) = 1 /\ 1 <= Cardinality(FreeClusters(f)) /\ 1 <= FreeCount(f)
        /\ Chained(f, S, ch) /\ L \in 1..Len(ch[b]) /\ L = Len(ch[b]) /\ 1 \in Nat \ {0} /\ 1 \in Nat
    BY <1>1, <1>9 DEF FreeCount
  <2>2. t.fat = ExtendCluster(f, ch[b][L], 1).fat /\ t.cluster = ExtendCluster(f, ch[b][L], 1).last
    BY <1>1, <1>3, <1>4, <1>9, <2>1
  <2> HIDE DEF f, L
  <2>3. Grown(S, ch, Longer(f, ch, b, 1))
    BY ONLY <2>1, b \in S, LongerIsGrown
  <2>4. Chained(ExtendCluster(f, ch[b][L], 1).fat, S, Longer(f, ch, b, 1))
    BY ONLY <2>1, b \in S, ExtendsChain
  <2>5. ExtendCluster(f, ch[b][L], 1).last = Longer(f, ch, b, 1)[b][L + 1]
    BY ONLY <2>1, b \in S, ExtendedLast
  <2>6. Len(Longer(f, ch, b, 1)[b]) = L + 1
    <3>1. Len(Longer(f, ch, b, 1)[b]) = Len(ch[b]) + 1
      BY ONLY <2>1, b \in S, LongerChain
    <3> QED
      BY <2>1, <3>1
  <2>7. j + 1 \in 1..L + 1 /\ j = L
    BY <1>2, <1>9 DEF L
  <2>8. w = ((j + 1) - 1) * B + o
    BY <1>6, <1>9
  <2> HIDE DEF more
  <2>9. more = Longer(f, ch, b, 1)
    BY DEF more, f
  <2>10. /\ Grown(S, ch, more) /\ Chained(t.fat, S, more) /\ j + 1 \in 1..Len(more[b])
         /\ t.cluster = more[b][j + 1]
    BY <2>2, <2>3, <2>4, <2>5, <2>6, <2>7, <2>9
  <2>11. Finds(s, t, S, b, base, ch, more, j + 1)
    BY ONLY <2>8, <2>10, Zenon DEF Finds
  <2> QED
    BY <1>9, <2>11 DEF t, L
<1> QED
  BY <1>7, <1>8, <1>9

\* A round that has room fills what it takes.
LEMMA WriteOnFills ==
  ASSUME NEW S, NEW b \in S, NEW base \in Nat, NEW buf, buf \in Seq(Byte), NEW ch, NEW j, NEW old,
         NEW s, Fills(s, S, b, base, ch, j, old, buf), s.total < Len(buf),
         NEW o, o = IF s.off = bytes_per_cluster THEN 0 ELSE s.off,
         NEW n, n = min(Len(buf), bytes_per_cluster - o), s.total + n <= Len(buf),
         s.off = bytes_per_cluster /\ j = Len(ch[b]) =>
           num_cluster(Len(buf) - s.total) = 1 /\ 1 <= FreeCount(s.fat)
  PROVE  \E more, i :
           /\ Grown(S, ch, more) /\ Fills(WriteOn(s, buf), S, b, base, more, i, old, buf)
           /\ WriteOn(s, buf).total = s.total + n /\ WriteOn(s, buf).off = o + n
           /\ more = ch \/ (s.off = bytes_per_cluster /\ j = Len(ch[b]))
<1> DEFINE B == bytes_per_cluster
           t == WriteOn(s, buf)
           m == s.total
<1>1. /\ Chained(s.fat, S, ch) /\ j \in 1..Len(ch[b]) /\ s.cluster = ch[b][j] /\ s.off \in 0..B
      /\ base + m = (j - 1) * B + s.off /\ B \in Nat \ {0} /\ m \in Nat /\ Len(buf) \in Nat
      /\ Written(old, s.data, ch[b], base, m, buf)
  BY FATAssumption DEF Fills
<1>2. PICK more, i :
        /\ Grown(S, ch, more) /\ Chained(t.fat, S, more) /\ i \in 1..Len(more[b]) /\ t.cluster = more[b][i]
        /\ base + m = (i - 1) * B + o
        /\ more = ch \/ (s.off = bytes_per_cluster /\ j = Len(ch[b]))
  <2>1. \E more, i : /\ Finds(s, t, S, b, base, ch, more, i)
                     /\ more = ch \/ (s.off = bytes_per_cluster /\ j = Len(ch[b]))
    BY <1>1, WriteOnFinds
  <2> HIDE DEF t, m
  <2>2. PICK more, i : /\ Finds(s, t, S, b, base, ch, more, i)
                       /\ more = ch \/ (s.off = bytes_per_cluster /\ j = Len(ch[b]))
    BY <2>1
  <2>3. /\ Grown(S, ch, more) /\ Chained(t.fat, S, more) /\ i \in 1..Len(more[b]) /\ t.cluster = more[b][i]
        /\ base + m = (i - 1) * B + o
    BY <2>2 DEF Finds, m
  <2> HIDE DEF B
  <2> QED
    BY <2>2, <2>3
<1>3. o \in 0..B - 1 /\ n \in Nat /\ o + n <= B
  <2> DEFINE x == s.off
             l == Len(buf)
  <2>1. (o = IF x = B THEN 0 ELSE x) /\ n = min(l, B - o) /\ x \in 0..B /\ B \in Nat \ {0} /\ l \in Nat
    BY <1>1
  <2> HIDE DEF B, x, l
  <2>2. o \in 0..B - 1
    BY ONLY <2>1
  <2>3. n \in Nat /\ o + n <= B
    BY ONLY <2>1, <2>2 DEF min
  <2> QED
    BY <2>2, <2>3 DEF B
<1>4. /\ t.off = o + n /\ t.total = m + n
      /\ t.data = Patched(s.data, t.cluster, o, n, m, buf)
  <2>1. ~(m >= Len(buf))
    BY <1>1
  <2> QED
    BY ONLY <2>1, o = IF s.off = bytes_per_cluster THEN 0 ELSE s.off,
       n = min(Len(buf), bytes_per_cluster - o), WriteOnPuts
<1> HIDE DEF t, m
<1>5. Distinct(more[b]) /\ Len(ch[b]) \in Nat \ {0} /\ Len(more[b]) \in Nat
  BY <1>1, <1>2, ChainIsDistinct, ChainOf
<1>6. Written(old, s.data, more[b], base, m, buf)
  <2>1. base + m <= Len(ch[b]) * B
    <3> DEFINE L == Len(ch[b])
               a == j - 1
    <3>1. a \in Nat /\ a + 1 <= L /\ L \in Nat
      <4>1. j \in 1..L /\ L \in Nat
        BY <1>1, <1>5
      <4> HIDE DEF L
      <4> QED
        BY <4>1
    <3> DEFINE v == a * B
               w == L * B
    <3>2. base + m = v + s.off /\ s.off \in 0..B /\ B \in Nat \ {0}
      BY <1>1
    <3> HIDE DEF L, a, B
    <3>3. v + B <= w /\ v \in Nat /\ w \in Nat
      <4>1. (a + 1) * B <= L * B /\ (a + 1) * B = a * B + B /\ a * B \in Nat /\ L * B \in Nat
        BY <3>1, <3>2
      <4> QED
        BY <4>1
    <3> HIDE DEF v, w
    <3>4. base + m <= w
      BY <3>2, <3>3
    <3> QED
      BY <3>4 DEF L, w, B
  <2>2. Len(ch[b]) <= Len(more[b]) /\ \A x \in 1..Len(ch[b]) : x \in 1..Len(more[b]) /\ more[b][x] = ch[b][x]
    BY <1>2 DEF Grown
  <2>3. Len(ch[b]) \in Nat /\ Len(more[b]) \in Nat
    BY <1>5
  <2> QED
    BY ONLY <1>1, <2>1, <2>2, <2>3, base \in Nat, WrittenInLonger
<1>7. Written(old, t.data, more[b], base, m + n, buf)
  <2>1. m + n <= Len(buf)
    BY DEF m
  <2>2. t.data = Patched(s.data, more[b][i], o, n, m, buf)
    BY <1>2, <1>4
  <2>3. Written(old, Patched(s.data, more[b][i], o, n, m, buf), more[b], base, m + n, buf)
    <3>1. m \in Nat /\ i \in 1..Len(more[b]) /\ base + m = (i - 1) * B + o
      BY <1>1, <1>2
    <3> QED
      BY ONLY <1>3, <1>5, <1>6, <2>1, <3>1, base \in Nat, buf \in Seq(Byte), RoundWritten
  <2> QED
    BY <2>2, <2>3
<1>8. base + (m + n) = (i - 1) * B + (o + n) /\ o + n \in 0..B /\ m + n \in Nat
  <2> DEFINE v == (i - 1) * B
  <2>1. v \in Nat /\ base + m = v + o
    <3> DEFINE a == i - 1
    <3>1. a \in Nat
      BY <1>2, <1>5
    <3> HIDE DEF a, B
    <3>2. a * B \in Nat
      BY <1>1, <3>1
    <3> QED
      BY <1>2, <3>2 DEF a
  <2>2. m \in Nat /\ B \in Nat
    BY <1>1
  <2> HIDE DEF v, B
  <2>3. base + (m + n) = v + (o + n) /\ o + n \in 0..B /\ m + n \in Nat
    BY ONLY <1>3, <2>1, <2>2, base \in Nat DEF B
  <2> QED
    BY <2>3 DEF v
<1>9. Fills(t, S, b, base, more, i, old, buf)
  <2>1. t.off \in 0..bytes_per_cluster /\ t.total \in Nat /\ base + t.total = (i - 1) * bytes_per_cluster + t.off
    BY <1>4, <1>8
  <2>2. Written(old, t.data, more[b], base, t.total, buf)
    BY <1>4, <1>7
  <2> QED
    BY <1>2, <2>1, <2>2 DEF Fills
<1> QED
  BY <1>2, <1>4, <1>9 DEF t, m

\* The loop of Write, round after round.
LEMMA WriteLoopRuns ==
  ASSUME NEW begin, NEW buf, Len(buf) \in Nat
  PROVE  \E run : /\ run[0] = begin /\ \A k \in 1..Len(buf) : run[k] = WriteOn(run[k - 1], buf)
                  /\ WriteLoop(begin, buf) = run[Len(buf)]
<1> DEFINE n == Len(buf)
           Round(x) == WriteOn(x, buf)
           Until(m, g) == g = [k \in 0..m |-> IF k = 0 THEN begin ELSE Round(g[k - 1])]
           Runs == { m \in Nat : \E g : Until(m, g) }
           run == CHOOSE g : Until(n, g)
<1>0. WriteLoop(begin, buf) = run[n]
  BY DEF WriteLoop
<1> HIDE DEF Round, n, run
<1>1. 0 \in Runs
  <2>1. Until(0, [k \in 0..0 |-> begin])
    OBVIOUS
  <2> QED
    BY <2>1
<1>2. ASSUME NEW k \in 1..n, k - 1 \in Runs PROVE k \in Runs
  <2>1. PICK g : Until(k - 1, g)
    BY <1>2
  <2> DEFINE h == [j \in 0..k |-> IF j = k THEN Round(g[k - 1]) ELSE g[j]]
  <2>2. \A j \in 0..k : h[j] = IF j = 0 THEN begin ELSE Round(h[j - 1])
    BY <2>1
  <2>3. Until(k, h)
    BY <2>2
  <2> HIDE DEF Until, h
  <2> QED
    BY <2>3
<1>3. n \in Nat
  BY DEF n
<1>4. Until(n, run)
  <2> HIDE DEF Runs
  <2>2. \A k \in 0..n : k \in Runs
    BY <1>1, <1>2, <1>3, RoundsHold
  <2>3. n \in Runs
    BY <1>3, <2>2
  <2>4. \E g : Until(n, g)
    BY <2>3 DEF Runs
  <2> HIDE DEF Until
  <2> QED
    BY <2>4 DEF run
<1>5. run[0] = begin /\ \A k \in 1..n : run[k] = Round(run[k - 1])
  BY <1>3, <1>4
<1> QED
  BY <1>0, <1>5 DEF Round, n

\* A write into one cluster takes one round.
LEMMA OneRound ==
  ASSUME NEW begin, NEW buf, Len(buf) \in Nat, begin.total = 0,
         Len(buf) # 0 => WriteOn(begin, buf).total = Len(buf)
  PROVE  WriteLoop(begin, buf) = IF Len(buf) = 0 THEN begin ELSE WriteOn(begin, buf)
<1> DEFINE n == Len(buf)
<1>1. PICK run : /\ run[0] = begin /\ \A k \in 1..n : run[k] = WriteOn(run[k - 1], buf)
                 /\ WriteLoop(begin, buf) = run[n]
  BY WriteLoopRuns
<1>2. CASE n = 0
  BY <1>1, <1>2
<1>3. CASE n # 0
  <2> DEFINE T == {k \in 0..n : k # 0 => run[k] = WriteOn(begin, buf)}
  <2>1. 0 \in T
    OBVIOUS
  <2>2. ASSUME NEW k \in 1..n, k - 1 \in T PROVE k \in T
    <3>1. run[k] = WriteOn(run[k - 1], buf)
      BY <1>1
    <3>2. CASE k = 1
      BY <1>1, <3>1, <3>2
    <3>3. CASE k # 1
      <4>1. run[k - 1] = WriteOn(begin, buf)
        BY <2>2, <3>3
      <4>2. WriteOn(begin, buf).total >= n
        BY <1>3
      <4>3. WriteOn(WriteOn(begin, buf), buf) = WriteOn(begin, buf)
        BY <4>2 DEF WriteOn
      <4> QED
        BY <3>1, <4>1, <4>3
    <3> QED
      BY <3>2, <3>3
  <2> HIDE DEF T
  <2>3. \A k \in 0..n : k \in T
    BY <2>1, <2>2, RoundsHold
  <2>4. n \in T
    BY <2>3
  <2> QED
    BY <1>1, <1>3, <2>4 DEF T
<1> QED
  BY <1>2, <1>3

\* So much fits into one cluster.
LEMMA OneCluster ==
  ASSUME NEW len \in Nat, NEW off \in 0..bytes_per_cluster, len <= bytes_per_cluster - (off % bytes_per_cluster)
  PROVE  LET o == IF off = bytes_per_cluster THEN 0 ELSE off
         IN  /\ min(len, bytes_per_cluster - o) = len
             /\ len # 0 => num_cluster(len) = 1
<1> DEFINE B == bytes_per_cluster
           o == IF off = B THEN 0 ELSE off
<1>1. B \in Nat \ {0}
  BY FATAssumption
<1>2. off % B = o
  <2> DEFINE a == IF off = B THEN 1 ELSE 0
  <2>1. off \in 0..B
    OBVIOUS
  <2> HIDE DEF B
  <2>2. a \in Nat /\ o \in 0..B - 1 /\ a * B + o = off
    BY <1>1, <2>1
  <2> HIDE DEF a, o
  <2>3. (a * B + o) % B = o
    BY <1>1, <2>2, DigitsOf
  <2> QED
    BY <2>2, <2>3
<1>3. len <= B - o /\ o \in Nat /\ len <= B
  <2>1. len <= B - o
    BY <1>2
  <2> HIDE DEF B
  <2>2. off \in 0..B
    BY DEF B
  <2> QED
    BY <1>1, <2>1, <2>2
<1>4. min(len, B - o) = len
  <2> HIDE DEF B, o
  <2> QED
    BY <1>1, <1>3 DEF min
<1>5. ASSUME len # 0 PROVE num_cluster(len) = 1
  <2> DEFINE r == len - 1
             m == len + B - 1
  <2> HIDE DEF B
  <2>1. r \in 0..B - 1 /\ m = 1 * B + r
    BY <1>1, <1>3, <1>5
  <2> HIDE DEF r, m
  <2>2. (1 * B + r) \div B = 1
    BY <1>1, <2>1, DigitsOf
  <2>3. m \div B = 1
    BY <2>1, <2>2
  <2>4. num_cluster(len) = m \div B
    BY DEF num_cluster, m, B
  <2> QED
    BY <2>3, <2>4
<1> QED
  BY <1>4, <1>5

\* A write that stays in one cluster is one round.
LEMMA WriteOnceFills ==
  ASSUME NEW S, NEW b \in S, NEW base \in Nat, NEW buf, buf \in Seq(Byte), NEW ch, NEW j, NEW old,
         NEW begin, Fills(begin, S, b, base, ch, j, old, buf), begin.total = 0,
         Len(buf) <= bytes_per_cluster - (begin.off % bytes_per_cluster),
         begin.off = bytes_per_cluster => 1 <= FreeCount(begin.fat)
  PROVE  \E more, i : /\ Grown(S, ch, more) /\ Fills(WriteLoop(begin, buf), S, b, base, more, i, old, buf)
                      /\ WriteLoop(begin, buf).total = Len(buf)
<1> DEFINE B == bytes_per_cluster
           n == Len(buf)
           o == IF begin.off = bytes_per_cluster THEN 0 ELSE begin.off
<1>1. n \in Nat /\ begin.off \in 0..B /\ Chained(begin.fat, S, ch)
  BY DEF Fills
<1>2. min(n, bytes_per_cluster - o) = n /\ (n # 0 => num_cluster(n) = 1)
  BY <1>1, OneCluster
<1> HIDE DEF n, o
<1>3. CASE n = 0
  <2>1. Grown(S, ch, ch)
    BY <1>1, ChainOf DEF Grown
  <2>2. WriteLoop(begin, buf) = begin
    BY <1>1, <1>3, OneRound DEF n
  <2> QED
    BY <1>3, <2>1, <2>2 DEF n
<1>4. CASE n # 0
  <2>1. begin.total < Len(buf) /\ begin.total + n <= Len(buf) /\ Len(buf) - begin.total = n /\ begin.total + n = n
    BY <1>1, <1>4 DEF n
  <2>2. \E more, i :
           /\ Grown(S, ch, more) /\ Fills(WriteOn(begin, buf), S, b, base, more, i, old, buf)
           /\ WriteOn(begin, buf).total = begin.total + n /\ WriteOn(begin, buf).off = o + n
           /\ more = ch \/ (begin.off = bytes_per_cluster /\ j = Len(ch[b]))
    <3>1. o = (IF begin.off = bytes_per_cluster THEN 0 ELSE begin.off) /\ n = min(Len(buf), bytes_per_cluster - o)
      BY <1>2 DEF o, n
    <3>2. begin.off = bytes_per_cluster /\ j = Len(ch[b]) =>
             num_cluster(Len(buf) - begin.total) = 1 /\ 1 <= FreeCount(begin.fat)
      BY <1>2, <1>4, <2>1
    <3> QED
      BY ONLY <2>1, <3>1, <3>2, b \in S, base \in Nat, buf \in Seq(Byte),
         Fills(begin, S, b, base, ch, j, old, buf), WriteOnFills
  <2>3. PICK more, i :
           /\ Grown(S, ch, more) /\ Fills(WriteOn(begin, buf), S, b, base, more, i, old, buf)
           /\ WriteOn(begin, buf).total = begin.total + n
    BY <2>2
  <2>4. WriteLoop(begin, buf) = WriteOn(begin, buf)
    <3>1. WriteOn(begin, buf).total = n
      BY <2>1, <2>3
    <3> QED
      BY <1>1, <1>4, <3>1, OneRound DEF n
  <2> WITNESS more, i
  <2> QED
    BY <2>1, <2>3, <2>4 DEF n
<1> QED
  BY <1>3, <1>4

\* So many bytes fill clusters, no more than there are.
WholeClusters(buf, chain) ==
  Len(buf) % bytes_per_cluster = 0 /\ Len(buf) <= Len(chain) * bytes_per_cluster

HasFilled(s, S, b, ch, old, buf) == s.total = Len(buf) /\ \E i : Fills(s, S, b, 0, ch, i, old, buf)

\* A write from the start of a chain that is long enough fills whole clusters.
LEMMA WriteWholeFills ==
  ASSUME NEW S, NEW b \in S, NEW buf, buf \in Seq(Byte), NEW ch, NEW old,
         NEW begin, Fills(begin, S, b, 0, ch, 1, old, buf), begin.total = 0, begin.off = 0,
         WholeClusters(buf, ch[b])
  PROVE  HasFilled(WriteLoop(begin, buf), S, b, ch, old, buf)
<1> DEFINE B == bytes_per_cluster
           n == Len(buf)
           L == Len(ch[b])
           z == n \div B
<1>1. n \in Nat /\ B \in Nat \ {0} /\ L \in Nat \ {0}
  BY FATAssumption, ChainOf DEF Fills
<1>2. z \in Nat /\ n = z * B
  <2> HIDE DEF B, n
  <2>1. n \div B \in Nat /\ n % B \in 0..B - 1 /\ n = (n \div B) * B + (n % B)
    BY <1>1, Digits
  <2>2. n % B = 0
    BY DEF n, B, WholeClusters
  <2> DEFINE r == n % B
             v == z * B
  <2>3. z \in Nat /\ n = v + r /\ r = 0
    BY <2>1, <2>2
  <2>4. v \in Nat
    <3> HIDE DEF z
    <3> QED
      BY <1>1, <2>3
  <2> HIDE DEF r, v, z
  <2>5. n = v
    BY <2>3, <2>4
  <2> QED
    BY <2>3, <2>5 DEF v
<1> HIDE DEF z
<1>3. PICK run : /\ run[0] = begin /\ \A k \in 1..n : run[k] = WriteOn(run[k - 1], buf)
                 /\ WriteLoop(begin, buf) = run[n]
  <2>1. Len(buf) \in Nat
    BY <1>1
  <2> QED
    BY ONLY <2>1, WriteLoopRuns
<1> DEFINE Whole(s) == /\ \E i : Fills(s, S, b, 0, ch, i, old, buf)
                       /\ s.off \in {0, B} /\ s.total <= n /\ \E x \in Nat : s.total = x * B
           T == {k \in 0..n : Whole(run[k]) /\ (run[k].total >= k \/ run[k].total = n)}
<1>4. 0 \in T
  <2>1. 0 = 0 * B /\ 0 \in Nat /\ 0 \in 0..n
    <3> HIDE DEF B
    <3> QED
      BY <1>1
  <2>2. Whole(begin)
    BY <1>1, <2>1
  <2> HIDE DEF Whole, B
  <2> QED
    BY <1>1, <1>3, <2>1, <2>2
<1>5. ASSUME NEW k \in 1..n, k - 1 \in T PROVE k \in T
  <2> DEFINE s == run[k - 1]
             t == WriteOn(s, buf)
  <2>1. run[k] = t /\ Whole(s) /\ (s.total >= k - 1 \/ s.total = n)
    BY <1>3, <1>5
  <2> HIDE DEF s
  <2>2. PICK i : Fills(s, S, b, 0, ch, i, old, buf)
    BY <2>1
  <2>3. PICK x \in Nat : s.total = x * B
    BY <2>1
  <2>4. s.off \in {0, B} /\ s.total <= n /\ s.total \in Nat /\ 0 + s.total = (i - 1) * B + s.off /\ i \in 1..L
    BY <2>1, <2>2 DEF Fills
  <2>5. CASE s.total >= n
    <3>1. t = s
      BY <2>5 DEF WriteOn
    <3>2. s.total = n
      BY <1>1, <2>4, <2>5
    <3> HIDE DEF Whole
    <3> QED
      BY <2>1, <3>1, <3>2
  <2>6. CASE ~(s.total >= n)
    <3> DEFINE o == IF s.off = bytes_per_cluster THEN 0 ELSE s.off
    <3>1. o = 0 /\ B - o = B
      BY <1>1, <2>4
    <3> HIDE DEF o
    <3>2. s.total + B <= n /\ (x + 1) * B = s.total + B
      <4> DEFINE v == x * B
                 w == z * B
      <4>1. v = s.total /\ w = n /\ v < w
        BY <1>1, <1>2, <2>3, <2>4, <2>6
      <4> HIDE DEF B
      <4>2. x < z
        <5> SUFFICES ASSUME z <= x PROVE FALSE
          BY <1>2
        <5>1. z * B <= x * B
          BY <1>1, <1>2
        <5>2. v \in Nat /\ w \in Nat
          BY <1>1, <1>2
        <5> HIDE DEF v, w
        <5>3. w <= v
          BY <5>1 DEF v, w
        <5> QED
          BY <4>1, <5>2, <5>3
      <4>3. (x + 1) * B <= z * B /\ (x + 1) * B = x * B + B
        BY <1>1, <1>2, <4>2
      <4> QED
        BY <4>1, <4>3
    <3>3. B = min(Len(buf), bytes_per_cluster - o)
      <4>1. B <= n
        BY <1>1, <2>4, <3>2
      <4> QED
        BY <1>1, <3>1, <4>1 DEF min
    <3>4. ~(s.off = bytes_per_cluster /\ i = Len(ch[b]))
      <4> SUFFICES ASSUME s.off = B, i = L PROVE FALSE
        OBVIOUS
      <4> DEFINE w == L * B
      <4>1. s.total = w
        <5>1. (L - 1) * B + B = w /\ w \in Nat
          <6> HIDE DEF B, L
          <6> QED
            BY <1>1
        <5>2. 0 + s.total = (L - 1) * B + B
          BY <2>4
        <5> QED
          BY <2>4, <5>1, <5>2
      <4>2. n <= w
        BY DEF WholeClusters
      <4> QED
        BY <1>1, <2>4, <2>6, <4>1, <4>2
    <3>5. \E more, y :
             /\ Grown(S, ch, more) /\ Fills(WriteOn(s, buf), S, b, 0, more, y, old, buf)
             /\ WriteOn(s, buf).total = s.total + B /\ WriteOn(s, buf).off = o + B
             /\ more = ch \/ (s.off = bytes_per_cluster /\ i = Len(ch[b]))
      <4>1. s.total < Len(buf) /\ s.total + B <= Len(buf) /\ 0 \in Nat
            /\ o = (IF s.off = bytes_per_cluster THEN 0 ELSE s.off)
        BY <1>1, <2>4, <2>6, <3>2 DEF o
      <4>2. s.off = bytes_per_cluster /\ i = Len(ch[b]) =>
              num_cluster(Len(buf) - s.total) = 1 /\ 1 <= FreeCount(s.fat)
        BY <3>4
      <4> QED
        BY ONLY <2>2, <3>3, <4>1, <4>2, b \in S, buf \in Seq(Byte), WriteOnFills
    <3>6. PICK y : Fills(t, S, b, 0, ch, y, old, buf) /\ t.total = s.total + B /\ t.off = o + B
      BY <3>4, <3>5
    <3> HIDE DEF t
    <3>7. t.off \in {0, B} /\ t.total <= n /\ t.total = (x + 1) * B /\ x + 1 \in Nat
      BY <1>1, <3>1, <3>2, <3>6
    <3>8. Whole(t)
      BY <3>6, <3>7
    <3>9. t.total >= k
      <4> HIDE DEF Whole, B
      <4> QED
        BY <1>1, <2>1, <2>4, <2>6, <3>6
    <3> HIDE DEF Whole
    <3> QED
      BY <2>1, <3>8, <3>9
  <2> QED
    BY <2>5, <2>6
<1> HIDE DEF Whole
<1>6. Whole(run[n]) /\ (run[n].total >= n \/ run[n].total = n)
  <2> HIDE DEF T
  <2>1. \A k \in 0..n : k \in T
    BY <1>1, <1>4, <1>5, RoundsHold
  <2>2. n \in T
    BY <1>1, <2>1
  <2> QED
    BY <2>2 DEF T
<1>7. \E i : Fills(run[n], S, b, 0, ch, i, old, buf)
  BY <1>6 DEF Whole
<1>8. run[n].total = n
  <2>1. run[n].total \in Nat /\ run[n].total <= n
    BY <1>6, <1>7 DEF Fills, Whole
  <2> QED
    BY <1>1, <1>6, <2>1
<1> QED
  BY <1>3, <1>7, <1>8 DEF HasFilled

-----------------------------------------------------------------------------
(* What the descriptors say                                                *)

\* Where an open descriptor is in the file whose entry is e.
HandleSound(r, e, ch) ==
  /\ r.mode = "r" =>
       /\ r.rd_off <= e.file_size
       /\ \/ r.rd_cluster = 0 /\ r.rd_off = 0 /\ r.rd_cluster_off = 0
          \/ r.rd_off = e.file_size
          \/ /\ e.first_cluster # 0
             /\ PointsAt(r.rd_off, r.rd_cluster, r.rd_cluster_off, ch[e.first_cluster])
  /\ r.mode = "w" =>
       /\ r.wr_off <= e.file_size
       /\ \/ r.wr_cluster = 0 /\ r.wr_off = 0 /\ r.wr_cluster_off = 0
          \/ /\ e.first_cluster # 0
             /\ \E j \in 1..Len(ch[e.first_cluster]) :
                  /\ r.wr_cluster = ch[e.first_cluster][j] /\ r.wr_cluster_off \in 0..bytes_per_cluster
                  /\ r.wr_off = (j - 1) * bytes_per_cluster + r.wr_cluster_off

Shared(ds, x, y) == ds[x] # NotOpen /\ ds[y] # NotOpen /\ x # y /\ ds[x].entry = ds[y].entry

\* Bytes are bytes, names are where they are looked for and one file's each, and
\* descriptors are where they say they are; only readers share a file.
TextSound(d, dat, ds, ch) ==
  /\ DataTyped(dat) /\ Ordered(d, ch[root_cluster]) /\ Unique(d)
  /\ \A x \in FD : ds[x] # NotOpen => ds[x] \in FileDescriptor /\ HandleSound(ds[x], At(d, ds[x].entry), ch)
  /\ \A x, y \in FD : Shared(ds, x, y) => ds[x].mode = "r" /\ ds[y].mode = "r"

FilesInv == \E ch : VolumeSound(fat, dir, fds, ch) /\ TextSound(dir, data, fds, ch)

\* A write of no bytes.
LEMMA NothingWritten ==
  ASSUME NEW dat, DataTyped(dat), NEW chain, NEW base, NEW buf
  PROVE  Written(dat, dat, chain, base, 0, buf)
  BY DEF Written

\* A write fills the chain of its file with its bytes, and with no more.
LEMMA WriteFills ==
  ASSUME ~Crossing, NEW ch, VolumeSound(fat, dir, fds, ch), TextSound(dir, data, fds, ch),
         NEW d \in FD, fds[d] # NotOpen, NEW buf, buf \in Seq(Byte), Write(d, buf)
  PROVE  /\ WriteFirst(d, buf) \in Cluster
         /\ IF At(dir, fds[d].entry).first_cluster = 0 THEN WriteFirst(d, buf) \notin Roots(dir)
            ELSE WriteFirst(d, buf) = At(dir, fds[d].entry).first_cluster
         /\ At(dir, fds[d].entry).first_cluster = 0 => fds[d].wr_off = 0
         /\ \E more, j :
              /\ Grown(Roots(dir), ch, more)
              /\ Fills(WriteEnd(d, buf), Roots(dir) \cup {WriteFirst(d, buf)}, WriteFirst(d, buf),
                       fds[d].wr_off, more, j, data, buf)
              /\ WriteEnd(d, buf).total = Len(buf)
<1> DEFINE fd == fds[d]
           e == At(dir, fd.entry)
           len == Len(buf)
           begin == WriteBegin(d, buf)
           first == WriteFirst(d, buf)
           S == Roots(dir)
           n == num_cluster(len)
           fresh == fd.wr_cluster = 0 /\ e.first_cluster = 0
           B == bytes_per_cluster
<1>1. /\ Chained(fat, S, ch) /\ fd.entry \in FilesOf(dir) /\ fd.wr_off \in Nat /\ B \in Nat \ {0}
      /\ len \in Nat /\ DataTyped(data) /\ HandleSound(fd, e, ch) /\ fd.mode = "w"
  <2>1. fd.mode = "w"
    BY DEF Write
  <2>2. len \in Nat
    OBVIOUS
  <2> QED
    BY <2>1, <2>2, FATAssumption DEF VolumeSound, DescriptorSound, TextSound
<1>2. /\ first \in Cluster
      /\ IF e.first_cluster = 0 THEN first \notin S ELSE first = e.first_cluster
  <2>1. Len(buf) = len
    OBVIOUS
  <2> QED
    BY <1>1, WriteStaysInFile DEF WriteFirst, WriteBegin
<1>3. /\ begin.total = 0 /\ begin.off = fd.wr_cluster_off /\ begin.data = data
      /\ fresh => /\ begin.fat = AllocateClusterChain(fat, n).fat
                  /\ begin.cluster = AllocateClusterChain(fat, n).first
      /\ ~fresh => begin.fat = fat
      /\ ~fresh /\ fd.wr_cluster = 0 => begin.cluster = e.first_cluster
      /\ fd.wr_cluster # 0 => begin.cluster = fd.wr_cluster
  BY DEF WriteBegin, Beginning
<1>4. 1 <= FreeCount(fat) /\ FreeCount(fat) \in Nat /\ FreeCount(fat) >= Room(fd, e, n)
  <2>1. /\ FreeClusters(fat) # {} /\ FreeCount(fat) >= Room(fd, e, n)
    BY DEF Write, Entry, At, FreeCount
  <2>2. FreeCount(fat) # 0
    BY <2>1, FreeAreFinite, FS_EmptySet DEF FreeCount
  <2> QED
    BY <2>1, <2>2, FreeAreFinite
<1>5. \/ len <= B - (fd.wr_cluster_off % B)
      \/ fd.wr_off = 0 /\ e.first_cluster = 0 /\ len % B = 0
  BY DEF Write, MayWrite, Entry, At
<1>6. \/ fd.wr_cluster = 0 /\ fd.wr_off = 0 /\ fd.wr_cluster_off = 0
      \/ /\ e.first_cluster # 0
         /\ \E j \in 1..Len(ch[e.first_cluster]) :
              /\ fd.wr_cluster = ch[e.first_cluster][j] /\ fd.wr_cluster_off \in 0..B
              /\ fd.wr_off = (j - 1) * B + fd.wr_cluster_off
  BY <1>1 DEF HandleSound
<1>7. e.first_cluster = 0 => fresh /\ fd.wr_off = 0 /\ fd.wr_cluster_off = 0
  BY <1>6
<1>8. n \in Nat /\ len <= n * B
  BY <1>1, NumCluster
<1>9. WriteEnd(d, buf) = WriteLoop(begin, buf)
  BY DEF WriteEnd
<1> HIDE DEF begin, n, S, e, fd, first
\* A new file.
<1>10. CASE e.first_cluster = 0
  <2>1. fresh /\ fd.wr_off = 0 /\ begin.off = 0 /\ first = begin.cluster /\ begin.cluster = AllocateClusterChain(fat, n).first
    <3>1. first = begin.cluster
      BY <1>7, <1>10 DEF first, WriteFirst, fd, e, begin
    <3> QED
      BY <1>3, <1>7, <1>10, <3>1
  <2>2. n <= FreeCount(fat)
    BY <1>4, <1>8, <2>1 DEF Room
  <2>3. \E more : /\ Chained(begin.fat, S \cup {first}, more) /\ n <= Len(more[first])
                  /\ \A c \in S : more[c] = ch[c]
    <3>1. /\ AllocateClusterChain(fat, n).first \in Cluster \ S
          /\ \E more : /\ Chained(AllocateClusterChain(fat, n).fat,
                                 S \cup {AllocateClusterChain(fat, n).first}, more)
                       /\ n <= Len(more[AllocateClusterChain(fat, n).first])
                       /\ \A c \in S : more[c] = ch[c]
      <4>1. Chained(fat, S, ch) /\ n \in Nat
        BY <1>1, <1>8
      <4> QED
        BY ONLY <1>4, <2>2, <4>1, AllocatesChain, Zenon
    <3>2. begin.fat = AllocateClusterChain(fat, n).fat
      BY <1>3, <2>1
    <3> QED
      BY <2>1, <3>1, <3>2, Zenon
  <2>4. PICK more : /\ Chained(begin.fat, S \cup {first}, more) /\ n <= Len(more[first])
                    /\ \A c \in S : more[c] = ch[c]
    BY <2>3
  <2>5. /\ Len(more[first]) \in Nat \ {0} /\ more[first][1] = first
        /\ \A c \in S \cup {first} : Len(more[c]) \in Nat
    BY <2>4, ChainOf
  <2>6. Fills(begin, S \cup {first}, first, 0, more, 1, data, buf)
    <3>1. 1 \in 1..Len(more[first]) /\ begin.off \in 0..B /\ begin.total \in Nat
          /\ 0 + begin.total = (1 - 1) * B + begin.off
      BY <1>1, <1>3, <2>1, <2>5
    <3>2. Written(data, begin.data, more[first], 0, begin.total, buf)
      BY <1>1, <1>3, NothingWritten
    <3> QED
      BY <2>1, <2>4, <2>5, <3>1, <3>2 DEF Fills
  <2>7. Grown(S, ch, more) /\ first \in S \cup {first}
    <3>1. \A c \in S : Len(ch[c]) \in Nat
      BY <1>1, ChainOf
    <3> QED
      BY <2>4, <3>1 DEF Grown
  <2>8. \E yet, j : /\ Grown(S \cup {first}, more, yet)
                    /\ Fills(WriteLoop(begin, buf), S \cup {first}, first, 0, yet, j, data, buf)
                    /\ WriteLoop(begin, buf).total = Len(buf)
    <3>1. CASE len <= B - (fd.wr_cluster_off % B)
      <4>1. Len(buf) <= bytes_per_cluster - (begin.off % bytes_per_cluster)
        BY <1>3, <3>1
      <4>2. begin.off = bytes_per_cluster => 1 <= FreeCount(begin.fat)
        BY <1>1, <2>1
      <4>3. begin.total = 0 /\ 0 \in Nat
        BY <1>3
      <4> QED
        BY ONLY <2>6, <2>7, <4>1, <4>2, <4>3, buf \in Seq(Byte), WriteOnceFills
    <3>2. CASE len % B = 0
      <4>1. Len(buf) % bytes_per_cluster = 0 /\ begin.total = 0 /\ begin.off = 0
        BY <1>3, <2>1, <3>2
      <4>2. Len(buf) <= Len(more[first]) * bytes_per_cluster
        <5> DEFINE l == Len(more[first])
        <5>1. n <= l /\ l \in Nat
          BY <2>4, <2>5
        <5> HIDE DEF l, len, B
        <5>2. n * B <= l * B /\ n * B \in Nat /\ l * B \in Nat
          BY <1>1, <1>8, <5>1
        <5>3. len <= l * B
          BY <1>1, <1>8, <5>2
        <5> QED
          BY <5>3 DEF l, len, B
      <4>3. \E i : /\ Fills(WriteLoop(begin, buf), S \cup {first}, first, 0, more, i, data, buf)
                   /\ WriteLoop(begin, buf).total = Len(buf)
        <5>1. first \in S \cup {first} /\ begin.total = 0 /\ begin.off = 0
          BY <4>1
        <5>2. WholeClusters(buf, more[first])
          BY <4>1, <4>2 DEF WholeClusters
        <5>3. HasFilled(WriteLoop(begin, buf), S \cup {first}, first, more, data, buf)
          BY ONLY <2>6, <5>1, <5>2, buf \in Seq(Byte), WriteWholeFills
        <5> QED
          BY <5>3 DEF HasFilled
      <4>4. Grown(S \cup {first}, more, more)
        BY <2>5 DEF Grown
      <4> QED
        BY <4>3, <4>4
    <3> QED
      BY <1>5, <3>1, <3>2
  <2>9. PICK yet, j : /\ Grown(S \cup {first}, more, yet)
                      /\ Fills(WriteLoop(begin, buf), S \cup {first}, first, 0, yet, j, data, buf)
                      /\ WriteLoop(begin, buf).total = Len(buf)
    BY <2>8
  <2>10. Grown(S, ch, yet)
    BY <2>4, <2>9 DEF Grown
  <2>11. /\ Grown(S, ch, yet)
         /\ Fills(WriteEnd(d, buf), S \cup {first}, first, fd.wr_off, yet, j, data, buf)
         /\ WriteEnd(d, buf).total = Len(buf)
    BY <1>9, <2>1, <2>9, <2>10
  <2> QED
    BY <1>2, <2>1, <2>11 DEF S, first, fd, e
\* A file that has clusters.
<1>11. CASE e.first_cluster # 0
  <2>1. len <= B - (fd.wr_cluster_off % B) /\ first = e.first_cluster /\ ~fresh
    BY <1>2, <1>5, <1>11
  <2>2. first \in S
    BY <1>1, <1>11, <2>1 DEF Roots, S, e
  <2>3. Len(ch[first]) \in Nat \ {0} /\ ch[first][1] = first /\ \A i \in 1..Len(ch[first]) : ch[first][i] # 0
    BY <1>1, <2>2, ChainOf, EndIsNoCluster
  <2>4. \E j \in 1..Len(ch[first]) :
           /\ begin.cluster = ch[first][j] /\ begin.off \in 0..B /\ fd.wr_off = (j - 1) * B + begin.off
    <3>1. CASE fd.wr_cluster = 0
      <4>1. fd.wr_off = 0 /\ begin.off = 0 /\ begin.cluster = first
        BY <1>3, <1>6, <2>1, <2>3, <3>1
      <4>2. 1 \in 1..Len(ch[first]) /\ 0 = (1 - 1) * B + 0 /\ 0 \in 0..B
        BY <1>1, <2>3
      <4> QED
        BY <2>3, <4>1, <4>2
    <3>2. CASE fd.wr_cluster # 0
      BY <1>3, <1>6, <2>1, <3>2
    <3> QED
      BY <3>1, <3>2
  <2>5. PICK j \in 1..Len(ch[first]) :
           /\ begin.cluster = ch[first][j] /\ begin.off \in 0..B /\ fd.wr_off = (j - 1) * B + begin.off
    BY <2>4
  <2>6. Fills(begin, S, first, fd.wr_off, ch, j, data, buf)
    <3>1. begin.total \in Nat /\ fd.wr_off + begin.total = (j - 1) * B + begin.off
      BY <1>1, <1>3, <2>5
    <3>2. Written(data, begin.data, ch[first], fd.wr_off, begin.total, buf)
      BY <1>1, <1>3, NothingWritten
    <3> QED
      BY <1>1, <1>3, <2>1, <2>5, <3>1, <3>2 DEF Fills
  <2>7. \E more, i : /\ Grown(S, ch, more)
                     /\ Fills(WriteLoop(begin, buf), S, first, fd.wr_off, more, i, data, buf)
                     /\ WriteLoop(begin, buf).total = Len(buf)
    <3>1. Len(buf) <= bytes_per_cluster - (begin.off % bytes_per_cluster)
      BY <1>3, <2>1
    <3>2. begin.off = bytes_per_cluster => 1 <= FreeCount(begin.fat)
      BY <1>3, <1>4, <2>1
    <3>3. begin.total = 0 /\ fd.wr_off \in Nat
      BY <1>1, <1>3
    <3> QED
      BY ONLY <2>2, <2>6, <3>1, <3>2, <3>3, buf \in Seq(Byte), WriteOnceFills
  <2>8. S \cup {first} = S
    BY <2>2
  <2> QED
    BY <1>2, <1>9, <1>11, <2>7, <2>8 DEF S, first, fd, e
<1> QED
  BY <1>10, <1>11

\* A descriptor stands where it stood when chains grow.
LEMMA HandleKept ==
  ASSUME NEW S, NEW ch, NEW more, Grown(S, ch, more), \A c \in S : Len(ch[c]) \in Nat /\ Len(more[c]) \in Nat,
         NEW r \in FileDescriptor, NEW e, e.first_cluster \in S \cup {0}, e.file_size \in Nat,
         e.file_size <= Holds(e, ch), HandleSound(r, e, ch)
  PROVE  HandleSound(r, e, more)
<1> DEFINE c == e.first_cluster
           L == Len(ch[c])
           B == bytes_per_cluster
<1>1. r.rd_off \in Nat /\ B \in Nat \ {0}
  BY FATAssumption DEF FileDescriptor
<1>2. c # 0 => /\ L \in Nat /\ Len(more[c]) \in Nat /\ L <= Len(more[c])
              /\ \A i \in 1..L : i \in 1..Len(more[c]) /\ more[c][i] = ch[c][i]
  BY DEF Grown
<1>3. ASSUME c # 0, r.rd_off <= e.file_size, PointsAt(r.rd_off, r.rd_cluster, r.rd_cluster_off, ch[c])
      PROVE  \/ r.rd_off = e.file_size
             \/ PointsAt(r.rd_off, r.rd_cluster, r.rd_cluster_off, more[c])
  <2>1. PICK q \in 0..L : /\ r.rd_off = q * B + r.rd_cluster_off
                          /\ r.rd_cluster = IF q < L THEN ch[c][q + 1] ELSE kEndOfClusterchain
    BY <1>3 DEF PointsAt
  <2>2. r.rd_cluster_off \in 0..B - 1
    BY <1>3 DEF PointsAt
  <2>3. CASE q < L
    <3>1. q + 1 \in 1..L /\ q \in 0..Len(more[c]) /\ q < Len(more[c])
      BY <1>2, <1>3, <2>3
    <3>2. r.rd_cluster = more[c][q + 1]
      BY <1>2, <1>3, <2>1, <2>3, <3>1
    <3> QED
      BY <2>1, <2>2, <3>1, <3>2 DEF PointsAt
  <2>4. CASE ~(q < L)
    <3> DEFINE v == L * B
    <3>1. q = L /\ r.rd_off = v + r.rd_cluster_off
      BY <1>2, <1>3, <2>1, <2>4
    <3>2. v \in Nat /\ B * L = v
      <4>1. L \in Nat
        BY <1>2, <1>3
      <4> HIDE DEF L, B
      <4> QED
        BY <1>1, <4>1
    <3>3. e.file_size <= v
      BY <1>3, <3>2 DEF Holds
    <3> HIDE DEF v
    <3>4. v <= r.rd_off
      BY <1>1, <2>2, <3>1, <3>2
    <3> QED
      BY <1>1, <1>3, <3>2, <3>3, <3>4
  <2> QED
    BY <2>3, <2>4
<1>4. ASSUME r.mode = "w" PROVE
      /\ r.wr_off <= e.file_size
      /\ \/ r.wr_cluster = 0 /\ r.wr_off = 0 /\ r.wr_cluster_off = 0
         \/ /\ c # 0
            /\ \E j \in 1..Len(more[c]) :
                 /\ r.wr_cluster = more[c][j] /\ r.wr_cluster_off \in 0..B
                 /\ r.wr_off = (j - 1) * B + r.wr_cluster_off
  BY <1>2, <1>4 DEF HandleSound
<1>5. ASSUME r.mode = "r" PROVE
      /\ r.rd_off <= e.file_size
      /\ \/ r.rd_cluster = 0 /\ r.rd_off = 0 /\ r.rd_cluster_off = 0
         \/ r.rd_off = e.file_size
         \/ c # 0 /\ PointsAt(r.rd_off, r.rd_cluster, r.rd_cluster_off, ch[c])
  BY <1>5 DEF HandleSound
<1> QED
  BY <1>3, <1>4, <1>5 DEF HandleSound

\* A descriptor that is new is at the start of its file.
LEMMA NewIsSound ==
  ASSUME NEW p \in Places, NEW mode \in Mode, NEW e, e.file_size \in Nat, NEW ch
  PROVE  NewDescriptor(p, mode) \in FileDescriptor /\ HandleSound(NewDescriptor(p, mode), e, ch)
<1>1. 0 \in Nat /\ 0 \in Int /\ 0 <= e.file_size
  OBVIOUS
<1> QED
  BY <1>1 DEF NewDescriptor, FileDescriptor, HandleSound, Places

\* What the promise of the file system sees of descriptors.
HandleOf(r, d) ==
  IF r = NotOpen THEN NotOpen
  ELSE [name |-> At(d, r.entry).name, rd_off |-> r.rd_off, wr_off |-> r.wr_off]
Handles(ds, d) == [x \in FD |-> HandleOf(ds[x], d)]

\* One descriptor is changed, and it is seen as one.
LEMMA OneHandle ==
  ASSUME NEW ds, NEW after, NEW x \in FD, \A y \in FD \ {x} : after[y] = ds[y],
         NEW d, NEW new, \A y \in FD \ {x} : ds[y] # NotOpen => At(new, ds[y].entry).name = At(d, ds[y].entry).name
  PROVE  Handles(after, new) = [Handles(ds, d) EXCEPT ![x] = HandleOf(after[x], new)]
<1>1. \A y \in FD \ {x} : HandleOf(after[y], new) = HandleOf(ds[y], d)
  BY DEF HandleOf
<1> QED
  BY <1>1 DEF Handles

\* What is seen of an open descriptor.
LEMMA HandleIs ==
  ASSUME NEW d, NEW x \in FD, NEW ds, ds[x] # NotOpen
  PROVE  /\ Handles(ds, d)[x] = [name |-> At(d, ds[x].entry).name, rd_off |-> ds[x].rd_off, wr_off |-> ds[x].wr_off]
         /\ Handles(ds, d)[x].name = At(d, ds[x].entry).name
         /\ Handles(ds, d)[x].rd_off = ds[x].rd_off /\ Handles(ds, d)[x].wr_off = ds[x].wr_off
         /\ x \in DOMAIN Handles(ds, d)
  BY DEF Handles, HandleOf

\* A handle among others, and moved by a read or a write of n bytes.
Handle(name, rd_off, wr_off) == [name |-> name, rd_off |-> rd_off, wr_off |-> wr_off]
WithHandle(h, d, x) == [h EXCEPT ![d] = x]
ReadOf(h, d, n) == [h EXCEPT ![d].rd_off = @ + n]
WrittenOf(h, d, n) == [h EXCEPT ![d].wr_off = @ + n]

\* It is moved on.
LEMMA HandleMoved ==
  ASSUME NEW h, NEW d \in DOMAIN h, NEW name, NEW a, NEW b, h[d] = Handle(name, a, b), NEW n
  PROVE  /\ ReadOf(h, d, n) = WithHandle(h, d, Handle(name, a + n, b))
         /\ WrittenOf(h, d, n) = WithHandle(h, d, Handle(name, a, b + n))
<1> DEFINE r == h[d]
           x == [r EXCEPT !.rd_off = @ + n]
           y == [r EXCEPT !.wr_off = @ + n]
<1>1. ReadOf(h, d, n) = WithHandle(h, d, x) /\ WrittenOf(h, d, n) = WithHandle(h, d, y)
  BY DEF ReadOf, WrittenOf, WithHandle
<1>2. r = Handle(name, a, b)
  OBVIOUS
<1> HIDE DEF r
<1>3. x = Handle(name, a + n, b) /\ y = Handle(name, a, b + n)
  BY <1>2 DEF Handle
<1> HIDE DEF x, y
<1> QED
  BY <1>1, <1>3

\* Open descriptors are open to see.
LEMMA OpenIsSeen ==
  ASSUME NEW d, NEW ds, NEW x \in FD, ds[x] \in FileDescriptor, ds[x] # NotOpen, At(d, ds[x].entry).name \in Name
  PROVE  Handles(ds, d)[x] # NotOpen
<1>1. ds[x].rd_off \in Nat /\ ds[x].wr_off \in Nat
  BY DEF FileDescriptor
<1>2. Handles(ds, d)[x] \in [name : Name, rd_off : Nat, wr_off : Nat]
  <2>1. Handles(ds, d)[x] = [name |-> At(d, ds[x].entry).name, rd_off |-> ds[x].rd_off, wr_off |-> ds[x].wr_off]
    BY ONLY x \in FD, ds[x] # NotOpen, HandleIs
  <2> QED
    BY <1>1, <2>1
<1> QED
  BY <1>2, FATDistinct

\* One file is new, or has another content.
LEMMA ContentsChange ==
  ASSUME NEW f, NEW S, NEW ch, Chained(f, S, ch), root_cluster \in S, NEW dat,
         NEW d, DirectorySound(d, ch), Ordered(d, ch[root_cluster]), Unique(d),
         NEW table, NEW R, NEW more, Chained(table, R, more), root_cluster \in R, NEW after,
         NEW new, DirectorySound(new, more), Ordered(new, more[root_cluster]), Unique(new),
         NEW p, FilesOf(new) = FilesOf(d) \cup {p},
         NEW n, At(new, p).name = n, p \in FilesOf(d) => At(d, p).name = n,
         \A q \in FilesOf(d) \ {p} :
            /\ At(new, q).name = At(d, q).name
            /\ ContentIn(table, after, At(new, q)) = ContentIn(f, dat, At(d, q))
  PROVE  ContentsIn(table, after, new) = [ContentsIn(f, dat, d) EXCEPT ![n] = ContentIn(table, after, At(new, p))]
<1> DEFINE X == ContentsIn(f, dat, d)
           Y == ContentsIn(table, after, new)
           text == ContentIn(table, after, At(new, p))
<1>1. /\ \A q \in FilesOf(d) : At(d, q).name \in Name /\ X[At(d, q).name] = ContentIn(f, dat, At(d, q))
      /\ \A m \in Name : (\A q \in FilesOf(d) : At(d, q).name # m) => X[m] = NoFile
  BY ContentsAre
<1>2. /\ \A q \in FilesOf(new) : At(new, q).name \in Name /\ Y[At(new, q).name] = ContentIn(table, after, At(new, q))
      /\ \A m \in Name : (\A q \in FilesOf(new) : At(new, q).name # m) => Y[m] = NoFile
  BY ContentsAre
<1>3. X = [m \in Name |-> X[m]] /\ Y = [m \in Name |-> Y[m]]
  BY DEF ContentsIn
<1>4. Y[n] = text
  BY <1>2
<1> HIDE DEF X, Y
<1>5. ASSUME NEW m \in Name \ {n} PROVE Y[m] = X[m]
  <2>1. CASE \E q \in FilesOf(d) : At(d, q).name = m
    <3>1. PICK q \in FilesOf(d) : At(d, q).name = m
      BY <2>1
    <3>2. q # p /\ q \in FilesOf(new)
      BY <3>1
    <3> QED
      BY <1>1, <1>2, <3>1, <3>2
  <2>2. CASE \A q \in FilesOf(d) : At(d, q).name # m
    <3>1. \A q \in FilesOf(new) : At(new, q).name # m
      BY <2>2
    <3> QED
      BY <1>1, <1>2, <2>2, <3>1
  <2> QED
    BY <2>1, <2>2
<1> HIDE DEF text
<1>6. Y = [X EXCEPT ![n] = text]
  <2> DEFINE Z == [X EXCEPT ![n] = text]
  <2>1. DOMAIN X = Name /\ DOMAIN Y = Name
    BY <1>3
  <2>2. Z = [m \in Name |-> IF m = n THEN text ELSE X[m]]
    BY <2>1
  <2>3. \A m \in Name : Y[m] = IF m = n THEN text ELSE X[m]
    BY <1>4, <1>5
  <2>4. Y = [m \in Name |-> Y[m]]
    BY <1>3
  <2> HIDE DEF Z
  <2>5. Y = [m \in Name |-> IF m = n THEN text ELSE X[m]]
    BY ONLY <2>3, <2>4
  <2>6. Y = Z
    BY <2>2, <2>5
  <2> QED
    BY <2>6 DEF Z
<1> QED
  BY <1>6 DEF X, Y, text

-----------------------------------------------------------------------------
(* The steps that the promise sees                                         *)

\* What is seen of a call is what the promise says of it.
LEMMA CloseSeen ==
  ASSUME NEW d \in FD, out' = <<>>, Contents' = Contents,
         Handles(fds', dir') = [Handles(fds, dir) EXCEPT ![d] = NotOpen]
  PROVE  Volume!Close(d)
  BY DEF Volume!Close, Handles, HandleOf, Entry, At

\* What Read changes is what Files says.
LEMMA ReadSeen ==
  ASSUME NEW d \in FD, NEW len, Contents' = Contents,
         out' = Volume!Part(Contents[Handles(fds, dir)[d].name], Handles(fds, dir)[d].rd_off, len),
         Handles(fds', dir') = [Handles(fds, dir) EXCEPT ![d].rd_off = @ + Len(out')]
  PROVE  Volume!Read(d, len)
  BY DEF Volume!Read, Handles, HandleOf, Entry, At

\* The same of Load.
LEMMA LoadSeen ==
  ASSUME NEW d \in FD, NEW len, NEW offset, Contents' = Contents,
         out' = Volume!Part(Contents[Handles(fds, dir)[d].name], offset, len),
         Handles(fds', dir') = Handles(fds, dir)
  PROVE  Volume!Load(d, len, offset)
  BY DEF Volume!Load, Handles, HandleOf, Entry, At

\* The same of Open.
LEMMA OpenSeen ==
  ASSUME NEW d \in FD, NEW n \in Name, out' = <<>>,
         Handles(fds', dir') = [Handles(fds, dir) EXCEPT ![d] = [name |-> n, rd_off |-> 0, wr_off |-> 0]],
         Contents' = IF Contents[n] = NoFile THEN [Contents EXCEPT ![n] = <<>>] ELSE Contents
  PROVE  Volume!Open(d, n)
  BY DEF Volume!Open, Handles, HandleOf, Entry, At

\* The same of Write.
LEMMA WriteSeen ==
  ASSUME NEW d \in FD, NEW buf, out' = <<>>,
         Handles(fds', dir') = [Handles(fds, dir) EXCEPT ![d].wr_off = @ + Len(buf)],
         Contents' = [Contents EXCEPT ![Handles(fds, dir)[d].name] =
                        SubSeq(@, 1, Handles(fds, dir)[d].wr_off) \o buf]
  PROVE  Volume!Write(d, buf)
  BY DEF Volume!Write, Handles, HandleOf, Entry, At

\* When nothing changes, nothing is seen.
LEMMA NothingSeen ==
  ASSUME UNCHANGED fatVars
  PROVE  UNCHANGED Volume!vars /\ (FilesInv => FilesInv')
<1>1. fat' = fat /\ data' = data /\ dir' = dir /\ fds' = fds /\ out' = out
  BY DEF fatVars
<1>2. Contents' = Contents
  BY <1>1, ContentsOfVolume
<1>3. FilesInv => FilesInv'
  BY <1>1 DEF FilesInv
<1> QED
  BY <1>1, <1>2, <1>3 DEF Volume!vars, Entry

\* What a volume says of a file.
LEMMA FileIs ==
  ASSUME NEW f, NEW d, NEW ds, NEW ch, VolumeSound(f, d, ds, ch), NEW p \in FilesOf(d)
  PROVE  /\ Chained(f, Roots(d), ch) /\ root_cluster \in Roots(d) /\ DirectorySound(d, ch)
         /\ At(d, p).file_size \in Nat /\ At(d, p).first_cluster \in Roots(d) \cup {0}
         /\ At(d, p).file_size <= Holds(At(d, p), ch) /\ At(d, p).name \in Name /\ p \in Places
<1>1. p \in Places /\ At(d, p).name \in Name
  BY DEF FilesOf
<1>2. At(d, p).file_size \in Nat
  BY <1>1, EntryTyped DEF VolumeSound, DirectorySound
<1> QED
  BY <1>1, <1>2 DEF VolumeSound, DirectorySound, Roots

\* One descriptor is another.
LEMMA OneSound ==
  ASSUME NEW d, NEW dat, NEW ds, NEW ch, TextSound(d, dat, ds, ch), NEW x \in FD,
         NEW after, \A y \in FD \ {x} : after[y] = ds[y],
         after[x] # NotOpen =>
           /\ after[x] \in FileDescriptor /\ HandleSound(after[x], At(d, after[x].entry), ch)
           /\ \A y \in FD \ {x} : ds[y] # NotOpen /\ ds[y].entry = after[x].entry =>
                after[x].mode = "r" /\ ds[y].mode = "r"
  PROVE  TextSound(d, dat, after, ch)
<1>1. \A y \in FD : after[y] # NotOpen => after[y] \in FileDescriptor /\ HandleSound(after[y], At(d, after[y].entry), ch)
  BY DEF TextSound
<1>2. \A y, z \in FD : Shared(after, y, z) => after[y].mode = "r" /\ after[z].mode = "r"
  <2> SUFFICES ASSUME NEW y \in FD, NEW z \in FD, Shared(after, y, z)
               PROVE  after[y].mode = "r" /\ after[z].mode = "r"
    OBVIOUS
  <2>1. CASE y # x /\ z # x
    <3>1. Shared(ds, y, z)
      BY <2>1 DEF Shared
    <3> QED
      BY <2>1, <3>1 DEF TextSound
  <2>2. CASE y = x \/ z = x
    BY <2>2 DEF Shared
  <2> QED
    BY <2>1, <2>2
<1> QED
  BY <1>1, <1>2 DEF TextSound

\* Close keeps the volume sound and closes as Files does.
LEMMA CloseSteps ==
  ASSUME FilesInv, NEW d \in FD, Close(d)
  PROVE  FilesInv' /\ Volume!Close(d)
<1>1. PICK ch : VolumeSound(fat, dir, fds, ch) /\ TextSound(dir, data, fds, ch)
  BY DEF FilesInv
<1>2. /\ fat' = fat /\ dir' = dir /\ data' = data /\ out' = <<>> /\ DOMAIN fds' = FD /\ fds'[d] = NotOpen
      /\ \A y \in FD \ {d} : fds'[y] = fds[y]
  BY <1>1 DEF Close, VolumeSound
<1>3. VolumeSound(fat, dir, fds', ch)
  BY <1>1, <1>2, OneDescriptor
<1>4. TextSound(dir, data, fds', ch)
  BY <1>1, <1>2, OneSound
<1>5. FilesInv'
  BY <1>2, <1>3, <1>4 DEF FilesInv
<1>6. Contents' = Contents
  BY <1>2, ContentsOfVolume
<1>7. Handles(fds', dir') = [Handles(fds, dir) EXCEPT ![d] = HandleOf(fds'[d], dir')]
  BY <1>2, OneHandle
<1>8. HandleOf(fds'[d], dir') = NotOpen
  BY <1>2 DEF HandleOf
<1> QED
  BY <1>2, <1>5, <1>6, <1>7, <1>8, CloseSeen

\* Load returns the part of the contents that Files says.
LEMMA LoadSteps ==
  ASSUME FilesInv, NEW d \in FD, fds[d] # NotOpen, NEW len \in Nat, NEW offset \in Nat, Load(d, len, offset)
  PROVE  FilesInv' /\ Volume!Load(d, len, offset)
<1>1. PICK ch : VolumeSound(fat, dir, fds, ch) /\ TextSound(dir, data, fds, ch)
  BY DEF FilesInv
<1>2. fat' = fat /\ dir' = dir /\ data' = data /\ fds' = fds
  BY DEF Load
<1>3. FilesInv'
  BY <1>1, <1>2 DEF FilesInv
<1> DEFINE p == fds[d].entry
           e == Entry(p)
<1>4. p \in FilesOf(dir) /\ e = At(dir, p)
  BY <1>1 DEF VolumeSound, DescriptorSound, Entry, At
<1>5. /\ Chained(fat, Roots(dir), ch) /\ root_cluster \in Roots(dir) /\ DirectorySound(dir, ch)
      /\ e.file_size \in Nat /\ e.first_cluster \in Roots(dir) \cup {0} /\ e.file_size <= Holds(e, ch)
  BY <1>1, <1>4, FileIs
<1>6. DataTyped(data) /\ Ordered(dir, ch[root_cluster]) /\ Unique(dir)
  BY <1>1 DEF TextSound
<1>7. out' = Volume!Part(ContentIn(fat, data, e), offset, len)
  BY <1>5, <1>6, LoadReads
<1>8. Contents[Handles(fds, dir)[d].name] = ContentIn(fat, data, e)
  <2>1. ContentsIn(fat, data, dir)[At(dir, p).name] = ContentIn(fat, data, At(dir, p))
    BY <1>4, <1>5, <1>6, ContentsAre
  <2>2. Handles(fds, dir)[d].name = At(dir, p).name
    BY DEF Handles, HandleOf
  <2> QED
    BY <1>4, <2>1, <2>2, ContentsOfVolume
<1>9. Contents' = Contents
  BY <1>2, ContentsOfVolume
<1> HIDE DEF e, p
<1>10. out' = Volume!Part(Contents[Handles(fds, dir)[d].name], offset, len)
  BY <1>7, <1>8
<1>11. Handles(fds', dir') = Handles(fds, dir)
  BY <1>2
<1>12. Volume!Load(d, len, offset)
  BY ONLY d \in FD, <1>9, <1>10, <1>11, LoadSeen
<1> QED
  BY <1>3, <1>12

\* Where a read goes on is where its descriptor is, or there is nothing to read.
LEMMA ReaderIsThere ==
  ASSUME NEW f, NEW S, NEW ch, Chained(f, S, ch), NEW e, e.file_size \in Nat, e.first_cluster \in S \cup {0},
         e.file_size <= Holds(e, ch), NEW r, r.mode = "r", HandleSound(r, e, ch)
  PROVE  \/ r.rd_off = e.file_size
         \/ PointsAt(r.rd_off, IF r.rd_cluster = 0 THEN e.first_cluster ELSE r.rd_cluster,
                     r.rd_cluster_off, ch[e.first_cluster])
<1> DEFINE c == e.first_cluster
<1>1. bytes_per_cluster \in Nat \ {0}
  BY FATAssumption
<1>2. CASE r.rd_cluster = 0 /\ r.rd_off = 0 /\ r.rd_cluster_off = 0 /\ e.file_size # 0
  <2>1. c # 0 /\ c \in S
    BY <1>2 DEF Holds
  <2>2. Len(ch[c]) \in Nat \ {0} /\ ch[c][1] = c
    BY <2>1, ChainOf
  <2>3. 0 \in 0..Len(ch[c]) /\ 0 < Len(ch[c]) /\ 0 + 1 = 1 /\ 0 \in 0..bytes_per_cluster - 1
        /\ 0 = 0 * bytes_per_cluster + 0
    BY <1>1, <2>2
  <2>4. PointsAt(0, c, 0, ch[c])
    BY <2>2, <2>3 DEF PointsAt
  <2> QED
    BY <1>2, <2>4
<1>3. CASE c # 0 /\ PointsAt(r.rd_off, r.rd_cluster, r.rd_cluster_off, ch[c])
  <2>1. c \in S
    BY <1>3
  <2>2. \A i \in 1..Len(ch[c]) : ch[c][i] # 0
    BY <2>1, ChainOf, EndIsNoCluster
  <2>3. Len(ch[c]) \in Nat
    BY <2>1, ChainOf
  <2>4. r.rd_cluster # 0
    BY <1>3, <2>2, <2>3, EndIsNoCluster DEF PointsAt
  <2> QED
    BY <1>3, <2>4
<1> QED
  BY <1>2, <1>3 DEF HandleSound

\* Where a descriptor points is a number, the end of the chain included.
LEMMA PointsTyped ==
  ASSUME NEW f, NEW S, NEW ch, Chained(f, S, ch), NEW b \in S, NEW m, NEW c, NEW o, PointsAt(m, c, o, ch[b])
  PROVE  c \in Int /\ o \in Nat
<1>1. /\ Len(ch[b]) \in Nat /\ \A i \in 1..Len(ch[b]) : ch[b][i] \in Cluster
  BY ChainOf
<1>2. PICK q \in 0..Len(ch[b]) : c = IF q < Len(ch[b]) THEN ch[b][q + 1] ELSE kEndOfClusterchain
  BY DEF PointsAt
<1>3. q < Len(ch[b]) => q + 1 \in 1..Len(ch[b])
  BY <1>1
<1>4. c \in Int
  BY <1>1, <1>2, <1>3 DEF Cluster, kEndOfClusterchain
<1>5. o \in Nat
  BY FATAssumption DEF PointsAt
<1> QED
  BY <1>4, <1>5

\* Read returns what follows in the contents, and stands behind it.
LEMMA ReadSteps ==
  ASSUME FilesInv, NEW d \in FD, fds[d] # NotOpen, NEW len \in Nat, Read(d, len)
  PROVE  FilesInv' /\ Volume!Read(d, len)
<1>1. PICK ch : VolumeSound(fat, dir, fds, ch) /\ TextSound(dir, data, fds, ch)
  BY DEF FilesInv
<1> DEFINE r == fds[d]
           p == r.entry
           e == At(dir, p)
           from == IF r.rd_cluster = 0 THEN e.first_cluster ELSE r.rd_cluster
           end == ReadFrom(e, r.rd_cluster, r.rd_cluster_off, r.rd_off, len)
           s == ch[e.first_cluster]
<1>2. /\ fat' = fat /\ dir' = dir /\ data' = data /\ out' = end.buf /\ r.mode = "r"
      /\ fds' = [fds EXCEPT ![d].rd_cluster = end.cluster, ![d].rd_cluster_off = end.off,
                            ![d].rd_off = @ + Len(end.buf)]
  BY DEF Read, Entry, At
<1>3. p \in FilesOf(dir) /\ DOMAIN fds = FD /\ DescriptorSound(r, dir, ch)
  BY <1>1 DEF VolumeSound, DescriptorSound
<1>4. r \in FileDescriptor /\ HandleSound(r, e, ch)
  BY <1>1 DEF TextSound
<1>5. /\ Chained(fat, Roots(dir), ch) /\ root_cluster \in Roots(dir) /\ DirectorySound(dir, ch)
      /\ e.file_size \in Nat /\ e.first_cluster \in Roots(dir) \cup {0} /\ e.file_size <= Holds(e, ch)
  BY <1>1, <1>3, FileIs
<1>6. DataTyped(data) /\ Ordered(dir, ch[root_cluster]) /\ Unique(dir)
  BY <1>1 DEF TextSound
<1>7. r.rd_off \in Nat /\ r.rd_cluster \in Int /\ r.rd_cluster_off \in Nat /\ r.wr_off \in Nat
  BY <1>4 DEF FileDescriptor
<1> HIDE DEF end, e, r, p, s, from
<1>8. r.rd_off = e.file_size \/ PointsAt(r.rd_off, from, r.rd_cluster_off, s)
  BY <1>2, <1>4, <1>5, ReaderIsThere DEF from, s
<1>9. r.rd_off <= e.file_size
  BY <1>2, <1>4 DEF HandleSound
<1>10. /\ end.buf = Volume!Part(ContentIn(fat, data, e), r.rd_off, len)
       /\ Len(end.buf) \in Nat /\ r.rd_off + Len(end.buf) <= e.file_size
       /\ PointsAt(r.rd_off, from, r.rd_cluster_off, s) =>
            PointsAt(r.rd_off + Len(end.buf), end.cluster, end.off, s)
       /\ r.rd_off = e.file_size => end = [buf |-> <<>>, cluster |-> from, off |-> r.rd_cluster_off]
  <2>1. \/ r.rd_off = e.file_size
        \/ PointsAt(r.rd_off, IF r.rd_cluster = 0 THEN e.first_cluster ELSE r.rd_cluster,
                    r.rd_cluster_off, ch[e.first_cluster])
    BY <1>8 DEF from, s
  <2> QED
    BY <1>5, <1>6, <1>7, <1>9, <2>1, len \in Nat, ReadFromReads DEF end, from, s
<1>11. \/ r.rd_off + Len(end.buf) = e.file_size
       \/ e.first_cluster # 0 /\ PointsAt(r.rd_off + Len(end.buf), end.cluster, end.off, s)
  <2>1. CASE r.rd_off = e.file_size
    BY <1>7, <1>9, <1>10, <2>1
  <2>2. CASE r.rd_off # e.file_size
    <3>1. e.file_size # 0
      BY <1>7, <1>9, <2>2
    <3>2. e.first_cluster # 0
      BY <1>5, <3>1 DEF Holds
    <3> QED
      BY <1>8, <1>10, <2>2, <3>2
  <2> QED
    BY <2>1, <2>2
<1>12. end.cluster \in Int /\ end.off \in Nat
  <2>1. CASE r.rd_off = e.file_size
    <3>1. end.cluster = from /\ end.off = r.rd_cluster_off
      BY <1>10, <2>1
    <3>2. e.first_cluster \in Int
      BY <1>5 DEF Chained, Cluster
    <3> QED
      BY <1>7, <3>1, <3>2 DEF from
  <2>2. CASE r.rd_off # e.file_size
    <3>1. PointsAt(r.rd_off + Len(end.buf), end.cluster, end.off, s)
      BY <1>8, <1>10, <2>2
    <3>2. e.first_cluster \in Roots(dir)
      <4>1. e.file_size # 0
        BY <1>7, <1>9, <2>2
      <4> QED
        BY <1>5, <4>1 DEF Holds
    <3> QED
      BY <1>5, <3>1, <3>2, PointsTyped DEF s
  <2> QED
    BY <2>1, <2>2
\* The descriptor, and the others.
<1>13. fds[d] = r
  BY DEF r
<1>14. /\ DOMAIN fds' = FD /\ \A y \in FD \ {d} : fds'[y] = fds[y]
       /\ fds'[d] = [r EXCEPT !.rd_cluster = end.cluster, !.rd_cluster_off = end.off, !.rd_off = @ + Len(end.buf)]
  BY <1>2, <1>3 DEF r
<1>15. /\ fds'[d] \in FileDescriptor
       /\ fds'[d].entry = r.entry /\ fds'[d].mode = r.mode
       /\ fds'[d].wr_off = r.wr_off /\ fds'[d].wr_cluster = r.wr_cluster /\ fds'[d].wr_cluster_off = r.wr_cluster_off
       /\ fds'[d].rd_cluster = end.cluster /\ fds'[d].rd_cluster_off = end.off
       /\ fds'[d].rd_off = r.rd_off + Len(end.buf)
  <2>1. r.rd_off + Len(end.buf) \in Nat
    BY <1>7, <1>10
  <2> QED
    BY <1>4, <1>12, <1>14, <2>1 DEF FileDescriptor
<1>16. fds'[d] # NotOpen
  BY <1>15, FATDistinct
<1>17. VolumeSound(fat, dir, fds', ch)
  <2>1. DOMAIN fds'[d] = DOMAIN r
    BY <1>14
  <2>2. DescriptorSound(fds'[d], dir, ch)
    BY <1>3, <1>15, <2>1 DEF DescriptorSound, WritesAt
  <2> QED
    BY <1>1, <1>14, <2>2, OneDescriptor
<1>18. HandleSound(fds'[d], At(dir, fds'[d].entry), ch)
  <2>1. At(dir, fds'[d].entry) = e
    BY <1>15 DEF e, p
  <2> QED
    BY <1>2, <1>10, <1>11, <1>15, <2>1 DEF HandleSound, s
<1>19. TextSound(dir, data, fds', ch)
  <2>1. ASSUME NEW y \in FD \ {d}, fds[y] # NotOpen, fds[y].entry = fds'[d].entry
        PROVE  fds'[d].mode = "r" /\ fds[y].mode = "r"
    <3>1. Shared(fds, d, y)
      BY <1>13, <1>15, <2>1 DEF Shared
    <3> QED
      BY <1>1, <1>2, <1>15, <2>1, <3>1 DEF TextSound
  <2>2. fds'[d] # NotOpen =>
          /\ fds'[d] \in FileDescriptor /\ HandleSound(fds'[d], At(dir, fds'[d].entry), ch)
          /\ \A y \in FD \ {d} : fds[y] # NotOpen /\ fds[y].entry = fds'[d].entry =>
               fds'[d].mode = "r" /\ fds[y].mode = "r"
    BY <1>15, <1>18, <2>1
  <2> QED
    BY ONLY <1>1, <1>14, <2>2, d \in FD, OneSound
<1>20. FilesInv'
  BY <1>2, <1>17, <1>19 DEF FilesInv
\* What is seen.
<1> DEFINE h == Handles(fds, dir)
<1>21. Contents' = Contents
  BY <1>2, ContentsOfVolume
<1>22. /\ h[d] = [name |-> e.name, rd_off |-> r.rd_off, wr_off |-> r.wr_off] /\ d \in DOMAIN h
  BY <1>13 DEF Handles, HandleOf, e, p
<1>23. Contents[h[d].name] = ContentIn(fat, data, e) /\ h[d].rd_off = r.rd_off
  <2>1. ContentsIn(fat, data, dir)[e.name] = ContentIn(fat, data, e)
    BY <1>3, <1>5, <1>6, ContentsAre DEF e
  <2> QED
    BY <1>22, <2>1, ContentsOfVolume
<1>24. Handles(fds', dir') = [h EXCEPT ![d] = HandleOf(fds'[d], dir')]
  <2>1. \A y \in FD \ {d} : fds[y] # NotOpen => At(dir', fds[y].entry).name = At(dir, fds[y].entry).name
    BY <1>2
  <2> QED
    BY ONLY <1>14, <2>1, d \in FD, OneHandle
<1>25. HandleOf(fds'[d], dir') = [name |-> e.name, rd_off |-> r.rd_off + Len(out'), wr_off |-> r.wr_off]
  BY <1>2, <1>15, <1>16 DEF HandleOf, e, p
<1> HIDE DEF h
<1>26. Handles(fds', dir') = [h EXCEPT ![d].rd_off = @ + Len(out')]
  <2>1. h[d] = Handle(e.name, r.rd_off, r.wr_off) /\ d \in DOMAIN h
    BY <1>22 DEF Handle
  <2>2. ReadOf(h, d, Len(out')) = WithHandle(h, d, Handle(e.name, r.rd_off + Len(out'), r.wr_off))
    BY ONLY <2>1, HandleMoved
  <2>3. Handles(fds', dir') = WithHandle(h, d, Handle(e.name, r.rd_off + Len(out'), r.wr_off))
    BY <1>24, <1>25 DEF WithHandle, Handle
  <2> QED
    BY <2>2, <2>3 DEF ReadOf
<1>27. out' = Volume!Part(Contents[h[d].name], h[d].rd_off, len)
  BY <1>2, <1>10, <1>23
<1>28. Volume!Read(d, len)
  BY ONLY d \in FD, <1>21, <1>26, <1>27, ReadSeen DEF h
<1> QED
  BY <1>20, <1>28

\* Where the first unused entry, or the first of a new cluster, is taken, the
\* entries stay in order.
LEMMA TakenInOrder ==
  ASSUME NEW r, Distinct(r), NEW d, Ordered(d, r), NEW k \in Spots(r),
         \A i \in 1..k - 1 : At(d, Spot(r, i)).name \in Name,
         NEW new, \A q \in Places \ {Spot(r, k)} : At(new, q) = At(d, q), At(new, Spot(r, k)).name \in Name
  PROVE  Ordered(new, r)
<1> SUFFICES ASSUME NEW i \in Spots(r), NEW l \in Spots(r), i < l, At(new, Spot(r, l)).name \in Name
             PROVE  At(new, Spot(r, i)).name \in Name
  BY DEF Ordered
<1>1. /\ \A x \in Spots(r) : Spot(r, x) \in Places
      /\ \A x, y \in Spots(r) : Spot(r, x) = Spot(r, y) => x = y
  BY SpotsOfChain
<1>2. i \in Nat /\ l \in Nat /\ i >= 1 /\ k \in Nat
  BY DEF Spots
<1>3. CASE i = k
  BY <1>3
<1>4. CASE i # k
  <2>1. At(new, Spot(r, i)) = At(d, Spot(r, i))
    BY <1>1, <1>4
  <2>2. CASE l = k
    <3>1. i \in 1..k - 1
      BY <1>2, <2>2
    <3> QED
      BY <2>1, <3>1
  <2>3. CASE l # k
    <3>1. At(new, Spot(r, l)) = At(d, Spot(r, l))
      BY <1>1, <2>3
    <3> QED
      BY <2>1, <3>1 DEF Ordered
  <2> QED
    BY <2>2, <2>3
<1> QED
  BY <1>3, <1>4

AllUsed(d, r) == \A k \in Spots(r) : At(d, Spot(r, k)).name \in Name
OneAdded(d, r, new, more, place) ==
  /\ Len(more) = Len(r) + 1 /\ \A i \in 1..Len(r) : more[i] = r[i]
  /\ place = <<more[Len(r) + 1], 1>> /\ At(new, place).name \in Name
  /\ \A q \in Places \ {place} : At(new, q) = IF q[1] = place[1] THEN EmptyEntry ELSE At(d, q)

\* A directory that is full is extended by a cluster, and the new entry is the next one.
LEMMA AddedInOrder ==
  ASSUME NEW r, Distinct(r), NEW more, Distinct(more), NEW d, AllUsed(d, r),
         NEW new, NEW place, OneAdded(d, r, new, more, place)
  PROVE  Ordered(new, more)
<1>0. /\ Len(more) = Len(r) + 1 /\ \A i \in 1..Len(r) : more[i] = r[i]
      /\ \A k \in Spots(r) : At(d, Spot(r, k)).name \in Name
      /\ place = <<more[Len(r) + 1], 1>> /\ At(new, place).name \in Name
      /\ \A q \in Places \ {place} : At(new, q) = IF q[1] = place[1] THEN EmptyEntry ELSE At(d, q)
  BY DEF AllUsed, OneAdded
<1> USE <1>0
<1> DEFINE E == EntriesPerCluster
           L == Len(r)
<1>1. E \in Nat \ {0} /\ L \in Nat /\ NoName \notin Name
  BY FATAssumption DEF Distinct
<1> SUFFICES ASSUME NEW k \in Spots(more), NEW l \in Spots(more), k < l, At(new, Spot(more, l)).name \in Name
             PROVE  At(new, Spot(more, k)).name \in Name
  BY DEF Ordered
<1>2. PICK i \in 1..Len(more), x \in 1..E : k = (i - 1) * E + x /\ Spot(more, k) = <<more[i], x>>
  BY SpotsOfChain
<1>3. PICK j \in 1..Len(more), y \in 1..E : l = (j - 1) * E + y /\ Spot(more, l) = <<more[j], y>>
  BY SpotsOfChain
<1>4. L + 1 \in 1..Len(more) /\ more[L + 1] \in Cluster /\ place[1] = more[L + 1] /\ place[2] = 1
  BY <1>1 DEF Distinct
<1>5. CASE i <= L
  <2>1. i \in 1..L /\ more[i] = r[i] /\ i # L + 1
    BY <1>1, <1>5
  <2>2. (i - 1) * E + x \in Spots(r) /\ Spot(r, (i - 1) * E + x) = <<r[i], x>>
    BY <2>1, SpotsOfChain
  <2>3. At(d, <<r[i], x>>).name \in Name
    BY <2>2
  <2>4. more[i] # more[L + 1] /\ more[i] \in Cluster
    BY <1>4, <2>1 DEF Distinct
  <2>5. <<more[i], x>> \in Places \ {place} /\ <<more[i], x>>[1] # place[1]
    BY <1>4, <2>4 DEF Places
  <2>6. At(new, <<more[i], x>>) = At(d, <<more[i], x>>)
    BY <2>5
  <2> QED
    BY <1>2, <2>1, <2>3, <2>6
<1>6. CASE ~(i <= L)
  <2>1. i = L + 1
    BY <1>1, <1>6
  <2>2. CASE x = 1
    BY <1>2, <2>1, <2>2
  <2>3. CASE x # 1
    <3>1. j = L + 1
      <4> SUFFICES ASSUME j # L + 1 PROVE FALSE
        OBVIOUS
      <4> DEFINE u == (j - 1) * E
                 v == L * E
      <4>1. u + E <= v /\ u \in Nat /\ v \in Nat
        <5>1. j - 1 \in Nat /\ (j - 1) + 1 <= L
          BY <1>1
        <5> DEFINE z == j - 1
        <5> HIDE DEF z, E, L
        <5>2. (z + 1) * E <= L * E /\ (z + 1) * E = z * E + E /\ z * E \in Nat /\ L * E \in Nat
          BY <1>1, <5>1 DEF z
        <5> QED
          BY <5>2 DEF z
      <4>2. k = v + x /\ l = u + y
        BY <1>1, <1>2, <1>3, <2>1
      <4> HIDE DEF u, v
      <4> QED
        BY <1>1, <4>1, <4>2
    <3>2. y # 1
      <4> DEFINE v == L * E
      <4>1. k = v + x /\ l = v + y
        BY <1>1, <1>2, <1>3, <2>1, <3>1
      <4>2. v \in Nat
        <5> HIDE DEF L, E
        <5> QED
          BY <1>1
      <4> HIDE DEF v
      <4> QED
        BY <2>3, <4>1, <4>2
    <3>3. <<more[j], y>> \in Places \ {place} /\ <<more[j], y>>[1] = place[1]
      BY <1>4, <3>1, <3>2 DEF Places
    <3>4. At(new, <<more[j], y>>) = EmptyEntry
      BY <3>3
    <3> QED
      BY <1>1, <1>3, <3>4 DEF EmptyEntry
  <2> QED
    BY <2>2, <2>3
<1> QED
  BY <1>5, <1>6

\* A file that is created is empty, and the others are what they were.
LEMMA NewFileSteps ==
  ASSUME NEW ch, VolumeSound(fat, dir, fds, ch), TextSound(dir, data, fds, ch),
         NEW d \in FD, NEW n \in Name, NEW mode \in Mode, NEW p \in Places,
         p \notin FilesOf(dir), \A q \in FilesOf(dir) : At(dir, q).name # n,
         NEW more, VolumeSound(fat', dir', fds', more), Grown(Roots(dir), ch, more),
         Chained(fat', Roots(dir), more), Ordered(dir', more[root_cluster]),
         At(dir', p).name = n, At(dir', p).file_size = 0, FilesOf(dir') = FilesOf(dir) \cup {p},
         \A q \in FilesOf(dir) : At(dir', q) = At(dir, q),
         data' = data, out' = <<>>, fds' = [fds EXCEPT ![d] = NewDescriptor(p, mode)]
  PROVE  FilesInv' /\ Volume!Open(d, n)
<1>1. /\ Chained(fat, Roots(dir), ch) /\ DirectorySound(dir, ch) /\ DOMAIN fds = FD
      /\ Chained(fat', Roots(dir'), more) /\ DirectorySound(dir', more)
      /\ root_cluster \in Roots(dir) /\ root_cluster \in Roots(dir')
      /\ \A x \in FD : fds[x] # NotOpen => fds[x].entry \in FilesOf(dir)
  BY DEF VolumeSound, Roots, DescriptorSound
<1>2. DataTyped(data) /\ Ordered(dir, ch[root_cluster]) /\ Unique(dir)
  BY DEF TextSound
<1>3. Unique(dir')
  BY <1>2 DEF Unique
<1>4. \A q \in FilesOf(dir) : /\ At(dir, q).file_size \in Nat /\ At(dir, q).first_cluster \in Roots(dir) \cup {0}
                              /\ At(dir, q).file_size <= Holds(At(dir, q), ch)
  BY FileIs
<1>5. ASSUME NEW q \in FilesOf(dir)
      PROVE  ContentIn(fat', data', At(dir', q)) = ContentIn(fat, data, At(dir, q))
  <2>1. Roots(dir) \subseteq Roots(dir) /\ At(dir', q) = At(dir, q)
    OBVIOUS
  <2>2. At(dir, q).first_cluster \in Roots(dir) => \A i \in 1..Len(ch[At(dir, q).first_cluster]) :
          data'[ch[At(dir, q).first_cluster][i]] = data[ch[At(dir, q).first_cluster][i]]
    OBVIOUS
  <2>3. Chained(fat', Roots(dir), more) /\ Grown(Roots(dir), ch, more)
    OBVIOUS
  <2>4. ContentIn(fat', data', At(dir, q)) = ContentIn(fat, data, At(dir, q))
    BY ONLY <1>1, <1>2, <1>4, <2>1, <2>2, <2>3, q \in FilesOf(dir), ContentKept
  <2> QED
    BY <2>1, <2>4
\* The descriptors.
<1>6. fds'[d] = NewDescriptor(p, mode) /\ \A y \in FD \ {d} : fds'[y] = fds[y]
  BY <1>1
<1>7. fds'[d] \in FileDescriptor /\ HandleSound(fds'[d], At(dir', p), more) /\ fds'[d].entry = p
  <2>1. At(dir', p).file_size \in Nat
    OBVIOUS
  <2>2. NewDescriptor(p, mode).entry = p
    BY DEF NewDescriptor
  <2>3. NewDescriptor(p, mode) \in FileDescriptor /\ HandleSound(NewDescriptor(p, mode), At(dir', p), more)
    BY ONLY <2>1, p \in Places, mode \in Mode, NewIsSound
  <2> QED
    BY <1>6, <2>2, <2>3
<1>8. ASSUME NEW y \in FD \ {d}, fds[y] # NotOpen
      PROVE  fds[y] \in FileDescriptor /\ HandleSound(fds[y], At(dir', fds[y].entry), more) /\ fds[y].entry # p
  <2>1. fds[y] \in FileDescriptor /\ HandleSound(fds[y], At(dir, fds[y].entry), ch)
    BY <1>8 DEF TextSound
  <2>2. fds[y].entry \in FilesOf(dir)
    BY <1>1, <1>8
  <2> DEFINE e == At(dir, fds[y].entry)
  <2>3. e.file_size \in Nat /\ e.first_cluster \in Roots(dir) \cup {0} /\ e.file_size <= Holds(e, ch)
    BY <1>4, <2>2
  <2>4. \A c \in Roots(dir) : Len(ch[c]) \in Nat /\ Len(more[c]) \in Nat
    <3> TAKE c \in Roots(dir)
    <3>1. Len(ch[c]) \in Nat
      BY <1>1, ChainOf
    <3>2. Chained(fat', Roots(dir), more)
      OBVIOUS
    <3>3. Len(more[c]) \in Nat
      BY ONLY <3>2, c \in Roots(dir), ChainOf
    <3> QED
      BY <3>1, <3>3
  <2>5. Grown(Roots(dir), ch, more)
    OBVIOUS
  <2> HIDE DEF e
  <2>6. HandleSound(fds[y], e, ch)
    BY <2>1 DEF e
  <2>7. HandleSound(fds[y], e, more)
    BY ONLY <2>1, <2>3, <2>4, <2>5, <2>6, HandleKept
  <2> QED
    BY <2>1, <2>2, <2>7 DEF e
<1>9. TextSound(dir', data', fds', more)
  <2>1. \A x \in FD : fds'[x] # NotOpen =>
           fds'[x] \in FileDescriptor /\ HandleSound(fds'[x], At(dir', fds'[x].entry), more)
    BY <1>6, <1>7, <1>8
  <2>2. \A x, y \in FD : Shared(fds', x, y) => fds'[x].mode = "r" /\ fds'[y].mode = "r"
    <3> SUFFICES ASSUME NEW x \in FD, NEW y \in FD, Shared(fds', x, y)
                 PROVE  fds'[x].mode = "r" /\ fds'[y].mode = "r"
      OBVIOUS
    <3>1. x # d /\ y # d
      BY <1>6, <1>7, <1>8 DEF Shared
    <3>2. Shared(fds, x, y) /\ fds'[x] = fds[x] /\ fds'[y] = fds[y]
      BY <1>6, <3>1 DEF Shared
    <3> QED
      BY <3>2 DEF TextSound
  <2>3. DataTyped(data') /\ Ordered(dir', more[root_cluster])
    BY <1>2
  <2> QED
    BY <1>3, <2>1, <2>2, <2>3 DEF TextSound
<1>10. FilesInv'
  BY <1>9 DEF FilesInv
\* What is seen.
<1>11. Contents[n] = NoFile
  <2>1. ContentsIn(fat, data, dir)[n] = NoFile
    BY <1>1, <1>2, ContentsAre
  <2> QED
    BY <2>1, ContentsOfVolume
<1>12. ContentIn(fat', data', At(dir', p)) = <<>>
  <2>1. At(dir', p).file_size \in Nat /\ DataTyped(data')
    BY <1>2
  <2>2. /\ ContentIn(fat', data', At(dir', p)) \in Seq(Text)
        /\ Len(ContentIn(fat', data', At(dir', p))) = At(dir', p).file_size
    BY ONLY <2>1, ContentIsText
  <2> QED
    BY <2>2, EmptySeq
<1>13. ContentsIn(fat', data', dir') = [ContentsIn(fat, data, dir) EXCEPT ![n] = ContentIn(fat', data', At(dir', p))]
  <2>1. \A q \in FilesOf(dir) \ {p} : /\ At(dir', q).name = At(dir, q).name
                                     /\ ContentIn(fat', data', At(dir', q)) = ContentIn(fat, data, At(dir, q))
    BY <1>5
  <2>2. /\ FilesOf(dir') = FilesOf(dir) \cup {p} /\ At(dir', p).name = n
        /\ p \in FilesOf(dir) => At(dir, p).name = n
    OBVIOUS
  <2>3. Ordered(dir', more[root_cluster])
    OBVIOUS
  <2> QED
    BY ONLY <1>1, <1>2, <1>3, <2>1, <2>2, <2>3, ContentsChange
<1>14. Contents' = IF Contents[n] = NoFile THEN [Contents EXCEPT ![n] = <<>>] ELSE Contents
  BY <1>11, <1>12, <1>13, ContentsOfVolume
<1>15. Handles(fds', dir') = [Handles(fds, dir) EXCEPT ![d] = HandleOf(fds'[d], dir')]
  <2>1. \A y \in FD \ {d} : fds[y] # NotOpen => At(dir', fds[y].entry).name = At(dir, fds[y].entry).name
    BY <1>1
  <2> QED
    BY ONLY <1>6, <2>1, d \in FD, OneHandle
<1>16. HandleOf(fds'[d], dir') = [name |-> n, rd_off |-> 0, wr_off |-> 0]
  <2>1. fds'[d] # NotOpen
    BY <1>7, FATDistinct
  <2>2. fds'[d].rd_off = 0 /\ fds'[d].wr_off = 0
    BY <1>6 DEF NewDescriptor
  <2> QED
    BY <1>7, <2>1, <2>2 DEF HandleOf
<1>17. Handles(fds', dir') = [Handles(fds, dir) EXCEPT ![d] = [name |-> n, rd_off |-> 0, wr_off |-> 0]]
  BY <1>15, <1>16
<1>18. Volume!Open(d, n)
  <2>1. out' = <<>>
    OBVIOUS
  <2> QED
    BY ONLY d \in FD, n \in Name, <1>14, <1>17, <2>1, OpenSeen
<1> QED
  BY <1>10, <1>18

\* A file that is found is opened beside its readers.
LEMMA FoundSteps ==
  ASSUME NEW ch, VolumeSound(fat, dir, fds, ch), TextSound(dir, data, fds, ch),
         NEW d \in FD, NEW n \in Name, NEW mode \in Mode, NEW p \in Places,
         p \in FindFile(n), MayOpen(p, mode), fat' = fat, dir' = dir,
         data' = data, out' = <<>>, fds' = [fds EXCEPT ![d] = NewDescriptor(p, mode)]
  PROVE  FilesInv' /\ Volume!Open(d, n)
<1>1. /\ Chained(fat, Roots(dir), ch) /\ DirectorySound(dir, ch) /\ DOMAIN fds = FD
      /\ root_cluster \in Roots(dir)
  BY DEF VolumeSound, Roots
<1>2. DataTyped(data) /\ Ordered(dir, ch[root_cluster]) /\ Unique(dir)
  BY DEF TextSound
<1>3. p \in FilesOf(dir) /\ At(dir, p).name = n
  <2>1. p \in FindIn(fat, dir, n)
    BY ContentsOfVolume
  <2> QED
    BY <2>1 DEF FindIn, FilesOf
<1>4. At(dir, p).file_size \in Nat
  BY <1>3, FileIs
<1>5. /\ fds'[d] = NewDescriptor(p, mode) /\ \A y \in FD \ {d} : fds'[y] = fds[y]
      /\ DOMAIN fds' = FD
  BY <1>1
<1>6. /\ fds'[d] \in FileDescriptor /\ HandleSound(fds'[d], At(dir, fds'[d].entry), ch)
      /\ fds'[d].entry = p /\ fds'[d].mode = mode /\ fds'[d].rd_off = 0 /\ fds'[d].wr_off = 0
  <2>1. NewDescriptor(p, mode) \in FileDescriptor /\ HandleSound(NewDescriptor(p, mode), At(dir, p), ch)
    BY ONLY <1>4, p \in Places, mode \in Mode, NewIsSound
  <2> QED
    BY <1>5, <2>1 DEF NewDescriptor
<1>7. VolumeSound(fat, dir, fds', ch)
  <2>1. DescriptorSound(fds'[d], dir, ch)
    BY <1>3, <1>5 DEF DescriptorSound, NewDescriptor
  <2> QED
    BY <1>5, <2>1, OneDescriptor
<1>8. TextSound(dir, data, fds', ch)
  <2>1. ASSUME NEW y \in FD \ {d}, fds[y] # NotOpen, fds[y].entry = fds'[d].entry
        PROVE  fds'[d].mode = "r" /\ fds[y].mode = "r"
    <3>1. fds[y] \in FileDescriptor
      BY <2>1 DEF TextSound
    <3>2. fds[y].mode \in Mode
      BY <3>1 DEF FileDescriptor
    <3>3. fds[y].mode # "w"
      BY <1>6, <2>1 DEF MayOpen, OpenOn
    <3>4. y \in OpenOn(p, "r")
      BY <1>6, <2>1, <3>2, <3>3 DEF OpenOn, Mode
    <3> QED
      BY <1>6, <3>2, <3>3, <3>4 DEF MayOpen, Mode
  <2>2. fds'[d] # NotOpen =>
          /\ fds'[d] \in FileDescriptor /\ HandleSound(fds'[d], At(dir, fds'[d].entry), ch)
          /\ \A y \in FD \ {d} : fds[y] # NotOpen /\ fds[y].entry = fds'[d].entry =>
               fds'[d].mode = "r" /\ fds[y].mode = "r"
    BY <1>6, <2>1
  <2>3. TextSound(dir, data, fds, ch)
    OBVIOUS
  <2> QED
    BY ONLY <1>5, <2>2, <2>3, d \in FD, OneSound
<1>9. FilesInv'
  BY <1>7, <1>8 DEF FilesInv
<1>10. Contents[n] # NoFile /\ Contents' = Contents
  <2>1. ContentsIn(fat, data, dir)[n] = ContentIn(fat, data, At(dir, p))
    BY <1>1, <1>2, <1>3, ContentsAre
  <2>2. ContentIn(fat, data, At(dir, p)) \in Seq(Text)
    BY <1>2, <1>4, ContentIsText
  <2>3. ContentsIn(fat, data, dir)[n] # NoFile
    BY <2>1, <2>2, FATDistinct DEF Text
  <2> QED
    BY <2>3, ContentsOfVolume
<1>11. Handles(fds', dir') = [Handles(fds, dir) EXCEPT ![d] = HandleOf(fds'[d], dir')]
  <2>1. \A y \in FD \ {d} : fds[y] # NotOpen => At(dir', fds[y].entry).name = At(dir, fds[y].entry).name
    OBVIOUS
  <2> QED
    BY ONLY <1>5, <2>1, d \in FD, OneHandle
<1>12. HandleOf(fds'[d], dir') = [name |-> n, rd_off |-> 0, wr_off |-> 0]
  <2>1. fds'[d] # NotOpen
    BY <1>6, FATDistinct
  <2> QED
    BY <1>3, <1>6, <2>1 DEF HandleOf
<1>13. Handles(fds', dir') = [Handles(fds, dir) EXCEPT ![d] = [name |-> n, rd_off |-> 0, wr_off |-> 0]]
  BY <1>11, <1>12
<1>14. Contents' = IF Contents[n] = NoFile THEN [Contents EXCEPT ![n] = <<>>] ELSE Contents
  BY <1>10
<1>15. Volume!Open(d, n)
  <2>1. out' = <<>>
    OBVIOUS
  <2> QED
    BY ONLY d \in FD, n \in Name, <1>13, <1>14, <2>1, OpenSeen
<1> QED
  BY <1>9, <1>15

\* Open finds or creates the file, and its descriptor stands at the beginning.
LEMMA OpenSteps ==
  ASSUME FilesInv, NEW d \in FD, NEW n \in Name, NEW mode \in Mode, Open(d, n, mode)
  PROVE  FilesInv' /\ Volume!Open(d, n)
<1>1. PICK ch : VolumeSound(fat, dir, fds, ch) /\ TextSound(dir, data, fds, ch)
  BY DEF FilesInv
<1>2. PICK p \in Places :
        /\ \/ p \in FindFile(n) /\ MayOpen(p, mode) /\ fat' = fat /\ dir' = dir
           \/ FindFile(n) = {} /\ CreateFile(n, p)
        /\ fds' = [fds EXCEPT ![d] = NewDescriptor(p, mode)]
        /\ data' = data /\ out' = <<>>
  BY DEF Open, Places
<1> DEFINE S == Roots(dir)
           r == ch[root_cluster]
<1>3. Chained(fat, S, ch) /\ DirectorySound(dir, ch) /\ root_cluster \in S /\ DOMAIN fds = FD
  BY <1>1 DEF VolumeSound, Roots
<1>4. Ordered(dir, r) /\ Unique(dir)
  BY <1>1 DEF TextSound
<1>5. Distinct(r)
  BY <1>3, ChainIsDistinct
<1>6. dir \in [Cluster -> [1..EntriesPerCluster -> EntryRecord]]
  BY <1>3 DEF DirectorySound
<1>7. FindFile(n) = {} => \A q \in FilesOf(dir) : At(dir, q).name # n
  <2>1. \A q \in FilesOf(dir) : At(dir, q).name = n => FindIn(fat, dir, n) = {q}
    BY <1>3, <1>4, FileFound
  <2> QED
    BY <2>1, ContentsOfVolume
<1>8. VolumeSound(fat, dir, fds, ch)
  BY <1>1
<1>9. CASE p \in FindFile(n) /\ MayOpen(p, mode) /\ fat' = fat /\ dir' = dir
  BY ONLY <1>1, <1>2, <1>9, d \in FD, n \in Name, mode \in Mode, p \in Places, FoundSteps
\* An unused entry is taken.
<1>10. CASE /\ p \in FirstOf({NoName}) /\ fat' = fat /\ FindFile(n) = {}
           /\ dir' = [dir EXCEPT ![p[1]][p[2]] = NewEntry(n, p)]
  <2>1. /\ VolumeSound(fat', dir', fds', ch)
        /\ At(dir, p).name = NoName /\ At(dir', p).name = n /\ At(dir', p).file_size = 0
        /\ \A q \in Places \ {p} : At(dir', q) = At(dir, q)
    <3>1. TakesEntry(d, n, mode, p)
      BY <1>2, <1>10 DEF TakesEntry
    <3> QED
      BY ONLY <1>8, <3>1, d \in FD, n \in Name, p \in Places, EntryTaken
  <2>2. /\ p \notin FilesOf(dir) /\ FilesOf(dir') = FilesOf(dir) \cup {p}
        /\ \A q \in FilesOf(dir) : At(dir', q) = At(dir, q)
    BY <2>1, FATAssumption DEF FilesOf
  <2>3. PICK k \in Spots(r) : /\ p = Spot(r, k)
                              /\ \A i \in 1..k - 1 : At(dir, Spot(r, i)).name \in Name
    <3>1. p \in FirstIn(fat, dir, {NoName})
      BY <1>10, ContentsOfVolume
    <3> QED
      BY <1>3, <1>6, <3>1, FirstUnused
  <2>4. Ordered(dir', r)
    <3>1. \A q \in Places \ {Spot(r, k)} : At(dir', q) = At(dir, q)
      BY <2>1, <2>3
    <3>2. At(dir', Spot(r, k)).name \in Name
      BY <2>1, <2>3
    <3> QED
      BY ONLY <1>4, <1>5, <2>3, <3>1, <3>2, TakenInOrder
  <2>5. Grown(S, ch, ch) /\ Chained(fat', S, ch)
    <3>1. \A c \in S : Len(ch[c]) \in Nat
      BY <1>3, ChainOf
    <3> QED
      BY <1>3, <1>10, <3>1 DEF Grown
  <2>6. \A q \in FilesOf(dir) : At(dir, q).name # n
    BY <1>7, <1>10
  <2> QED
    BY ONLY <1>1, <1>2, <2>1, <2>2, <2>4, <2>5, <2>6, d \in FD, n \in Name, mode \in Mode, p \in Places,
       NewFileSteps
\* The directory is made longer.
<1>11. CASE /\ FirstOf({NoName}) = {} /\ FreeClusters(fat) # {} /\ FindFile(n) = {}
            /\ p = <<ExtendCluster(fat, root_cluster, 1).last, 1>>
            /\ fat' = ExtendCluster(fat, root_cluster, 1).fat
            /\ dir' = [dir EXCEPT ![ExtendCluster(fat, root_cluster, 1).last] =
                         [EmptyDirectory EXCEPT ![1] = [EmptyEntry EXCEPT !.name = n]]]
  <2>1. \E more :
           /\ VolumeSound(fat', dir', fds', more) /\ Grown(Roots(dir), ch, more)
           /\ Chained(fat', Roots(dir), more)
           /\ Len(more[root_cluster]) = Len(ch[root_cluster]) + 1
           /\ p = <<more[root_cluster][Len(ch[root_cluster]) + 1], 1>>
           /\ At(dir', p).name = n /\ At(dir', p).file_size = 0
           /\ \A q \in Places \ {p} :
                At(dir', q) = IF q[1] = p[1] THEN EmptyEntry ELSE At(dir, q)
    <3>1. AddsCluster(d, n, mode, p)
      BY <1>2, <1>11 DEF AddsCluster
    <3> QED
      BY ONLY <1>8, <3>1, d \in FD, n \in Name, p \in Places, ClusterAdded
  <2>2. PICK more :
           /\ VolumeSound(fat', dir', fds', more) /\ Grown(Roots(dir), ch, more)
           /\ Chained(fat', Roots(dir), more)
           /\ Len(more[root_cluster]) = Len(ch[root_cluster]) + 1
           /\ p = <<more[root_cluster][Len(ch[root_cluster]) + 1], 1>>
           /\ At(dir', p).name = n /\ At(dir', p).file_size = 0
           /\ \A q \in Places \ {p} :
                At(dir', q) = IF q[1] = p[1] THEN EmptyEntry ELSE At(dir, q)
    BY ONLY <2>1
  <2> DEFINE m == more[root_cluster]
             L == Len(r)
  <2>3. Distinct(m) /\ Len(m) = Len(r) + 1 /\ \A i \in 1..Len(r) : m[i] = r[i]
    <3>1. Chained(fat', S, more)
      BY <2>2
    <3>2. Distinct(more[root_cluster])
      BY ONLY <1>3, <3>1, ChainIsDistinct
    <3> QED
      BY <1>3, <2>2, <3>2 DEF Grown
  <2>4. Ordered(dir', m)
    <3>1. AllUsed(dir, r)
      <4>1. FirstIn(fat, dir, {NoName}) = {}
        BY <1>11, ContentsOfVolume
      <4> QED
        BY <1>3, <1>6, <4>1, FirstUnused DEF AllUsed
    <3>2. OneAdded(dir, r, dir', m, p)
      BY <2>2, <2>3 DEF OneAdded
    <3> HIDE DEF m, r
    <3> QED
      BY ONLY <1>5, <2>3, <3>1, <3>2, AddedInOrder
  <2>5. \A q \in FilesOf(dir) : q \in Places \ {p} /\ q[1] # p[1]
    <3> TAKE q \in FilesOf(dir)
    <3>1. q \in Places /\ \E i \in 1..Len(r) : r[i] = q[1]
      BY <1>3 DEF DirectorySound, FilesOf
    <3>2. PICK i \in 1..Len(r) : r[i] = q[1]
      BY <3>1
    <3>3. m[i] # m[Len(r) + 1] /\ p[1] = m[Len(r) + 1]
      <4>1. i \in 1..Len(m) /\ Len(r) + 1 \in 1..Len(m) /\ i # Len(r) + 1
        BY <1>5, <2>3 DEF Distinct
      <4>2. p[1] = m[Len(r) + 1]
        BY <2>2
      <4> QED
        BY <2>3, <4>1, <4>2 DEF Distinct
    <3> QED
      BY <2>3, <3>1, <3>2, <3>3
  <2>6. \A q \in FilesOf(dir) : At(dir', q) = At(dir, q)
    BY <2>2, <2>5
  <2>7. p \notin FilesOf(dir) /\ FilesOf(dir') = FilesOf(dir) \cup {p}
    <3>1. p \notin FilesOf(dir)
      BY <2>5
    <3>2. \A q \in FilesOf(dir) : q \in FilesOf(dir')
      BY <2>6 DEF FilesOf
    <3>3. p \in FilesOf(dir')
      BY <2>2 DEF FilesOf
    <3>4. ASSUME NEW q \in FilesOf(dir'), q # p PROVE q \in FilesOf(dir)
      <4>1. q \in Places \ {p} /\ At(dir', q).name \in Name
        BY <3>4 DEF FilesOf
      <4>2. q[1] # p[1]
        <5> SUFFICES ASSUME q[1] = p[1] PROVE FALSE
          OBVIOUS
        <5>1. At(dir', q) = EmptyEntry
          BY <2>2, <4>1
        <5> QED
          BY <4>1, <5>1, FATAssumption DEF EmptyEntry
      <4>3. At(dir', q) = At(dir, q)
        BY <2>2, <4>1, <4>2
      <4> QED
        BY <4>1, <4>3 DEF FilesOf
    <3> QED
      BY <3>1, <3>2, <3>3, <3>4
  <2>8. \A q \in FilesOf(dir) : At(dir, q).name # n
    BY <1>7, <1>11
  <2>9. Ordered(dir', more[root_cluster])
    BY <2>4
  <2> QED
    BY ONLY <1>1, <1>2, <2>2, <2>6, <2>7, <2>8, <2>9, d \in FD, n \in Name, mode \in Mode, p \in Places,
       NewFileSteps
<1> QED
  BY <1>2, <1>9, <1>10, <1>11 DEF CreateFile

\* What a file contains after a write: what it contained before the place of
\* the write, and what was written.
Rewritten(text, base, buf) == SubSeq(text, 1, base) \o buf
InVolume(f, S, ch, dat, e) ==
  /\ Chained(f, S, ch) /\ DataTyped(dat)
  /\ e.file_size \in Nat /\ e.first_cluster \in S \cup {0} /\ e.file_size <= Holds(e, ch)
GoesOn(S, ch, dat, e, table, R, more, first, base, buf, after, new) ==
  /\ Chained(table, R, more) /\ Grown(S, ch, more) /\ first \in R
  /\ (e.first_cluster # 0 => e.first_cluster = first)
  /\ base \in Nat /\ base <= e.file_size /\ Written(dat, after, more[first], base, Len(buf), buf)
  /\ new.first_cluster = first /\ new.file_size = base + Len(buf) /\ new.file_size <= Holds(new, more)

\* After a write, the file contains what it did before the place of the write, and what was written.
LEMMA WrittenContent ==
  ASSUME NEW f, NEW S, NEW ch, NEW dat, NEW e, InVolume(f, S, ch, dat, e),
         NEW table, NEW R, NEW more, NEW first, NEW base, NEW buf, buf \in Seq(Byte), NEW after, NEW new,
         GoesOn(S, ch, dat, e, table, R, more, first, base, buf, after, new)
  PROVE  ContentIn(table, after, new) = Rewritten(ContentIn(f, dat, e), base, buf)
<1>a. /\ Chained(f, S, ch) /\ DataTyped(dat)
      /\ e.file_size \in Nat /\ e.first_cluster \in S \cup {0} /\ e.file_size <= Holds(e, ch)
  BY DEF InVolume
<1>b. /\ Chained(table, R, more) /\ Grown(S, ch, more) /\ first \in R
      /\ (e.first_cluster # 0 => e.first_cluster = first)
      /\ base \in Nat /\ base <= e.file_size /\ Written(dat, after, more[first], base, Len(buf), buf)
      /\ new.first_cluster = first /\ new.file_size = base + Len(buf) /\ new.file_size <= Holds(new, more)
  BY DEF GoesOn
<1> USE <1>a, <1>b
<1> DEFINE B == bytes_per_cluster
           old == ContentIn(f, dat, e)
           s == SubSeq(old, 1, base)
           text == s \o buf
           L == Len(more[first])
<1>1. B \in Nat \ {0} /\ Len(buf) \in Nat /\ first # 0
  BY FATAssumption, EndIsNoCluster DEF Chained
<1>2. old \in Seq(Text) /\ Len(old) = e.file_size
  BY ContentIsText
<1>3. s \in Seq(Text) /\ Len(s) = base /\ \A i \in 1..base : s[i] = old[i]
  <2> HIDE DEF old
  <2>1. base <= Len(old) /\ 1 \in 1..Len(old) + 1
    BY <1>2
  <2>2. /\ s \in Seq(Text)
        /\ Len(s) = IF 1 <= base THEN base - 1 + 1 ELSE 0
        /\ \A i \in 1..base - 1 + 1 : s[i] = old[1 + i - 1]
    <3>1. \A i \in 1..base : i \in 1..Len(old)
      BY <1>2
    <3> QED
      BY <1>2, <2>1, <3>1, SubSeqProperties
  <2> QED
    BY <2>2
<1>4. buf \in Seq(Text)
  BY DEF Text
<1>5. /\ text \in Seq(Text) /\ Len(text) = base + Len(buf)
      /\ \A i \in 1..base + Len(buf) : text[i] = IF i <= base THEN s[i] ELSE buf[i - base]
  <2> HIDE DEF s
  <2> QED
    BY <1>3, <1>4, ConcatProperties
<1> HIDE DEF old, s, text
<1>6. ASSUME NEW q \in Nat, NEW o \in 0..B - 1, q * B + o < new.file_size
      PROVE  ContentIn(table, after, new)[q * B + o + 1] = text[q * B + o + 1]
  <2> DEFINE i == q * B + o
  <2>1. q * B \in Nat
    <3> HIDE DEF B
    <3> QED
      BY <1>1
  <2>2. i \in Nat /\ i + 1 \in 1..base + Len(buf)
    <3> DEFINE v == q * B
    <3> HIDE DEF v
    <3>1. v \in Nat /\ v + o < base + Len(buf)
      BY <1>6, <2>1 DEF v
    <3>2. v + o \in Nat /\ v + o + 1 \in 1..base + Len(buf)
      BY <1>1, <3>1
    <3> QED
      BY <3>2 DEF v
  <2>3. /\ q + 1 \in 1..L
        /\ ContentIn(table, after, new)[i + 1] = after[more[first][q + 1]][o + 1]
    <3>1. /\ new.file_size \in Nat /\ new.first_cluster \in R \cup {0} /\ q * bytes_per_cluster + o < new.file_size
          /\ new.file_size <= Holds(new, more) /\ o \in 0..bytes_per_cluster - 1 /\ q \in Nat
          /\ Chained(table, R, more)
      BY <1>1, <1>6
    <3>2. ByteOfFile(table, R, more, new, q, o)
      BY ONLY <3>1 DEF ByteOfFile
    <3>3. ReadsByte(table, R, more, after, new, q, o)
      BY ONLY <3>2, ContentAt
    <3> QED
      BY <3>3 DEF ReadsByte
  <2>4. o + 1 \in 1..B /\ (q + 1) - 1 = q /\ q * B + (o + 1) = i + 1
    BY <1>1, <2>1
  <2>5. /\ i + 1 <= base => after[more[first][q + 1]][o + 1] = dat[more[first][q + 1]][o + 1]
        /\ \A k \in 1..Len(buf) : i + 1 = base + k => after[more[first][q + 1]][o + 1] = buf[k]
    <3>1. /\ ((q + 1) - 1) * B + (o + 1) <= base => after[more[first][q + 1]][o + 1] = dat[more[first][q + 1]][o + 1]
          /\ \A k \in 1..Len(buf) : ((q + 1) - 1) * B + (o + 1) = base + k => after[more[first][q + 1]][o + 1] = buf[k]
      BY <2>3, <2>4 DEF Written
    <3>2. ((q + 1) - 1) * B + (o + 1) = i + 1
      BY <2>4
    <3> HIDE DEF i
    <3> QED
      BY <3>1, <3>2
  <2>6. CASE i + 1 <= base
    <3>1. q * bytes_per_cluster + o < e.file_size
      <4> HIDE DEF i
      <4>1. i < e.file_size
        BY <2>2, <2>6
      <4> QED
        BY <4>1 DEF i
    <3>2. /\ e.first_cluster \in S /\ q + 1 \in 1..Len(ch[e.first_cluster])
          /\ old[i + 1] = dat[ch[e.first_cluster][q + 1]][o + 1]
      <4>1. /\ e.first_cluster \in S /\ q + 1 \in 1..Len(ch[e.first_cluster])
            /\ ContentIn(f, dat, e)[q * bytes_per_cluster + o + 1] = dat[ch[e.first_cluster][q + 1]][o + 1]
        <5>1. ByteOfFile(f, S, ch, e, q, o)
          BY <3>1 DEF ByteOfFile
        <5>2. ReadsByte(f, S, ch, dat, e, q, o)
          BY ONLY <5>1, ContentAt
        <5> QED
          BY <5>2 DEF ReadsByte
      <4> QED
        BY <4>1 DEF old
    <3>3. e.first_cluster = first
      <4>1. e.first_cluster # 0
        BY <3>2, EndIsNoCluster DEF Chained
      <4> QED
        BY <4>1
    <3>4. more[first][q + 1] = ch[first][q + 1]
      BY <3>2, <3>3 DEF Grown
    <3> HIDE DEF i
    <3>5. text[i + 1] = old[i + 1]
      <4>1. i + 1 \in 1..base
        BY <2>2, <2>6
      <4> QED
        BY <1>3, <1>5, <2>2, <2>6, <4>1
    <3>6. ContentIn(table, after, new)[i + 1] = text[i + 1]
      BY <2>3, <2>5, <2>6, <3>2, <3>3, <3>4, <3>5
    <3> QED
      BY <3>6 DEF i
  <2>7. CASE ~(i + 1 <= base)
    <3> HIDE DEF i
    <3>1. (i + 1) - base \in 1..Len(buf) /\ i + 1 = base + ((i + 1) - base)
      BY <1>1, <2>2, <2>7
    <3>2. text[i + 1] = buf[(i + 1) - base]
      BY <1>5, <2>2, <2>7
    <3>3. ContentIn(table, after, new)[i + 1] = text[i + 1]
      BY <2>3, <2>5, <3>1, <3>2
    <3> QED
      BY <3>3 DEF i
  <2> QED
    BY <2>6, <2>7
<1>7. new.file_size \in Nat /\ Len(text) = new.file_size
  BY <1>1, <1>5
<1>8. \A q \in Nat, o \in 0..bytes_per_cluster - 1 : q * bytes_per_cluster + o < new.file_size =>
        ContentIn(table, after, new)[q * bytes_per_cluster + o + 1] = text[q * bytes_per_cluster + o + 1]
  BY <1>6
<1>9. ContentIn(table, after, new) = text
  BY ONLY <1>5, <1>7, <1>8, ContentEqual
<1> QED
  BY <1>9 DEF text, s, old, Rewritten

\* The files but the one that is written are left alone.
WritesFile(d, ch, dat, p, first, table, more, after, base, buf) ==
  /\ DataTyped(dat) /\ p \in FilesOf(d) /\ first \in Cluster
  /\ IF At(d, p).first_cluster = 0 THEN first \notin Roots(d) ELSE first = At(d, p).first_cluster
  /\ Chained(table, Roots(d) \cup {first}, more) /\ Grown(Roots(d), ch, more)
  /\ Written(dat, after, more[first], base, Len(buf), buf)

\* The other files contain what they did.
LEMMA OthersKept ==
  ASSUME NEW f, NEW d, NEW ds, NEW ch, VolumeSound(f, d, ds, ch), NEW dat, NEW p, NEW first,
         NEW table, NEW more, NEW after, NEW base, NEW buf,
         WritesFile(d, ch, dat, p, first, table, more, after, base, buf),
         NEW q \in FilesOf(d), q # p
  PROVE  ContentIn(table, after, At(d, q)) = ContentIn(f, dat, At(d, q))
<1>a. /\ DataTyped(dat) /\ p \in FilesOf(d) /\ first \in Cluster
      /\ IF At(d, p).first_cluster = 0 THEN first \notin Roots(d) ELSE first = At(d, p).first_cluster
      /\ Chained(table, Roots(d) \cup {first}, more) /\ Grown(Roots(d), ch, more)
      /\ Written(dat, after, more[first], base, Len(buf), buf)
  BY DEF WritesFile
<1> USE <1>a
<1> DEFINE S == Roots(d)
           R == S \cup {first}
           e == At(d, q)
           c == e.first_cluster
<1>1. /\ Chained(f, S, ch) /\ DirectorySound(d, ch) /\ e.file_size \in Nat /\ c \in S \cup {0}
      /\ e.file_size <= Holds(e, ch)
  BY FileIs
<1>2. c \in S => c # first
  <2>1. c # 0 => c # At(d, p).first_cluster
    BY <1>1 DEF DirectorySound
  <2>2. c \in S => c # 0
    BY <1>1, EndIsNoCluster DEF Chained
  <2> QED
    BY <2>1, <2>2
<1>3. ASSUME c \in S, NEW i \in 1..Len(ch[c]) PROVE after[ch[c][i]] = dat[ch[c][i]]
  <2>1. i \in 1..Len(more[c]) /\ more[c][i] = ch[c][i]
    BY <1>3 DEF Grown
  <2>2. more[c][i] \in Cluster /\ \A k \in 1..Len(more[first]) : more[first][k] # more[c][i]
    <3>1. c \in R /\ first \in R /\ c # first
      BY <1>2, <1>3
    <3> HIDE DEF R, c, S
    <3>2. Chained(table, R, more)
      BY DEF R, S
    <3>3. more[c][i] \in Cluster
      BY <2>1, <3>1, <3>2, ChainOf
    <3> QED
      BY <2>1, <3>1, <3>2, <3>3 DEF Chained
  <2> QED
    BY <2>1, <2>2 DEF Written
<1>4. Chained(table, R, more) /\ S \subseteq R /\ Grown(S, ch, more) /\ DataTyped(dat)
  OBVIOUS
<1>5. c \in S => \A i \in 1..Len(ch[c]) : after[ch[c][i]] = dat[ch[c][i]]
  BY <1>3
<1> HIDE DEF S, R, e
<1> QED
  BY ONLY <1>1, <1>4, <1>5, ContentKept DEF e

\* Write, to one cluster, changes the contents as Files says.
LEMMA WriteSteps ==
  ASSUME ~Crossing, FilesInv, NEW d \in FD, fds[d] # NotOpen, NEW buf, buf \in Seq(Byte), Write(d, buf)
  PROVE  FilesInv' /\ Volume!Write(d, buf)
<1>1. PICK ch : VolumeSound(fat, dir, fds, ch) /\ TextSound(dir, data, fds, ch)
  BY DEF FilesInv
<1> DEFINE fd == fds[d]
           p == fd.entry
           e == At(dir, p)
           first == WriteFirst(d, buf)
           end == WriteEnd(d, buf)
           base == fd.wr_off
           S == Roots(dir)
           R == S \cup {first}
           new == At(dir', p)
           B == bytes_per_cluster
<1>2. /\ first \in Cluster
      /\ IF e.first_cluster = 0 THEN first \notin S ELSE first = e.first_cluster
      /\ e.first_cluster = 0 => base = 0
      /\ \E more, j : Grown(S, ch, more) /\ Fills(end, R, first, base, more, j, data, buf) /\ end.total = Len(buf)
  BY ONLY ~Crossing, <1>1, d \in FD, fds[d] # NotOpen, buf \in Seq(Byte), Write(d, buf), WriteFills
<1>3. PICK more, j : Grown(S, ch, more) /\ Fills(end, R, first, base, more, j, data, buf) /\ end.total = Len(buf)
  BY <1>2
<1>4. /\ Chained(end.fat, R, more) /\ j \in 1..Len(more[first]) /\ end.cluster = more[first][j]
      /\ end.off \in 0..B /\ end.total \in Nat /\ base + end.total = (j - 1) * B + end.off
      /\ Written(data, end.data, more[first], base, Len(buf), buf)
  BY <1>3 DEF Fills
<1>5. /\ fd \in FileDescriptor /\ HandleSound(fd, e, ch) /\ fd.mode = "w" /\ base \in Nat /\ base <= e.file_size
      /\ p \in FilesOf(dir) /\ p \in Places /\ Len(buf) \in Nat /\ DOMAIN fds = FD
  <2>1. fd.mode = "w"
    BY DEF Write
  <2>2. fd \in FileDescriptor /\ HandleSound(fd, e, ch) /\ p \in FilesOf(dir) /\ DOMAIN fds = FD
    BY <1>1 DEF TextSound, VolumeSound, DescriptorSound
  <2>3. base \in Nat
    BY <2>2 DEF FileDescriptor
  <2>4. Len(buf) \in Nat
    OBVIOUS
  <2> QED
    BY <2>1, <2>2, <2>3, <2>4 DEF HandleSound, FilesOf
<1>6. /\ Chained(fat, S, ch) /\ DirectorySound(dir, ch) /\ root_cluster \in S
      /\ e.file_size \in Nat /\ e.first_cluster \in S \cup {0} /\ e.file_size <= Holds(e, ch)
  BY <1>1, <1>5, FileIs
<1>7. DataTyped(data) /\ Ordered(dir, ch[root_cluster]) /\ Unique(dir)
  BY <1>1 DEF TextSound
<1>8. /\ data' = end.data /\ out' = <<>>
      /\ fds' = [fds EXCEPT ![d].wr_off = @ + end.total, ![d].wr_cluster = end.cluster, ![d].wr_cluster_off = end.off]
  BY DEF Write, WriteEnd, WriteBegin, Entry, At
<1>9. /\ fat' = end.fat /\ VolumeSound(end.fat, dir', fds', more)
      /\ new.name = e.name /\ new.first_cluster = first /\ new.file_size = base + end.total
      /\ \A q \in Places \ {p} : At(dir', q) = At(dir, q)
  <2>1. base + end.total <= (j - 1) * bytes_per_cluster + end.off
    <3> DEFINE v == (j - 1) * B + end.off
    <3>1. base + end.total = v /\ base + end.total \in Nat
      BY <1>4, <1>5
    <3> HIDE DEF v
    <3>2. base + end.total <= v
      BY <3>1
    <3> QED
      BY <3>2 DEF v
  <2>2. VolumeSound(fat, dir, fds, ch)
    BY <1>1
  <2>3. Grown(S, ch, more)
    BY <1>3
  <2> QED
    BY ONLY <1>2, <1>4, <2>1, <2>2, <2>3, d \in FD, fds[d] # NotOpen, Write(d, buf), WriteChanges
<1> HIDE DEF end, first, e, new, base, R, S
<1>10. VolumeSound(fat', dir', fds', more)
  BY <1>9
<1>11. /\ Chained(fat', Roots(dir'), more) /\ DirectorySound(dir', more) /\ root_cluster \in Roots(dir')
       /\ dir' \in [Cluster -> [1..EntriesPerCluster -> EntryRecord]]
  BY <1>10 DEF VolumeSound, Roots, DirectorySound
<1>12. /\ \A q \in Places : At(dir', q).name = At(dir, q).name
       /\ FilesOf(dir') = FilesOf(dir)
  <2>1. \A q \in Places : At(dir', q).name = At(dir, q).name
    BY <1>9 DEF e, new
  <2> QED
    BY <2>1 DEF FilesOf
<1>13. Unique(dir')
  <2>1. \A q \in FilesOf(dir) : q \in Places
    BY DEF FilesOf
  <2> QED
    BY <1>7, <1>12, <2>1 DEF Unique
<1>14. Ordered(dir', more[root_cluster])
  <2> DEFINE r == ch[root_cluster]
             m == more[root_cluster]
  <2>1. Distinct(r)
    BY <1>6, ChainIsDistinct
  <2>2. Distinct(m)
    BY <1>11, ChainIsDistinct
  <2>3. /\ Len(r) <= Len(m) /\ \A i \in 1..Len(r) : i \in 1..Len(m) /\ m[i] = r[i]
    BY <1>3, <1>6 DEF Grown
  <2>4. \A q \in FilesOf(dir') : \E i \in 1..Len(r) : r[i] = q[1]
    BY <1>6, <1>12 DEF DirectorySound
  <2>5. Ordered(dir', r)
    <3>1. \A k \in Spots(r) : Spot(r, k) \in Places
      BY <2>1, SpotsOfChain
    <3> QED
      BY <1>7, <1>12, <3>1 DEF Ordered
  <2> HIDE DEF r, m
  <2>6. Ordered(dir', m)
    BY ONLY <1>11, <2>1, <2>2, <2>3, <2>4, <2>5, OrderedInLonger
  <2> QED
    BY <2>6 DEF m
\* The descriptors.
<1>15. /\ \A y \in FD \ {d} : fds'[y] = fds[y]
       /\ fds'[d] = [fd EXCEPT !.wr_off = @ + end.total, !.wr_cluster = end.cluster, !.wr_cluster_off = end.off]
  BY <1>5, <1>8
<1>16. /\ fds'[d] \in FileDescriptor /\ fds'[d].entry = p /\ fds'[d].mode = "w"
       /\ fds'[d].wr_off = base + end.total /\ fds'[d].wr_cluster = end.cluster
       /\ fds'[d].wr_cluster_off = end.off /\ fds'[d].rd_off = fd.rd_off
  <2>1. base + end.total \in Nat /\ end.off \in Nat
    BY <1>4, <1>5, FATAssumption
  <2>2. end.cluster \in Int
    <3>1. first \in R
      BY DEF R
    <3>2. end.cluster \in Cluster
      BY <1>4, <3>1, ChainOf
    <3> QED
      BY <3>2 DEF Cluster
  <2> HIDE DEF fd
  <2>3. base = fd.wr_off
    BY DEF base
  <2> QED
    BY <1>5, <1>15, <2>1, <2>2, <2>3 DEF FileDescriptor, p
<1>17. HandleSound(fds'[d], new, more)
  <2>1. first # 0 /\ new.first_cluster = first /\ new.file_size = base + end.total
    BY <1>2, <1>9, EndIsNoCluster
  <2>2. base + end.total <= new.file_size
    BY <1>4, <1>5, <2>1
  <2> HIDE DEF fd
  <2>3. /\ j \in 1..Len(more[new.first_cluster]) /\ fds'[d].wr_cluster = more[new.first_cluster][j]
        /\ fds'[d].wr_cluster_off \in 0..bytes_per_cluster
        /\ fds'[d].wr_off = (j - 1) * bytes_per_cluster + fds'[d].wr_cluster_off
    BY <1>4, <1>16, <2>1
  <2> QED
    BY <1>16, <2>1, <2>2, <2>3 DEF HandleSound
<1>18. ASSUME NEW y \in FD \ {d}, fds[y] # NotOpen
       PROVE  fds[y] \in FileDescriptor /\ HandleSound(fds[y], At(dir', fds[y].entry), more) /\ fds[y].entry # p
  <2>1. fds[y] \in FileDescriptor /\ HandleSound(fds[y], At(dir, fds[y].entry), ch)
    BY <1>1, <1>18 DEF TextSound
  <2>2. fds[y].entry \in FilesOf(dir)
    BY <1>1, <1>18 DEF VolumeSound, DescriptorSound
  <2>3. fds[y].entry # p
    <3> SUFFICES ASSUME fds[y].entry = p PROVE FALSE
      OBVIOUS
    <3>1. Shared(fds, d, y)
      BY <1>18 DEF Shared
    <3>2. fds[d].mode = "r"
      BY <1>1, <3>1 DEF TextSound
    <3> QED
      BY <1>5, <3>2
  <2> DEFINE x == At(dir, fds[y].entry)
  <2>4. At(dir', fds[y].entry) = x
    BY <1>9, <2>2, <2>3 DEF FilesOf
  <2>5. x.file_size \in Nat /\ x.first_cluster \in S \cup {0} /\ x.file_size <= Holds(x, ch)
    BY <1>1, <2>2, FileIs DEF S
  <2>6. \A c \in S : Len(ch[c]) \in Nat /\ Len(more[c]) \in Nat
    <3> TAKE c \in S
    <3>1. Len(ch[c]) \in Nat
      BY <1>6, ChainOf
    <3>2. c \in R
      BY DEF R
    <3>3. Len(more[c]) \in Nat
      BY ONLY <1>4, <3>2, ChainOf
    <3> QED
      BY <3>1, <3>3
  <2> HIDE DEF x
  <2>7. HandleSound(fds[y], x, ch)
    BY <2>1 DEF x
  <2>8. HandleSound(fds[y], x, more)
    BY ONLY <1>3, <2>1, <2>5, <2>6, <2>7, HandleKept
  <2> QED
    BY <2>1, <2>3, <2>4, <2>8
<1>19. TextSound(dir', data', fds', more)
  <2>1. \A x \in FD : fds'[x] # NotOpen =>
           fds'[x] \in FileDescriptor /\ HandleSound(fds'[x], At(dir', fds'[x].entry), more)
    BY <1>15, <1>16, <1>17, <1>18 DEF new
  <2>2. \A x, y \in FD : Shared(fds', x, y) => fds'[x].mode = "r" /\ fds'[y].mode = "r"
    <3> SUFFICES ASSUME NEW x \in FD, NEW y \in FD, Shared(fds', x, y)
                 PROVE  fds'[x].mode = "r" /\ fds'[y].mode = "r"
      OBVIOUS
    <3>1. x # d /\ y # d
      <4>1. \A z \in FD \ {d} : fds[z] # NotOpen => fds[z].entry # p
        BY <1>18
      <4>2. fds'[d].entry = p /\ \A z \in FD \ {d} : fds'[z] = fds[z]
        BY <1>15, <1>16
      <4>3. fds'[x] # NotOpen /\ fds'[y] # NotOpen /\ x # y /\ fds'[x].entry = fds'[y].entry
        BY DEF Shared
      <4> HIDE DEF p
      <4> QED
        BY ONLY <4>1, <4>2, <4>3, x \in FD, y \in FD
    <3>2. Shared(fds, x, y) /\ fds'[x] = fds[x] /\ fds'[y] = fds[y]
      BY <1>15, <3>1 DEF Shared
    <3> QED
      BY <1>1, <3>2 DEF TextSound
  <2>3. DataTyped(data')
    BY <1>4, <1>8 DEF Written
  <2> QED
    BY <1>13, <1>14, <2>1, <2>2, <2>3 DEF TextSound
<1>20. FilesInv'
  BY <1>10, <1>19 DEF FilesInv
\* What is seen.
<1>21. ContentIn(fat', data', new) = SubSeq(ContentIn(fat, data, e), 1, base) \o buf
  <2>1. InVolume(fat, S, ch, data, e)
    BY <1>6, <1>7 DEF InVolume
  <2>2. new.file_size <= Holds(new, more)
    <3>1. p \in FilesOf(dir')
      BY <1>5, <1>12
    <3> QED
      BY <1>10, <3>1, FileIs DEF new
  <2>3. Written(data, data', more[first], base, Len(buf), buf)
    BY <1>4, <1>8
  <2>4. first \in R /\ Chained(fat', R, more)
    BY <1>4, <1>9 DEF R
  <2>5. GoesOn(S, ch, data, e, fat', R, more, first, base, buf, data', new)
    BY <1>2, <1>3, <1>5, <1>9, <2>2, <2>3, <2>4 DEF GoesOn
  <2>6. ContentIn(fat', data', new) = Rewritten(ContentIn(fat, data, e), base, buf)
    BY ONLY <2>1, <2>5, buf \in Seq(Byte), WrittenContent
  <2> QED
    BY <2>6 DEF Rewritten
<1>22. ASSUME NEW q \in FilesOf(dir) \ {p}
       PROVE  /\ At(dir', q).name = At(dir, q).name
              /\ ContentIn(fat', data', At(dir', q)) = ContentIn(fat, data, At(dir, q))
  <2>1. At(dir', q) = At(dir, q) /\ q \in FilesOf(dir) /\ q # p
    BY <1>9 DEF FilesOf
  <2>2. WritesFile(dir, ch, data, p, first, fat', more, data', base, buf)
    BY <1>2, <1>3, <1>4, <1>5, <1>7, <1>8, <1>9 DEF e, S, R, WritesFile
  <2>3. ContentIn(fat', data', At(dir, q)) = ContentIn(fat, data, At(dir, q))
    BY ONLY <1>1, <2>1, <2>2, OthersKept
  <2> QED
    BY <2>1, <2>3
<1>23. ContentsIn(fat', data', dir') = [ContentsIn(fat, data, dir) EXCEPT ![e.name] = ContentIn(fat', data', new)]
  <2>1. /\ FilesOf(dir') = FilesOf(dir) \cup {p} /\ At(dir', p).name = e.name
        /\ p \in FilesOf(dir) => At(dir, p).name = e.name
    BY <1>5, <1>9, <1>12 DEF e, new
  <2>2. \A q \in FilesOf(dir) \ {p} :
          /\ At(dir', q).name = At(dir, q).name
          /\ ContentIn(fat', data', At(dir', q)) = ContentIn(fat, data, At(dir, q))
    BY <1>22
  <2>3. ContentsIn(fat', data', dir') =
          [ContentsIn(fat, data, dir) EXCEPT ![e.name] = ContentIn(fat', data', At(dir', p))]
    BY ONLY <1>6, <1>7, <1>11, <1>13, <1>14, <2>1, <2>2, ContentsChange
  <2> QED
    BY <2>3 DEF new
<1> DEFINE h == Handles(fds, dir)
<1>24. /\ h[d] = Handle(e.name, fd.rd_off, base) /\ d \in DOMAIN h
       /\ h[d].name = e.name /\ h[d].wr_off = base
  BY DEF Handles, HandleOf, Handle, e, base
<1>25. Contents' = [Contents EXCEPT ![h[d].name] = SubSeq(@, 1, h[d].wr_off) \o buf]
  <2>1. ContentsIn(fat, data, dir)[e.name] = ContentIn(fat, data, e)
    BY <1>5, <1>6, <1>7, ContentsAre DEF e
  <2>2. Contents = ContentsIn(fat, data, dir) /\ Contents' = ContentsIn(fat', data', dir')
    BY ContentsOfVolume
  <2> HIDE DEF h
  <2> QED
    BY <1>21, <1>23, <1>24, <2>1, <2>2
<1>26. Handles(fds', dir') = WithHandle(h, d, HandleOf(fds'[d], dir'))
  <2>1. \A y \in FD \ {d} : fds[y] # NotOpen => At(dir', fds[y].entry).name = At(dir, fds[y].entry).name
    <3>1. \A y \in FD : fds[y] # NotOpen => fds[y].entry \in Places
      BY <1>1 DEF VolumeSound, DescriptorSound, FilesOf
    <3> QED
      BY <1>12, <3>1
  <2>2. Handles(fds', dir') = [Handles(fds, dir) EXCEPT ![d] = HandleOf(fds'[d], dir')]
    BY ONLY <1>15, <2>1, d \in FD, OneHandle
  <2> QED
    BY <2>2 DEF WithHandle
<1>27. HandleOf(fds'[d], dir') = Handle(e.name, fd.rd_off, base + Len(buf))
  <2>1. fds'[d] # NotOpen
    BY <1>16, FATDistinct
  <2>2. At(dir', fds'[d].entry).name = e.name
    BY <1>9, <1>16 DEF new
  <2> QED
    BY <1>3, <1>16, <2>1, <2>2 DEF HandleOf, Handle
<1>28. Handles(fds', dir') = [h EXCEPT ![d].wr_off = @ + Len(buf)]
  <2> HIDE DEF h
  <2>1. WrittenOf(h, d, Len(buf)) = WithHandle(h, d, Handle(e.name, fd.rd_off, base + Len(buf)))
    BY ONLY <1>24, HandleMoved
  <2> QED
    BY <1>26, <1>27, <2>1 DEF WrittenOf
<1>29. Volume!Write(d, buf)
  <2>1. out' = <<>>
    BY <1>8
  <2> QED
    BY ONLY d \in FD, <1>25, <1>28, <2>1, WriteSeen
<1> QED
  BY <1>20, <1>29

\* At first no name has a file and no descriptor is open.
LEMMA InitIsSeen ==
  ASSUME FATInit
  PROVE  FilesInv /\ Volume!Init
<1>1. PICK ch : VolumeSound(fat, dir, fds, ch)
  BY InitIsSound DEF FATInv
<1>2. FilesOf(dir) = {} /\ \A p \in Places : At(dir, p).name \notin Name
  <2>1. EmptyEntry.name = NoName
    BY DEF EmptyEntry
  <2> HIDE DEF EmptyEntry
  <2>2. \A p \in Places : At(dir, p) = EmptyEntry
    BY DEF FATInit, Places, At, EmptyDirectory
  <2> QED
    BY <2>1, <2>2, FATAssumption DEF FilesOf
<1>3. Chained(fat, Roots(dir), ch) /\ root_cluster \in Roots(dir) /\ DirectorySound(dir, ch)
  BY <1>1 DEF VolumeSound, Roots
<1>4. Ordered(dir, ch[root_cluster]) /\ Unique(dir)
  <2> DEFINE r == ch[root_cluster]
  <2>1. Distinct(r) /\ \A l \in Spots(r) : Spot(r, l) \in Places
    <3>1. Distinct(r)
      BY ONLY <1>3, ChainIsDistinct
    <3> HIDE DEF r
    <3> QED
      BY ONLY <3>1, SpotsOfChain
  <2> HIDE DEF r
  <2>2. Ordered(dir, r)
    BY <1>2, <2>1 DEF Ordered
  <2> QED
    BY <1>2, <2>2 DEF Unique, r
<1>5. fds = [d \in FD |-> NotOpen] /\ out = <<>> /\ DataTyped(data)
  BY DEF FATInit, DataTyped, Text
<1>6. FilesInv
  <2>1. TextSound(dir, data, fds, ch)
    BY <1>4, <1>5 DEF TextSound, Shared
  <2> QED
    BY <1>1, <2>1 DEF FilesInv
<1>7. Contents \in [Name -> {NoFile} \cup Seq(Byte)]
  <2>1. \A n \in Name : ContentsIn(fat, data, dir)[n] = NoFile
    <3>1. \A n \in Name : (\A p \in FilesOf(dir) : At(dir, p).name # n) => ContentsIn(fat, data, dir)[n] = NoFile
      BY ONLY <1>3, <1>4, ContentsAre
    <3> QED
      BY <1>2, <3>1
  <2>2. ContentsIn(fat, data, dir) = [n \in Name |-> ContentsIn(fat, data, dir)[n]]
    BY DEF ContentsIn
  <2> QED
    BY <2>1, <2>2, ContentsOfVolume
<1> QED
  BY <1>5, <1>6, <1>7 DEF Volume!Init

\* What is open in the volume is open as seen, and the other way round.
LEMMA SeenOpen ==
  ASSUME FilesInv, NEW d \in FD
  PROVE  fds[d] = NotOpen <=> Handles(fds, dir)[d] = NotOpen
<1>1. PICK ch : VolumeSound(fat, dir, fds, ch) /\ TextSound(dir, data, fds, ch)
  BY DEF FilesInv
<1>2. CASE fds[d] = NotOpen
  BY <1>2 DEF Handles, HandleOf
<1>3. CASE fds[d] # NotOpen
  <2>1. fds[d] \in FileDescriptor /\ At(dir, fds[d].entry).name \in Name
    BY <1>1, <1>3 DEF TextSound, VolumeSound, DescriptorSound, FilesOf
  <2>2. Handles(fds, dir)[d] # NotOpen
    BY ONLY <1>3, <2>1, d \in FD, OpenIsSeen
  <2> QED
    BY <1>3, <2>2
<1> QED
  BY <1>2, <1>3

\* A step of Files, by the descriptor it is of.
LEMMA VolumeSteps ==
  ASSUME NEW d \in FD
  PROVE  /\ Handles(fds, dir)[d] = NotOpen => \A n \in Name : Volume!Open(d, n) => Volume!Next
         /\ Handles(fds, dir)[d] # NotOpen =>
              /\ Volume!Close(d) => Volume!Next
              /\ \A len \in 0..MaxLen : \A buf \in [1..len -> Byte] : Volume!Write(d, buf) => Volume!Next
              /\ \A len \in 1..MaxLen : Volume!Read(d, len) => Volume!Next
              /\ \A offset \in 0..MaxSize : Volume!Load(d, MaxLen, offset) => Volume!Next
<1> DEFINE h == Handles(fds, dir)
<1>1. h = [x \in FD |-> IF fds[x] = NotOpen THEN NotOpen
                       ELSE [name |-> Entry(fds[x].entry).name,
                             rd_off |-> fds[x].rd_off, wr_off |-> fds[x].wr_off]]
  BY DEF Handles, HandleOf, Entry, At
<1>2. Volume!Next <=> \E x \in FD :
        \/ h[x] = NotOpen /\ \E n \in Name : Volume!Open(x, n)
        \/ h[x] # NotOpen /\ ( \/ Volume!Close(x)
                               \/ \E len \in 0..MaxLen : \E buf \in [1..len -> Byte] : Volume!Write(x, buf)
                               \/ \E len \in 1..MaxLen : Volume!Read(x, len)
                               \/ \E offset \in 0..MaxSize : Volume!Load(x, MaxLen, offset))
  BY ONLY <1>1 DEF Volume!Next
<1> HIDE DEF h
<1>3. QED
  BY ONLY <1>2, d \in FD DEF h

\* A call steps as Files does, or is not seen.
LEMMA VolumeStep ==
  ASSUME ~Crossing, FilesInv, [FATNext]_fatVars
  PROVE  FilesInv' /\ [Volume!Next]_(Volume!vars)
<1> USE DEF Handles
<1>1. CASE UNCHANGED fatVars
  BY <1>1, NothingSeen
<1>2. ASSUME NEW d \in FD, NEW n \in Name, NEW mode \in Mode, Open(d, n, mode)
      PROVE  FilesInv' /\ Volume!Next
  <2>1. FilesInv' /\ Volume!Open(d, n)
    BY <1>2, OpenSteps
  <2>2. Handles(fds, dir)[d] = NotOpen
    <3>1. fds[d] = NotOpen
      BY <1>2 DEF Open
    <3> QED
      BY ONLY FilesInv, d \in FD, <3>1, SeenOpen
  <2> QED
    BY ONLY <2>1, <2>2, n \in Name, d \in FD, VolumeSteps
<1>3. ASSUME NEW d \in FD, fds[d] # NotOpen, Use(d)
      PROVE  FilesInv' /\ Volume!Next
  <2>1. Handles(fds, dir)[d] # NotOpen
    BY ONLY FilesInv, d \in FD, <1>3, SeenOpen
  <2>2. MaxLen \in Nat /\ MaxSize \in Nat
    BY FATAssumption
  <2>3. CASE Close(d)
    <3>1. FilesInv' /\ Volume!Close(d)
      BY ONLY FilesInv, d \in FD, <2>3, CloseSteps
    <3> QED
      BY ONLY <2>1, <3>1, d \in FD, VolumeSteps
  <2>4. ASSUME NEW len \in 0..MaxLen, NEW buf \in [1..len -> Byte], Write(d, buf)
        PROVE  FilesInv' /\ Volume!Next
    <3>1. len \in Nat /\ buf \in Seq(Byte)
      BY <2>2
    <3>2. FilesInv' /\ Volume!Write(d, buf)
      BY ONLY ~Crossing, FilesInv, d \in FD, <1>3, <3>1, <2>4, WriteSteps
    <3> QED
      BY ONLY <2>1, <3>2, d \in FD, len \in 0..MaxLen, buf \in [1..len -> Byte], VolumeSteps
  <2>5. ASSUME NEW len \in 1..MaxLen, Read(d, len)
        PROVE  FilesInv' /\ Volume!Next
    <3>1. len \in Nat
      BY <2>2
    <3>2. FilesInv' /\ Volume!Read(d, len)
      BY ONLY FilesInv, d \in FD, <1>3, <3>1, <2>5, ReadSteps
    <3> QED
      BY ONLY <2>1, <3>2, d \in FD, len \in 1..MaxLen, VolumeSteps
  <2>6. ASSUME NEW offset \in 0..MaxSize, Load(d, MaxLen, offset)
        PROVE  FilesInv' /\ Volume!Next
    <3>1. offset \in Nat
      BY <2>2
    <3>2. FilesInv' /\ Volume!Load(d, MaxLen, offset)
      BY ONLY FilesInv, d \in FD, <1>3, <2>2, <3>1, <2>6, LoadSteps
    <3> QED
      BY ONLY <2>1, <3>2, d \in FD, offset \in 0..MaxSize, VolumeSteps
  <2> QED
    BY <1>3, <2>3, <2>4, <2>5, <2>6 DEF Use
<1> QED
  BY <1>1, <1>2, <1>3 DEF FATNext

\* However files are opened, created, written, read in pieces of any length,
\* loaded and closed through the descriptors of fat.cpp, each write in one
\* cluster or the first of a file, filling its clusters: what is read is what
\* was written, clusters do not show, files do not touch one another, and
\* each name finds its file.
THEOREM FilesImplemented == ~Crossing => (FATSpec => ImplementsFiles)
<1> SUFFICES ASSUME ~Crossing PROVE FATSpec => ImplementsFiles
  OBVIOUS
<1>1. FATInit => FilesInv /\ Volume!Init
  BY InitIsSeen
<1>2. FilesInv /\ [FATNext]_fatVars => FilesInv' /\ [Volume!Next]_(Volume!vars)
  BY VolumeStep
<1> QED
  BY <1>1, <1>2, PTL DEF FATSpec, ImplementsFiles, Volume!Spec

=============================================================================

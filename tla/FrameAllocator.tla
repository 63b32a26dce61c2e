--------------------------- MODULE FrameAllocator ---------------------------
(***************************************************************************)
(* BitmapMemoryManager of memory_manager.cpp: one bit for each frame of    *)
(* physical memory, set up from the memory map of the firmware, and a      *)
(* first-fit search over it.  Nothing guards the search: it is preempted   *)
(* between any two frames that it looks at, so that the calls of several   *)
(* tasks interleave.  Marking what was found is one step; so is Free.      *)
(***************************************************************************)
EXTENDS Integers, Sequences, SequencesExt, FiniteSets

CONSTANTS Task,             \* the tasks that allocate, and free, frames
          kFrameCount,      \* bound: frames that the bitmap stands for
          MaxFrames,        \* bound: frames that one call asks for
          MaxOwned,         \* bound: regions that are held or asked for
          MemoryMaps        \* bound: the memory maps that firmware may give

ASSUME FrameAssumption ==
  /\ kFrameCount \in Nat \ {0} /\ MaxFrames \in Nat \ {0} /\ MaxOwned \in Nat \ {0}

\* The firmware reports its memory in ascending order, each frame once, and
\* none beyond what the bitmap stands for.
ASSUME MapAssumption ==
  \A map \in MemoryMaps :
     /\ map \in Seq([start : Nat, pages : Nat, available : BOOLEAN])
     /\ \A k \in 1..Len(map) : map[k].start + map[k].pages <= kFrameCount
     /\ \A j, k \in 1..Len(map) : j < k => map[j].start + map[j].pages <= map[k].start

VARIABLES memory_map,   \* what the firmware reported
          described,    \* how many of its descriptors the loop has been through
          available_end, \* the end of the last available one among them
          booted,       \* whether InitializeMemoryManager has returned
          alloc_map,    \* the bitmap: TRUE for allocated
          range_end_,   \* the frame after the last one that may be given out
          call,         \* each task's call of Allocate: where it is in it
          owned,        \* ghost: the regions that were given to each task
          overtaken,    \* ghost: frames that others took after each task looked
          raced,        \* ghost: frames taken by a search that was overtaken
          freed         \* ghost: frames that others freed behind each search

boot == <<memory_map, described, available_end, booted, range_end_>>
ghosts == <<owned, overtaken, raced, freed>>
vars == <<boot, alloc_map, call, ghosts>>

Frame == 0..(kFrameCount - 1)
range_begin_ == 1

\* The frames of the region that starts at start and has n frames.
Region(start, n) == start..(start + n - 1)

MarkAllocated(map, start, n) == [f \in DOMAIN map |-> map[f] \/ f \in Region(start, n)]

Idle == [pc |-> "idle", num |-> 0, start |-> 0, i |-> 0]

Init ==
  /\ memory_map \in MemoryMaps
  /\ described = 0 /\ available_end = 0 /\ booted = FALSE
  /\ alloc_map = [f \in Frame |-> FALSE]
  /\ range_end_ = kFrameCount
  /\ call = [t \in Task |-> Idle]
  /\ owned = [t \in Task |-> {}]
  /\ overtaken = [t \in Task |-> {}] /\ raced = {} /\ freed = [t \in Task |-> {}]

-----------------------------------------------------------------------------
(* InitializeMemoryManager *)

\* Mutant: the gap before a descriptor is not marked.
DescribeNoGap ==
  /\ described < Len(memory_map)
  /\ LET desc == memory_map[described + 1]
     IN IF desc.available
        THEN available_end' = desc.start + desc.pages /\ UNCHANGED alloc_map
        ELSE /\ alloc_map' = MarkAllocated(alloc_map, desc.start, desc.pages)
             /\ UNCHANGED available_end
  /\ described' = described + 1
  /\ UNCHANGED <<memory_map, booted, range_end_, call, ghosts>>

\* One turn of the loop over the memory descriptors: what lies between the
\* available memory and the descriptor is marked, and so is the memory that it
\* describes unless it is available.
Describe ==
  /\ described < Len(memory_map)
  /\ LET desc == memory_map[described + 1]
         map == IF available_end < desc.start
                THEN MarkAllocated(alloc_map, available_end, desc.start - available_end)
                ELSE alloc_map
     IN IF desc.available
        THEN available_end' = desc.start + desc.pages /\ alloc_map' = map
        ELSE /\ alloc_map' = MarkAllocated(map, desc.start, desc.pages)
             /\ UNCHANGED available_end
  /\ described' = described + 1
  /\ UNCHANGED <<memory_map, booted, range_end_, call, ghosts>>

\* After the loop.
SetMemoryRange ==
  /\ ~booted /\ described = Len(memory_map)
  /\ range_end_' = available_end /\ booted' = TRUE
  /\ UNCHANGED <<memory_map, described, available_end, alloc_map, call, ghosts>>

-----------------------------------------------------------------------------
(* Allocate and Free *)

\* The frames of the regions in the set h.
Frames(h) == UNION { Region(r[1], r[2]) : r \in h }

Allocate(t) ==
  /\ booted /\ call[t].pc = "idle"
  /\ Cardinality(UNION { {u} \X owned[u] : u \in Task })
       + Cardinality({ u \in Task : call[u].pc = "scan" }) < MaxOwned
  /\ \E n \in 1..MaxFrames :
       call' = [call EXCEPT ![t] = [pc |-> "scan", num |-> n, start |-> range_begin_, i |-> 0]]
  /\ UNCHANGED <<boot, alloc_map, ghosts>>

Scanning(t) == call[t].pc = "scan" /\ call[t].i < call[t].num

\* The search of t ends without an area.
Ended(t) ==
  /\ call' = [call EXCEPT ![t] = Idle]
  /\ overtaken' = [overtaken EXCEPT ![t] = {}] /\ freed' = [freed EXCEPT ![t] = {}]
  /\ UNCHANGED <<boot, alloc_map, owned, raced>>

\* It starts again at a frame further on.
RestartAt(t, frame) ==
  /\ call' = [call EXCEPT ![t] = [@ EXCEPT !.start = frame, !.i = 0]]
  /\ overtaken' = [overtaken EXCEPT ![t] = {}]
  /\ UNCHANGED <<boot, alloc_map, owned, raced, freed>>

\* Mutant: the last frame of the range is taken for its end.
OutOfRangeEarly(t) ==
  /\ Scanning(t) /\ call[t].start + call[t].i >= range_end_ - 1
  /\ Ended(t)

\* The end of the range: no memory.
OutOfRange(t) ==
  /\ Scanning(t) /\ call[t].start + call[t].i >= range_end_
  /\ Ended(t)

\* Mutant: the search skips the frame after the one that was set.
InUseSkipping(t) ==
  LET c == call[t]
  IN /\ Scanning(t) /\ c.start + c.i < range_end_ /\ alloc_map[c.start + c.i]
     /\ RestartAt(t, c.start + c.i + 2)

\* A frame that is allocated: the search starts again after it.
InUse(t) ==
  LET c == call[t]
  IN /\ Scanning(t) /\ c.start + c.i < range_end_ /\ alloc_map[c.start + c.i]
     /\ RestartAt(t, c.start + c.i + 1)

Unused(t) ==
  LET c == call[t]
  IN /\ Scanning(t) /\ c.start + c.i < range_end_ /\ ~alloc_map[c.start + c.i]
     /\ call' = [call EXCEPT ![t] = [c EXCEPT !.i = c.i + 1]]
     /\ UNCHANGED <<boot, alloc_map, ghosts>>

\* num_frames in a row were found: they are marked and returned, to a task that
\* may hold the same region already (k tells them apart).  The searches
\* that have looked at some of them go on, overtaken.
Found(t) ==
  LET c == call[t]
      region == Region(c.start, c.num)
      Passed(u) == region \cap Region(call[u].start, call[u].i)
  IN /\ c.pc = "scan" /\ c.i = c.num
     /\ alloc_map' = MarkAllocated(alloc_map, c.start, c.num)
     /\ \E k \in 1..MaxOwned :
          /\ <<c.start, c.num, k>> \notin owned[t]
          /\ \A j \in 1..(k - 1) : <<c.start, c.num, j>> \in owned[t]
          /\ owned' = [owned EXCEPT ![t] = @ \cup {<<c.start, c.num, k>>}]
     /\ overtaken' = [u \in Task |-> IF u = t THEN {} ELSE overtaken[u] \cup Passed(u)]
     /\ raced' = raced \cup (region \cap overtaken[t])
     /\ freed' = [freed EXCEPT ![t] = {}]
     /\ call' = [call EXCEPT ![t] = Idle]
     /\ UNCHANGED boot

\* t gives the region r back and the bits of frames are cleared.
GiveBack(t, r, frames) ==
  /\ alloc_map' = [f \in Frame |-> alloc_map[f] /\ f \notin frames]
  /\ owned' = [owned EXCEPT ![t] = @ \ {r}]
  /\ overtaken' = [u \in Task |-> overtaken[u] \ frames]
  /\ raced' = raced \cap Frames(UNION { owned'[u] : u \in Task })
  /\ freed' = [u \in Task |-> freed[u] \cup { f \in frames : f < call[u].start }]
  /\ UNCHANGED <<boot, call>>

\* Mutant: the last frame of a region is not cleared.
FreeShort(t) ==
  /\ call[t].pc = "idle"
  /\ \E r \in owned[t] : GiveBack(t, r, Region(r[1], r[2] - 1))

\* Mutant: the frame after the region is cleared too.
FreeLong(t) ==
  /\ call[t].pc = "idle"
  /\ \E r \in owned[t] : GiveBack(t, r, Region(r[1], r[2] + 1))

\* A task gives a region back.
Free(t) ==
  /\ call[t].pc = "idle"
  /\ \E r \in owned[t] : GiveBack(t, r, Region(r[1], r[2]))

Next ==
  \/ Describe \/ SetMemoryRange
  \/ \E t \in Task :
       Allocate(t) \/ OutOfRange(t) \/ InUse(t) \/ Unused(t) \/ Found(t) \/ Free(t)

Spec == Init /\ [][Next]_vars

-----------------------------------------------------------------------------
(* Properties *)

Call == [pc : {"idle", "scan"}, num : 0..MaxFrames, start : Nat, i : 0..MaxFrames]

TypeOK ==
  /\ memory_map \in MemoryMaps /\ described \in 0..Len(memory_map)
  /\ available_end \in 0..kFrameCount /\ booted \in BOOLEAN
  /\ alloc_map \in [Frame -> BOOLEAN]
  /\ range_end_ \in 0..kFrameCount
  /\ call \in [Task -> Call]
  /\ owned \in [Task -> SUBSET (Nat \X (1..MaxFrames) \X (1..MaxOwned))]
  /\ overtaken \in [Task -> SUBSET Nat] /\ raced \in SUBSET Nat
  /\ freed \in [Task -> SUBSET Nat]

\* Whether the n frames from start on may be given out.
Fits(start, n) ==
  /\ start \in range_begin_..(range_end_ - n)
  /\ \A f \in Region(start, n) : ~alloc_map[f]

\* The frame f is held twice: by two tasks, or in two regions of one.
HeldTwice(f) ==
  \E t, u \in Task : \E r \in owned[t], s \in owned[u] :
     /\ <<t, r>> # <<u, s>>
     /\ f \in Region(r[1], r[2]) /\ f \in Region(s[1], s[2])

\* A frame is given out twice only by a search that was overtaken.
SharedOnlyByRace == \A f \in Frame : HeldTwice(f) => f \in raced

\* What was given out lies in the range, and only the frames of such a search
\* may be held without being marked, when one of their owners has freed them.
MarkedUnlessRaced ==
  \A t \in Task : \A r \in owned[t] :
     /\ range_begin_ <= r[1] /\ r[1] + r[2] <= range_end_
     /\ \A f \in Region(r[1], r[2]) : alloc_map[f] \/ f \in raced

\* A frame has one owner and is marked while it is held, unless it was taken by
\* a search that had found it unused before another call took it
\* (memory_manager.cpp:18).  When every owner has given the frame back, it is
\* sound again.  Neither half holds without the other: an unmarked frame is
\* given out again, and a shared one loses its mark when one owner frees it.
SoundUnlessRaced == SharedOnlyByRace /\ MarkedUnlessRaced

\* No frame is given out that the firmware did not report as available.
Available ==
  { f \in Frame : \E d \in Range(memory_map) :
                    d.available /\ f \in Region(d.start, d.pages) }

OwnedAvailable ==
  \A t \in Task : \A r \in owned[t] : Region(r[1], r[2]) \subseteq Available

\* What is marked is owned, or was never to be given out: nothing that was
\* freed stays marked.
NothingLost ==
  \A f \in Frame :
     alloc_map[f] => \/ f \notin Available
                     \/ \E t \in Task : \E r \in owned[t] : f \in Region(r[1], r[2])

\* Allocate fails only when there is no room anywhere, but where another task
\* has freed a frame behind its search.
FailsOnlyWhenFull ==
  [][\A t \in Task : OutOfRange(t) =>
       \A start \in Frame :
          Fits(start, call[t].num) => Region(start, call[t].num) \cap freed[t] # {}]_vars

\* What it returns is the first room there is, but for the frames that other
\* calls have taken or freed behind its search.
FirstFit ==
  [][\A t \in Task : Found(t) =>
       /\ \A f \in Region(call[t].start, call[t].num) : ~alloc_map[f] \/ f \in overtaken[t]
       /\ \A start \in Frame :
            start < call[t].start /\ Fits(start, call[t].num) =>
              Region(start, call[t].num) \cap freed[t] # {}]_vars
=============================================================================

-------------------------- MODULE MCFrameAllocator --------------------------
(* FrameAllocator with small memory maps: at most three descriptors, in      *)
(* ascending order, with or without gaps, and an available one among them.  *)
EXTENDS FrameAllocator

Descriptors == [start : Frame, pages : 1..kFrameCount, available : BOOLEAN]

AllMaps ==
  { map \in UNION { [1..n -> { d \in Descriptors : d.start + d.pages <= kFrameCount }] : n \in 1..3 } :
      /\ \A k \in 1..(Len(map) - 1) : map[k].start + map[k].pages <= map[k + 1].start
      /\ \E k \in 1..Len(map) : map[k].available }

Symmetry == Permutations(Task)
=============================================================================

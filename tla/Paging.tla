------------------------------- MODULE Paging -------------------------------
(***************************************************************************)
(* The page maps of applications: paging.cpp, the loader of terminal.cpp   *)
(* (SetupPML4, LoadApp, ExecuteFile), and the system calls that widen what *)
(* a page fault may map.  An application's file is loaded once, into a     *)
(* page map that is kept in app_loads; every run gets a copy that shares   *)
(* its pages, and copies a page when it first stores into it.              *)
(*                                                                         *)
(* The application's half of the address space has NumPages pages, reached *)
(* through Levels levels of tables (4 in the code); an entry of a level    *)
(* leads to Span[level] pages.  A table entry is named <<level, index>>,   *)
(* counted over the whole level from the root down; level Levels holds the *)
(* pages.  The kernel's half, copied from map to map, and the race inside  *)
(* Allocate are left out, and so is the translation cache.                 *)
(***************************************************************************)
EXTENDS Integers, FiniteSetsExt, Functions

CONSTANTS Task, App, NumFrames, Levels, NumPages, Span,
          ImagePages,          \* pages of an application's image, the same for all
          StackPages, ArgsPage,
          MaxHeap,             \* bound: pages from DemandPages
          MaxMaps,             \* bound: pages of mapped files
          MaxMishaps,          \* bound: loads start while no more have gone wrong
          AnyBuffer            \* whether system calls store wherever they are told

VARIABLES data,       \* what each frame holds that memory_manager has given out
          maps,       \* page maps: the present entries, by the frame of the root
          cr3,        \* the root that each task uses; KernelMap for the kernel's own
          app_loads,  \* the root of each application's loaded image, or KernelMap
          pc,         \* where each task is in ExecuteFile
          heap,       \* pages between DPagingBegin and DPagingEnd
          fmaps,      \* pages of FileMaps
          mishaps     \* ghost: loads that failed or loaded what another task had loaded

vars == <<data, maps, cr3, app_loads, pc, heap, fmaps, mishaps>>
limits == <<heap, fmaps>>

Page == 0..(NumPages - 1)
Frame == 1..NumFrames
KernelMap == 0

\* An application has a page at least, and is linked to addresses below its
\* stack, which lies below its arguments.
ASSUME LayoutAssumption ==
  /\ Levels \in Nat \ {0} /\ NumPages \in Nat /\ NumFrames \in Nat
  /\ Span \in [1..Levels -> Nat \ {0}] /\ Span[Levels] = 1
  /\ ImagePages \cup StackPages \cup {ArgsPage} \subseteq Page
  /\ ImagePages # {} /\ StackPages # {}
  /\ ImagePages \cap (StackPages \cup {ArgsPage}) = {} /\ ArgsPage \notin StackPages

\* The entry for page p in the table of a level.
Entry(level, p) == <<level, p \div Span[level]>>
IsLeaf(e) == e[1] = Levels

DPagingBegin == Max(ImagePages) + 1
HeapPages(t) == DPagingBegin..(DPagingBegin + heap[t] - 1)

\* Files are mapped from the stack downwards.
FileMapTop == Min(StackPages)
FilePages(t) == (FileMapTop - fmaps[t])..(FileMapTop - 1)

-----------------------------------------------------------------------------
(* paging.cpp.  A function takes and returns what it works on, m: the      *)
(* frames, the page maps, the frame it made last, and whether it succeeded. *)

Memory == [data |-> data, maps |-> maps, new |-> KernelMap, ok |-> TRUE]

Remember(m) == data' = m.data /\ maps' = m.maps

\* f with v at x, which may be new.
With(f, x, v) == [y \in DOMAIN f \cup {x} |-> IF y = x THEN v ELSE f[y]]

Free(m) == Frame \ DOMAIN m.data
FreeFrames(m, frames) == [m EXCEPT !.data = Restrict(@, DOMAIN @ \ frames)]

\* Mutant: the frame keeps what its last owner left.
NewPageMapDirty(m) ==
  IF ~m.ok \/ Free(m) = {} THEN [m EXCEPT !.ok = FALSE]
  ELSE [m EXCEPT !.data = With(@, Min(Free(m)), "new"), !.new = Min(Free(m))]

NewPageMap(m) ==
  IF ~m.ok \/ Free(m) = {} THEN [m EXCEPT !.ok = FALSE]
  ELSE [m EXCEPT !.data = With(@, Min(Free(m)), "zero"), !.new = Min(Free(m))]

\* table[e] of the page map root.
SetEntry(m, root, e, frame, writable) ==
  [m EXCEPT !.maps = With(@, root, With(@[root], e, [frame |-> frame, writable |-> writable]))]

\* The loop of SetupPageMap for one entry: a new frame if nothing is there.
SetupEntry(m, root, e, writable) ==
  LET present == e \in DOMAIN m.maps[root]
      n == IF present THEN m ELSE NewPageMap(m)
      frame == IF present THEN m.maps[root][e].frame ELSE n.new
  IN IF n.ok THEN SetEntry(n, root, e, frame, ~IsLeaf(e) \/ writable) ELSE n

\* The calls of SetupPageMap that lead to a page, from the root down.
SetupPage(m, root, p, writable) ==
  LET down[level \in 0..Levels] ==
        IF level = 0 THEN m
        ELSE SetupEntry(down[level - 1], root, Entry(level, p), writable)
  IN down[Levels]

\* Its loops take the pages in ascending order.
SetupPageMaps(m, root, pages, writable) ==
  LET upto[n \in 0..NumPages] ==
        IF n = 0 THEN m
        ELSE IF n - 1 \in pages THEN SetupPage(upto[n - 1], root, n - 1, writable)
        ELSE upto[n - 1]
  IN upto[NumPages]

\* Mutant: pages stay writable.
CopyEntryWritable(m, dest, src, e) ==
  LET n == IF IsLeaf(e) THEN m ELSE NewPageMap(m)
      frame == IF IsLeaf(e) THEN m.maps[src][e].frame ELSE n.new
  IN IF n.ok THEN SetEntry(n, dest, e, frame, TRUE) ELSE n

\* Tables are new, pages shared and read-only.
CopyEntry(m, dest, src, e) ==
  LET n == IF IsLeaf(e) THEN m ELSE NewPageMap(m)
      frame == IF IsLeaf(e) THEN m.maps[src][e].frame ELSE n.new
  IN IF n.ok THEN SetEntry(n, dest, e, frame, ~IsLeaf(e) /\ m.maps[src][e].writable) ELSE n

\* What src has on the way to a page, and dest has not yet.
CopyPage(m, dest, src, p) ==
  LET down[level \in 0..Levels] ==
        IF level = 0 THEN m
        ELSE LET n == down[level - 1]
                 e == Entry(level, p)
             IN IF e \in DOMAIN n.maps[src] \ DOMAIN n.maps[dest] THEN CopyEntry(n, dest, src, e)
                ELSE n
  IN down[Levels]

CopyPageMaps(m, dest, src) ==
  LET upto[n \in 0..NumPages] == IF n = 0 THEN m ELSE CopyPage(upto[n - 1], dest, src, n - 1)
  IN upto[NumPages]

Frames(m, root, entries) == { m.maps[root][e].frame : e \in entries }

\* Mutant: tables only are freed.
CleanPageMapsTables(m, root) ==
  LET tables == { e \in DOMAIN m.maps[root] : ~IsLeaf(e) }
  IN [FreeFrames(m, Frames(m, root, tables)) EXCEPT !.maps[root] = <<>>]

\* What is writable belongs to this map alone and is freed.
CleanPageMaps(m, root) ==
  LET own == { e \in DOMAIN m.maps[root] : m.maps[root][e].writable }
  IN [FreeFrames(m, Frames(m, root, own)) EXCEPT !.maps[root] = <<>>]

\* Mutant: the root is not freed.
FreePageMapNot(m, root) == m

FreePageMap(m, root) ==
  [FreeFrames(m, {root}) EXCEPT !.maps = Restrict(@, DOMAIN @ \ {root})]

-----------------------------------------------------------------------------
(* The loader *)

\* SetupPML4: an empty page map, in m.new, for the caller to switch to.
SetupPML4(m) ==
  LET n == NewPageMap(m)
  IN IF n.ok THEN [n EXCEPT !.maps = With(@, n.new, <<>>)] ELSE n

\* LoadELF into the page map root.
LoadELF(m, root) ==
  LET n == SetupPageMaps(m, root, ImagePages, FALSE)
      pages == Frames(n, root, { Entry(Levels, p) : p \in ImagePages })
  IN IF n.ok THEN [n EXCEPT !.data = [f \in DOMAIN @ |-> IF f \in pages THEN "image" ELSE @[f]]]
     ELSE n

Init ==
  /\ data = <<>> /\ maps = <<>>
  /\ cr3 = [t \in Task |-> KernelMap]
  /\ app_loads = [a \in App |-> KernelMap]
  /\ pc = [t \in Task |-> [at |-> "shell", app |-> "none"]]
  /\ heap = [t \in Task |-> 0] /\ fmaps = [t \in Task |-> 0]
  /\ mishaps = 0

At(t, place) == pc[t].at = place
Goto(t, place) == pc' = [pc EXCEPT ![t].at = place]

\* The error returns of LoadApp and ExecuteFile: the task goes on with the
\* page map it has, and nothing is freed.
Fail(t) == Goto(t, "shell") /\ mishaps' = mishaps + 1

\* LoadApp up to the insertion into app_loads, or to its first return.
LoadApp(t, a) ==
  LET m == SetupPML4(Memory)
      root == m.new
      loaded == app_loads[a] # KernelMap
      n == IF ~m.ok THEN m
           ELSE IF loaded THEN CopyPageMaps(m, root, app_loads[a]) ELSE LoadELF(m, root)
  IN /\ At(t, "shell") /\ mishaps <= MaxMishaps
     /\ Remember(n)
     /\ cr3' = IF m.ok THEN [cr3 EXCEPT ![t] = root] ELSE cr3
     /\ IF n.ok
        THEN pc' = [pc EXCEPT ![t] = [at |-> IF loaded THEN "args" ELSE "insert", app |-> a]]
             /\ mishaps' = mishaps
        ELSE Fail(t)
     /\ UNCHANGED <<app_loads, limits>>

\* LoadApp for a file that is no ELF file, or none that LoadELF accepts: the new
\* page map stays empty.
LoadInvalid(t) ==
  LET m == SetupPML4(Memory)
  IN /\ At(t, "shell") /\ mishaps <= MaxMishaps
     /\ m.ok /\ Remember(m)
     /\ cr3' = [cr3 EXCEPT ![t] = m.new]
     /\ Fail(t)
     /\ UNCHANGED <<app_loads, limits>>

\* The rest of LoadApp: the image is kept and the task given a copy.
\* insert() leaves alone what another task has inserted before.
Insert(t) ==
  LET a == pc[t].app
      again == app_loads[a] # KernelMap
      m == SetupPML4(Memory)
      n == IF m.ok THEN CopyPageMaps(m, m.new, cr3[t]) ELSE m
  IN /\ At(t, "insert")
     /\ app_loads' = IF again THEN app_loads ELSE [app_loads EXCEPT ![a] = cr3[t]]
     /\ Remember(n)
     /\ cr3' = IF m.ok THEN [cr3 EXCEPT ![t] = m.new] ELSE cr3
     /\ IF n.ok THEN Goto(t, "args") /\ mishaps' = mishaps + (IF again THEN 1 ELSE 0) ELSE Fail(t)
     /\ UNCHANGED limits

\* The pages of the arguments and of the stack; MakeArgVector fails when
\* there are too many arguments.
Args(t) ==
  LET m == SetupPageMaps(Memory, cr3[t], {ArgsPage}, TRUE)
      args == m.maps[cr3[t]][Entry(Levels, ArgsPage)].frame
      n == SetupPageMaps([m EXCEPT !.data[args] = "args"], cr3[t], StackPages, TRUE)
  IN /\ At(t, "args")
     /\ \/ /\ m.ok /\ n.ok /\ Remember(n) /\ Goto(t, "run") /\ mishaps' = mishaps
        \/ /\ m.ok /\ ~n.ok /\ Remember(n) /\ Fail(t)
        \/ /\ Remember(m) /\ Fail(t)
     /\ UNCHANGED <<cr3, app_loads, limits>>

-----------------------------------------------------------------------------
(* The application runs *)

Leaf(t, p) == maps[cr3[t]][Entry(Levels, p)]
Present(t, p) == Entry(Levels, p) \in DOMAIN maps[cr3[t]]

\* Mutant: the page is made writable where it is.
CopyOnePageInPlace(m, root, p) ==
  SetEntry(m, root, Entry(Levels, p), m.maps[root][Entry(Levels, p)].frame, TRUE)

CopyOnePage(m, root, p) ==
  LET e == Entry(Levels, p)
      n == NewPageMap(m)
      old == m.maps[root][e].frame
  IN IF n.ok THEN SetEntry([n EXCEPT !.data[n.new] = m.data[old]], root, e, n.new, TRUE) ELSE n

\* Mutant: the file is not read.
PreparePageCacheUnread(m, root, p) == SetupPageMaps(m, root, {p}, TRUE)

PreparePageCache(m, root, p) ==
  LET n == SetupPageMaps(m, root, {p}, TRUE)
  IN IF n.ok THEN [n EXCEPT !.data[n.maps[root][Entry(Levels, p)].frame] = "file"] ELSE n

\* HandlePageFault for an access to p; ~ok when it returns an error.
HandlePageFault(t, p, write) ==
  CASE Present(t, p) /\ write -> CopyOnePage(Memory, cr3[t], p)
    [] ~Present(t, p) /\ p \in HeapPages(t) -> SetupPageMaps(Memory, cr3[t], {p}, TRUE)
    [] ~Present(t, p) /\ p \in FilePages(t) \ HeapPages(t) ->
         PreparePageCache(Memory, cr3[t], p)
    [] OTHER -> [Memory EXCEPT !.ok = FALSE]

\* An access of the application that the processor cannot do.
Faults(t, p, write) == Present(t, p) => write /\ ~Leaf(t, p).writable

\* The end of ExecuteFile: CleanPageMaps and FreePML4.
CleanUp(t, m) ==
  /\ Remember(FreePageMap(CleanPageMaps(m, cr3[t]), cr3[t]))
  /\ cr3' = [cr3 EXCEPT ![t] = KernelMap]
  /\ heap' = [heap EXCEPT ![t] = 0] /\ fmaps' = [fmaps EXCEPT ![t] = 0]
  /\ Goto(t, "shell")
  /\ UNCHANGED <<app_loads, mishaps>>

Exit(t) == At(t, "run") /\ CleanUp(t, Memory)

\* A fault that is served; one that is not ends the application (KillApp).
Fault(t) ==
  /\ At(t, "run")
  /\ \E p \in Page, write \in BOOLEAN :
       LET m == HandlePageFault(t, p, write)
       IN /\ Faults(t, p, write)
          /\ \/ m.ok /\ Remember(m) /\ UNCHANGED <<cr3, app_loads, pc, limits, mishaps>>
             \/ ~m.ok /\ CleanUp(t, m)

StoreInto(t, p) ==
  /\ data' = [data EXCEPT ![Leaf(t, p).frame] = "new"]
  /\ UNCHANGED <<maps, cr3, app_loads, pc, limits, mishaps>>

UserStore(t) ==
  At(t, "run") /\ \E p \in Page : Present(t, p) /\ Leaf(t, p).writable /\ StoreInto(t, p)

\* A system call that stores through a pointer of the application, such as
\* ReadFile.  The kernel runs with the WP bit cleared: only a page that is
\* not there faults, and that is served as above before the store.
KernelStore(t) ==
  At(t, "run") /\ \E p \in Page : Present(t, p) /\ (AnyBuffer \/ Leaf(t, p).writable)
                                  /\ StoreInto(t, p)

DemandPages(t) ==
  /\ At(t, "run") /\ heap[t] < MaxHeap
  /\ heap' = [heap EXCEPT ![t] = @ + 1]
  /\ UNCHANGED <<data, maps, cr3, app_loads, pc, fmaps, mishaps>>

\* MapFile, for a file of one page.
MapFile(t) ==
  /\ At(t, "run") /\ fmaps[t] < MaxMaps
  /\ fmaps' = [fmaps EXCEPT ![t] = @ + 1]
  /\ UNCHANGED <<data, maps, cr3, app_loads, pc, heap, mishaps>>

Next ==
  \E t \in Task :
     \/ \E a \in App : LoadApp(t, a)
     \/ LoadInvalid(t) \/ Insert(t) \/ Args(t)
     \/ Fault(t) \/ UserStore(t) \/ KernelStore(t) \/ DemandPages(t) \/ MapFile(t) \/ Exit(t)

Spec == Init /\ [][Next]_vars

-----------------------------------------------------------------------------
(* Properties *)

\* The places that refer to a frame: <<root, entry>>.
References == UNION { {r} \X DOMAIN maps[r] : r \in DOMAIN maps }
FrameAt(ref) == maps[ref[1]][ref[2]].frame

\* A frame is in use exactly while a page map refers to it: no page map
\* leads to a frame that others may be given, and cleaning up frees all.
FramesAccounted == DOMAIN data = DOMAIN maps \cup { FrameAt(ref) : ref \in References }

\* Only pages of images are shared, and only for reading.
SharedReadOnly ==
  \A q, r \in References :
     q # r /\ FrameAt(q) = FrameAt(r) =>
       \A ref \in {q, r} : IsLeaf(ref[2]) /\ ~maps[ref[1]][ref[2]].writable

\* Page maps and frames are lost only when a load fails or two tasks load
\* the same application at once.
LostByMishap ==
  mishaps = 0 => DOMAIN maps = ({ cr3[t] : t \in Task } \cup { app_loads[a] : a \in App })
                            \ {KernelMap}

\* The image that is kept for later runs stays as it was loaded, with its
\* pages read-only (terminal.cpp:100).
ImagesIntact ==
  \A a \in App : LET root == app_loads[a] IN root # KernelMap =>
     /\ root \in DOMAIN maps
     /\ \A p \in ImagePages :
          /\ Entry(Levels, p) \in DOMAIN maps[root]
          /\ LET e == maps[root][Entry(Levels, p)]
             IN e.frame \in DOMAIN data /\ data[e.frame] = "image" /\ ~e.writable

\* What an application sees in a page, touched or not.
Seen(t, p) ==
  IF ~At(t, "run") THEN "none"
  ELSE IF Present(t, p) THEN data[Leaf(t, p).frame]
  ELSE IF p \in HeapPages(t) THEN "zero"
  ELSE IF p \in FilePages(t) THEN "file"
  ELSE "none"

Promised == INSTANCE AppMemory WITH mem <- [t \in Task |-> [p \in Page |-> Seen(t, p)]]

\* Sharing, copying and mapping on demand cannot be told from a memory of
\* one's own.
ImplementsAppMemory == Promised!Spec
=============================================================================

----------------------------- MODULE PagingProof -----------------------------
(***************************************************************************)
(* Proofs about Paging, for every number of tasks, applications, frames,   *)
(* pages and levels: every frame is accounted for, sharing is for reading, *)
(* nothing is lost but by a mishap, images stay as they were loaded, and   *)
(* an application sees what AppMemory says.                                *)
(* In the words of the proofs a map is used by a task that has left the    *)
(* loader with it, and pristine while it holds an image and nothing else.  *)
(***************************************************************************)
EXTENDS Paging, WellFoundedInduction, TLAPS

LeafOf(p) == Entry(Levels, p)
ImageEntries == { LeafOf(p) : p \in ImagePages }

\* Frames are given out for roots and for what entries lead to, and no entry
\* leads to a root.
Accounted(out, mp) ==
  /\ out \subseteq Frame /\ DOMAIN mp \subseteq out
  /\ \A r \in DOMAIN mp : \A e \in DOMAIN mp[r] : mp[r][e].frame \in out \ DOMAIN mp
  /\ \A f \in out \ DOMAIN mp :
       \E r \in DOMAIN mp : \E e \in DOMAIN mp[r] : mp[r][e].frame = f

\* Two entries that lead to the same frame are read-only.
Shared(mp) ==
  \A q, r \in DOMAIN mp : \A c \in DOMAIN mp[q], e \in DOMAIN mp[r] :
     mp[q][c].frame = mp[r][e].frame /\ (q # r \/ c # e) => ~mp[q][c].writable

\* Only pages of the image are read-only.
OnlyImages(mp) ==
  \A r \in DOMAIN mp : \A e \in DOMAIN mp[r] : ~mp[r][e].writable => e \in ImageEntries

\* A page that is read-only is also in a map that no task cleans up.
Kept(mp, used) ==
  \A r \in DOMAIN mp : \A e \in DOMAIN mp[r] : ~mp[r][e].writable =>
     \E k \in DOMAIN mp \ used : e \in DOMAIN mp[k] /\ mp[k][e].frame = mp[r][e].frame

Good(out, mp, used) == Accounted(out, mp) /\ Shared(mp) /\ OnlyImages(mp) /\ Kept(mp, used)

Pure(mp, r) == \A e \in DOMAIN mp[r] : IsLeaf(e) => ~mp[r][e].writable

HoldsImage(mp, r) ==
  \A p \in ImagePages : LeafOf(p) \in DOMAIN mp[r] /\ ~mp[r][LeafOf(p)].writable

ShowsImage(d, mp, r) == \A p \in ImagePages : d[mp[r][LeafOf(p)].frame] = "image"

Loading == { t \in Task : At(t, "insert") }
Using == { t \in Task : At(t, "args") \/ At(t, "run") }
Used == { cr3[t] : t \in Using }
Loads == { app_loads[a] : a \in App } \ {KernelMap}
Pristine == Loads \cup { cr3[t] : t \in Loading }

PTypeOK ==
  /\ cr3 \in [Task -> Frame \cup {KernelMap}]
  /\ app_loads \in [App -> Frame \cup {KernelMap}]
  /\ pc \in [Task -> [at : {"shell", "insert", "args", "run"}, app : App \cup {"none"}]]
  /\ \A t \in Loading : pc[t].app \in App
  /\ mishaps \in Nat

\* The map of a task that runs an application is nobody else's.
Apart ==
  /\ Used \cup Pristine \subseteq DOMAIN maps
  /\ Used \cap Pristine = {}
  /\ \A t, u \in Using : t # u => cr3[t] # cr3[u]

Images ==
  \A r \in Pristine : Pure(maps, r) /\ HoldsImage(maps, r)
                      /\ (~AnyBuffer => ShowsImage(data, maps, r))

Tidy ==
  mishaps = 0 => /\ \A t \in Task : At(t, "shell") => cr3[t] = KernelMap
                 /\ DOMAIN maps = Used \cup Pristine

MInv == PTypeOK /\ Good(DOMAIN data, maps, Used) /\ Apart /\ Images /\ Tidy

-----------------------------------------------------------------------------
(* Numbers and loops *)

\* A set of numbers has a least one.
LEMMA Least ==
  ASSUME NEW T \in SUBSET Nat, T # {}
  PROVE  \E n \in T : \A k \in T : n <= k
<1> DEFINE R == OpToRel(<, Nat)
<1>1. IsWellFoundedOn(R, Nat)
  BY NatLessThanWellFounded
<1> HIDE DEF R
<1>2. PICK n \in T : \A k \in T : ~(<<k, n>> \in R)
  BY <1>1, WFMin
<1>3. \A a, b \in Nat : a < b => <<a, b>> \in R
  BY DEF R, OpToRel
<1>4. ASSUME NEW k \in T PROVE n <= k
  <2>1. k \in Nat /\ n \in Nat
    OBVIOUS
  <2>2. ~(k < n)
    BY <1>2, <1>3, <2>1
  <2> QED
    BY <2>1, <2>2
<1> QED
  BY <1>4

\* What holds at the start of a loop and after every round holds to the end.
LEMMA Rounds ==
  ASSUME NEW n \in Nat, NEW T, 0 \in T, \A k \in 1..n : k - 1 \in T => k \in T
  PROVE  \A k \in 0..n : k \in T
<1> DEFINE Miss == { k \in 0..n : k \notin T }
<1>1. SUFFICES ASSUME Miss # {} PROVE FALSE
  OBVIOUS
<1>2. Miss \in SUBSET Nat
  OBVIOUS
<1>3. PICK k \in Miss : \A j \in Miss : k <= j
  <2> HIDE DEF Miss
  <2> QED
    BY <1>1, <1>2, Least
<1>4. k \in 1..n
  OBVIOUS
<1>5. k - 1 \in 0..n /\ ~(k <= k - 1)
  BY <1>4
<1>6. k - 1 \notin Miss
  BY <1>3, <1>5
<1> QED
  BY <1>4, <1>5, <1>6

\* Allocate (memory_manager.cpp) takes the least free frame.
LEMMA LeastFree ==
  ASSUME NEW m, Free(m) # {}
  PROVE  Min(Free(m)) \in Free(m)
<1>1. Free(m) \in SUBSET Nat
  BY LayoutAssumption DEF Free, Frame
<1>2. \E n \in Free(m) : \A k \in Free(m) : n <= k
  BY <1>1, Least
<1> QED
  BY <1>2 DEF Min

\* The entries on the way to a page are of different levels, and those of
\* the pages themselves are different.
LEMMA EntriesApart ==
  /\ \A level \in 1..Levels : \A p \in Page : IsLeaf(Entry(level, p)) <=> level = Levels
  /\ \A p \in Page : IsLeaf(LeafOf(p))
  /\ \A p, q \in Page : LeafOf(p) = LeafOf(q) => p = q
<1>1. \A p \in Page : p \div Span[Levels] = p
  <2>1. \A p \in Page : p \in Nat
    BY LayoutAssumption DEF Page
  <2>2. \A p \in Nat : p \div 1 = p
    OBVIOUS
  <2> QED
    BY <2>1, <2>2, LayoutAssumption
<1>2. Levels \in 1..Levels
  BY LayoutAssumption
<1> QED
  BY <1>1, <1>2 DEF IsLeaf, Entry, LeafOf

-----------------------------------------------------------------------------
(* What the loops of paging.cpp pass through *)

\* The calls of SetupPageMap for a page.
LEMMA SetupPageRounds ==
  ASSUME NEW m, NEW root, NEW p, NEW writable
  PROVE  \E run : /\ run[0] = m
                  /\ \A k \in 1..Levels : run[k] = SetupEntry(run[k - 1], root, Entry(k, p), writable)
                  /\ SetupPage(m, root, p, writable) = run[Levels]
<1> DEFINE Round(n, k) == SetupEntry(n, root, Entry(k, p), writable)
           Until(n, g) == g = [k \in 0..n |-> IF k = 0 THEN m ELSE Round(g[k - 1], k)]
           Runs == { n \in Nat : \E g : Until(n, g) }
<1> HIDE DEF Round
<1>1. 0 \in Runs
  <2>1. Until(0, [k \in 0..0 |-> m])
    OBVIOUS
  <2> QED
    BY <2>1
<1>2. ASSUME NEW k \in 1..Levels, k - 1 \in Runs PROVE k \in Runs
  <2>1. PICK g : Until(k - 1, g)
    BY <1>2
  <2> DEFINE h == [j \in 0..k |-> IF j = k THEN Round(g[k - 1], k) ELSE g[j]]
  <2>2. \A j \in 0..k : h[j] = IF j = 0 THEN m ELSE Round(h[j - 1], j)
    BY <2>1
  <2>3. Until(k, h)
    BY <2>2
  <2> HIDE DEF Until, h
  <2> QED
    BY <2>3
<1> DEFINE run == CHOOSE g : Until(Levels, g)
<1>3. Until(Levels, run)
  <2>1. Levels \in Nat /\ Levels \in 0..Levels
    BY LayoutAssumption
  <2> HIDE DEF Runs
  <2>2. \A k \in 0..Levels : k \in Runs
    BY <1>1, <1>2, <2>1, Rounds
  <2>3. Levels \in Runs
    BY <2>1, <2>2
  <2>4. \E g : Until(Levels, g)
    BY <2>3 DEF Runs
  <2> HIDE DEF Until
  <2> QED
    BY <2>4
<1>4. SetupPage(m, root, p, writable) = run[Levels]
  BY DEF SetupPage, Round
<1> HIDE DEF run
<1>5. run[0] = m /\ \A k \in 1..Levels : run[k] = Round(run[k - 1], k)
  BY <1>3, LayoutAssumption
<1> QED
  BY <1>4, <1>5 DEF Round

\* Its loops, page by page.
LEMMA SetupRounds ==
  ASSUME NEW m, NEW root, NEW pages, NEW writable
  PROVE  \E run : /\ run[0] = m
                  /\ \A k \in 1..NumPages : run[k] = IF k - 1 \in pages
                                               THEN SetupPage(run[k - 1], root, k - 1, writable)
                                               ELSE run[k - 1]
                  /\ SetupPageMaps(m, root, pages, writable) = run[NumPages]
<1> DEFINE Round(n, k) == IF k - 1 \in pages THEN SetupPage(n, root, k - 1, writable) ELSE n
           Until(n, g) == g = [k \in 0..n |-> IF k = 0 THEN m ELSE Round(g[k - 1], k)]
           Runs == { n \in Nat : \E g : Until(n, g) }
<1> HIDE DEF Round
<1>1. 0 \in Runs
  <2>1. Until(0, [k \in 0..0 |-> m])
    OBVIOUS
  <2> QED
    BY <2>1
<1>2. ASSUME NEW k \in 1..NumPages, k - 1 \in Runs PROVE k \in Runs
  <2>1. PICK g : Until(k - 1, g)
    BY <1>2
  <2> DEFINE h == [j \in 0..k |-> IF j = k THEN Round(g[k - 1], k) ELSE g[j]]
  <2>2. \A j \in 0..k : h[j] = IF j = 0 THEN m ELSE Round(h[j - 1], j)
    BY <2>1
  <2>3. Until(k, h)
    BY <2>2
  <2> HIDE DEF Until, h
  <2> QED
    BY <2>3
<1> DEFINE run == CHOOSE g : Until(NumPages, g)
<1>3. Until(NumPages, run)
  <2>1. NumPages \in Nat /\ NumPages \in 0..NumPages
    BY LayoutAssumption
  <2> HIDE DEF Runs
  <2>2. \A k \in 0..NumPages : k \in Runs
    BY <1>1, <1>2, <2>1, Rounds
  <2>3. NumPages \in Runs
    BY <2>1, <2>2
  <2>4. \E g : Until(NumPages, g)
    BY <2>3 DEF Runs
  <2> HIDE DEF Until
  <2> QED
    BY <2>4
<1>4. SetupPageMaps(m, root, pages, writable) = run[NumPages]
  BY DEF SetupPageMaps, Round
<1> HIDE DEF run
<1>5. run[0] = m /\ \A k \in 1..NumPages : run[k] = Round(run[k - 1], k)
  BY <1>3, LayoutAssumption
<1> QED
  BY <1>4, <1>5 DEF Round

\* The calls of CopyPageMaps for a page.
LEMMA CopyPageRounds ==
  ASSUME NEW m, NEW dest, NEW src, NEW p
  PROVE  \E run : /\ run[0] = m
                  /\ \A k \in 1..Levels : LET n == run[k - 1] IN
                       run[k] = IF Entry(k, p) \in DOMAIN n.maps[src] \ DOMAIN n.maps[dest]
                                THEN CopyEntry(n, dest, src, Entry(k, p)) ELSE n
                  /\ CopyPage(m, dest, src, p) = run[Levels]
<1> DEFINE Round(n, k) == IF Entry(k, p) \in DOMAIN n.maps[src] \ DOMAIN n.maps[dest]
                           THEN CopyEntry(n, dest, src, Entry(k, p)) ELSE n
           Until(n, g) == g = [k \in 0..n |-> IF k = 0 THEN m ELSE Round(g[k - 1], k)]
           Runs == { n \in Nat : \E g : Until(n, g) }
<1> HIDE DEF Round
<1>1. 0 \in Runs
  <2>1. Until(0, [k \in 0..0 |-> m])
    OBVIOUS
  <2> QED
    BY <2>1
<1>2. ASSUME NEW k \in 1..Levels, k - 1 \in Runs PROVE k \in Runs
  <2>1. PICK g : Until(k - 1, g)
    BY <1>2
  <2> DEFINE h == [j \in 0..k |-> IF j = k THEN Round(g[k - 1], k) ELSE g[j]]
  <2>2. \A j \in 0..k : h[j] = IF j = 0 THEN m ELSE Round(h[j - 1], j)
    BY <2>1
  <2>3. Until(k, h)
    BY <2>2
  <2> HIDE DEF Until, h
  <2> QED
    BY <2>3
<1> DEFINE run == CHOOSE g : Until(Levels, g)
<1>3. Until(Levels, run)
  <2>1. Levels \in Nat /\ Levels \in 0..Levels
    BY LayoutAssumption
  <2> HIDE DEF Runs
  <2>2. \A k \in 0..Levels : k \in Runs
    BY <1>1, <1>2, <2>1, Rounds
  <2>3. Levels \in Runs
    BY <2>1, <2>2
  <2>4. \E g : Until(Levels, g)
    BY <2>3 DEF Runs
  <2> HIDE DEF Until
  <2> QED
    BY <2>4
<1>4. CopyPage(m, dest, src, p) = run[Levels]
  BY DEF CopyPage, Round
<1> HIDE DEF run
<1>5. run[0] = m /\ \A k \in 1..Levels : run[k] = Round(run[k - 1], k)
  BY <1>3, LayoutAssumption
<1> QED
  BY <1>4, <1>5 DEF Round

\* Its loops, page by page.
LEMMA CopyRounds ==
  ASSUME NEW m, NEW dest, NEW src
  PROVE  \E run : /\ run[0] = m
                  /\ \A k \in 1..NumPages : run[k] = CopyPage(run[k - 1], dest, src, k - 1)
                  /\ CopyPageMaps(m, dest, src) = run[NumPages]
<1> DEFINE Round(n, k) == CopyPage(n, dest, src, k - 1)
           Until(n, g) == g = [k \in 0..n |-> IF k = 0 THEN m ELSE Round(g[k - 1], k)]
           Runs == { n \in Nat : \E g : Until(n, g) }
<1> HIDE DEF Round
<1>1. 0 \in Runs
  <2>1. Until(0, [k \in 0..0 |-> m])
    OBVIOUS
  <2> QED
    BY <2>1
<1>2. ASSUME NEW k \in 1..NumPages, k - 1 \in Runs PROVE k \in Runs
  <2>1. PICK g : Until(k - 1, g)
    BY <1>2
  <2> DEFINE h == [j \in 0..k |-> IF j = k THEN Round(g[k - 1], k) ELSE g[j]]
  <2>2. \A j \in 0..k : h[j] = IF j = 0 THEN m ELSE Round(h[j - 1], j)
    BY <2>1
  <2>3. Until(k, h)
    BY <2>2
  <2> HIDE DEF Until, h
  <2> QED
    BY <2>3
<1> DEFINE run == CHOOSE g : Until(NumPages, g)
<1>3. Until(NumPages, run)
  <2>1. NumPages \in Nat /\ NumPages \in 0..NumPages
    BY LayoutAssumption
  <2> HIDE DEF Runs
  <2>2. \A k \in 0..NumPages : k \in Runs
    BY <1>1, <1>2, <2>1, Rounds
  <2>3. NumPages \in Runs
    BY <2>1, <2>2
  <2>4. \E g : Until(NumPages, g)
    BY <2>3 DEF Runs
  <2> HIDE DEF Until
  <2> QED
    BY <2>4
<1>4. CopyPageMaps(m, dest, src) = run[NumPages]
  BY DEF CopyPageMaps, Round
<1> HIDE DEF run
<1>5. run[0] = m /\ \A k \in 1..NumPages : run[k] = Round(run[k - 1], k)
  BY <1>3, LayoutAssumption
<1> QED
  BY <1>4, <1>5 DEF Round

-----------------------------------------------------------------------------
(* What a change of one entry, of one root, does to the frames in use *)

\* mq is mp with an entry set.
EntrySet(mp, mq, root, e, frame, writable) ==
  /\ DOMAIN mq = DOMAIN mp
  /\ \A r \in DOMAIN mp : r # root => mq[r] = mp[r]
  /\ DOMAIN mq[root] = DOMAIN mp[root] \cup {e}
  /\ mq[root][e].frame = frame /\ (mq[root][e].writable <=> writable)
  /\ \A c \in DOMAIN mp[root] : c # e => mq[root][c] = mp[root][c]

\* A new frame is where no entry leads yet.
LEMMA GoodNew ==
  ASSUME NEW out, NEW mp, NEW mq, NEW used, NEW root \in DOMAIN mp, NEW e,
         NEW frame \in Frame \ out, NEW writable \in BOOLEAN,
         Good(out, mp, used), EntrySet(mp, mq, root, e, frame, writable),
         \/ e \notin DOMAIN mp[root]
         \/ ~mp[root][e].writable /\ root \in used,
         writable \/ (e \in ImageEntries /\ root \notin used)
  PROVE  Good(out \cup {frame}, mq, used)
<1> DEFINE New == out \cup {frame}
<1>1. \A r \in DOMAIN mq : \A c \in DOMAIN mq[r] :
         \/ r = root /\ c = e
         \/ c \in DOMAIN mp[r] /\ mq[r][c] = mp[r][c]
  BY DEF EntrySet
<1>2. root \in DOMAIN mq /\ e \in DOMAIN mq[root]
  BY DEF EntrySet
<1>3. \A r \in DOMAIN mp : \A c \in DOMAIN mp[r] :
         r # root \/ c # e => c \in DOMAIN mq[r] /\ mq[r][c] = mp[r][c]
  BY DEF EntrySet
<1>4. \A r \in DOMAIN mp : \A c \in DOMAIN mp[r] : mp[r][c].frame # frame
  BY DEF Good, Accounted
<1>5. ASSUME NEW r \in DOMAIN mp, NEW c \in DOMAIN mp[r], ~mp[r][c].writable
      PROVE  \E k \in DOMAIN mp \ used :
               /\ c \in DOMAIN mq[k] /\ mq[k][c].frame = mp[r][c].frame
  <2>1. PICK k \in DOMAIN mp \ used : c \in DOMAIN mp[k] /\ mp[k][c].frame = mp[r][c].frame
    BY <1>5 DEF Good, Kept
  <2>2. k # root \/ c # e
    BY <2>1
  <2> QED
    BY <1>3, <2>1, <2>2
<1>6. Accounted(New, mq)
  <2>1. New \subseteq Frame /\ DOMAIN mq \subseteq New /\ frame \notin DOMAIN mq
    BY DEF Good, Accounted, EntrySet
  <2>2. ASSUME NEW r \in DOMAIN mq, NEW c \in DOMAIN mq[r]
        PROVE  mq[r][c].frame \in New \ DOMAIN mq
    BY <1>1, <2>1 DEF Good, Accounted, EntrySet
  <2>3. ASSUME NEW f \in New \ DOMAIN mq
        PROVE  \E r \in DOMAIN mq : \E c \in DOMAIN mq[r] : mq[r][c].frame = f
    <3>1. CASE f = frame
      BY <1>2, <3>1 DEF EntrySet
    <3>2. CASE f # frame
      <4>1. PICK r \in DOMAIN mp : \E c \in DOMAIN mp[r] : mp[r][c].frame = f
        BY <3>2 DEF Good, Accounted, EntrySet
      <4>2. PICK c \in DOMAIN mp[r] : mp[r][c].frame = f
        BY <4>1
      <4>3. CASE r # root \/ c # e
        BY <1>3, <4>2, <4>3 DEF EntrySet
      <4>4. CASE r = root /\ c = e
        <5>1. PICK k \in DOMAIN mp \ used : c \in DOMAIN mq[k] /\ mq[k][c].frame = f
          BY <1>5, <4>2, <4>4
        <5> QED
          BY <5>1 DEF EntrySet
      <4> QED
        BY <4>3, <4>4
    <3> QED
      BY <3>1, <3>2
  <2> QED
    BY <2>1, <2>2, <2>3 DEF Accounted
<1>7. Shared(mq)
  <2> SUFFICES ASSUME NEW q \in DOMAIN mq, NEW r \in DOMAIN mq,
                      NEW b \in DOMAIN mq[q], NEW c \in DOMAIN mq[r],
                      mq[q][b].frame = mq[r][c].frame, q # r \/ b # c
               PROVE  ~mq[q][b].writable
    BY DEF Shared
  <2>1. ~(q = root /\ b = e) /\ ~(r = root /\ c = e)
    BY <1>1, <1>4 DEF EntrySet
  <2> QED
    BY <1>1, <2>1 DEF Good, Shared, EntrySet
<1>8. OnlyImages(mq)
  BY <1>1 DEF Good, OnlyImages, EntrySet
<1>9. Kept(mq, used)
  <2> SUFFICES ASSUME NEW r \in DOMAIN mq, NEW c \in DOMAIN mq[r], ~mq[r][c].writable
               PROVE  \E k \in DOMAIN mq \ used :
                        c \in DOMAIN mq[k] /\ mq[k][c].frame = mq[r][c].frame
    BY DEF Kept
  <2>1. CASE r = root /\ c = e
    BY <1>2, <2>1 DEF EntrySet
  <2>2. CASE ~(r = root /\ c = e)
    BY <1>1, <1>5, <2>2 DEF EntrySet
  <2> QED
    BY <2>1, <2>2
<1> QED
  BY <1>6, <1>7, <1>8, <1>9 DEF Good

\* A page that is shared is read-only in both maps, and its owner keeps it.
LEMMA GoodShared ==
  ASSUME NEW out, NEW mp, NEW mq, NEW used, NEW root \in DOMAIN mp, NEW e,
         NEW src \in DOMAIN mp \ used, e \in DOMAIN mp[src], ~mp[src][e].writable,
         e \notin DOMAIN mp[root], src # root,
         Good(out, mp, used), EntrySet(mp, mq, root, e, mp[src][e].frame, FALSE)
  PROVE  Good(out, mq, used)
<1>1. \A r \in DOMAIN mq : \A c \in DOMAIN mq[r] :
         \/ r = root /\ c = e
         \/ c \in DOMAIN mp[r] /\ mq[r][c] = mp[r][c]
  BY DEF EntrySet
<1>2. \A r \in DOMAIN mp : \A c \in DOMAIN mp[r] : c \in DOMAIN mq[r] /\ mq[r][c] = mp[r][c]
  BY DEF EntrySet
<1>3. root \in DOMAIN mq /\ e \in DOMAIN mq[root]
  BY DEF EntrySet
<1>4. Accounted(out, mq)
  <2>1. out \subseteq Frame /\ DOMAIN mq \subseteq out
    BY DEF Good, Accounted, EntrySet
  <2>2. ASSUME NEW r \in DOMAIN mq, NEW c \in DOMAIN mq[r]
        PROVE  mq[r][c].frame \in out \ DOMAIN mq
    BY <1>1 DEF Good, Accounted, EntrySet
  <2>3. ASSUME NEW f \in out \ DOMAIN mq
        PROVE  \E r \in DOMAIN mq : \E c \in DOMAIN mq[r] : mq[r][c].frame = f
    <3>1. PICK r \in DOMAIN mp : \E c \in DOMAIN mp[r] : mp[r][c].frame = f
      BY DEF Good, Accounted, EntrySet
    <3> QED
      BY <1>2, <3>1 DEF EntrySet
  <2> QED
    BY <2>1, <2>2, <2>3 DEF Accounted
<1>5. Shared(mq)
  <2> SUFFICES ASSUME NEW q \in DOMAIN mq, NEW r \in DOMAIN mq,
                      NEW b \in DOMAIN mq[q], NEW c \in DOMAIN mq[r],
                      mq[q][b].frame = mq[r][c].frame, q # r \/ b # c
               PROVE  ~mq[q][b].writable
    BY DEF Shared
  <2>1. CASE q = root /\ b = e
    BY <2>1 DEF EntrySet
  <2>2. CASE ~(q = root /\ b = e)
    <3>1. b \in DOMAIN mp[q] /\ mq[q][b] = mp[q][b] /\ q \in DOMAIN mp
      BY <1>1, <2>2 DEF EntrySet
    <3>2. CASE r = root /\ c = e
      <4>1. mp[q][b].frame = mp[src][e].frame
        BY <3>1, <3>2 DEF EntrySet
      <4>2. (q = src /\ b = e) \/ ~mp[q][b].writable
        BY <3>1, <4>1 DEF Good, Shared
      <4> QED
        BY <3>1, <4>2
    <3>3. CASE ~(r = root /\ c = e)
      BY <1>1, <3>1, <3>3 DEF Good, Shared, EntrySet
    <3> QED
      BY <3>2, <3>3
  <2> QED
    BY <2>1, <2>2
<1>6. OnlyImages(mq)
  BY <1>1 DEF Good, OnlyImages, EntrySet
<1>7. Kept(mq, used)
  <2> SUFFICES ASSUME NEW r \in DOMAIN mq, NEW c \in DOMAIN mq[r], ~mq[r][c].writable
               PROVE  \E k \in DOMAIN mq \ used :
                        c \in DOMAIN mq[k] /\ mq[k][c].frame = mq[r][c].frame
    BY DEF Kept
  <2>1. CASE r = root /\ c = e
    <3>1. src \in DOMAIN mq \ used /\ e \in DOMAIN mq[src] /\ mq[src][e] = mp[src][e]
      BY <1>2 DEF EntrySet
    <3> QED
      BY <2>1, <3>1 DEF EntrySet
  <2>2. CASE ~(r = root /\ c = e)
    <3>1. c \in DOMAIN mp[r] /\ mq[r][c] = mp[r][c] /\ r \in DOMAIN mp
      BY <1>1, <2>2 DEF EntrySet
    <3>2. PICK k \in DOMAIN mp \ used : c \in DOMAIN mp[k] /\ mp[k][c].frame = mp[r][c].frame
      BY <3>1 DEF Good, Kept
    <3> QED
      BY <1>2, <3>1, <3>2 DEF EntrySet
  <2> QED
    BY <2>1, <2>2
<1> QED
  BY <1>4, <1>5, <1>6, <1>7 DEF Good

\* What is there is set again: as it was, or read-only in a map that is kept.
LEMMA GoodSetAgain ==
  ASSUME NEW out, NEW mp, NEW mq, NEW used, NEW root \in DOMAIN mp, NEW e \in DOMAIN mp[root],
         NEW writable \in BOOLEAN,
         Good(out, mp, used), EntrySet(mp, mq, root, e, mp[root][e].frame, writable),
         writable => mp[root][e].writable,
         ~writable => e \in ImageEntries /\ root \notin used
  PROVE  Good(out, mq, used)
<1>1. DOMAIN mq = DOMAIN mp /\ \A r \in DOMAIN mp : DOMAIN mq[r] = DOMAIN mp[r]
  BY DEF EntrySet
<1>2. \A r \in DOMAIN mp : \A c \in DOMAIN mp[r] :
         /\ mq[r][c].frame = mp[r][c].frame
         /\ ~mp[r][c].writable => ~mq[r][c].writable
         /\ \/ r = root /\ c = e
            \/ mq[r][c].writable <=> mp[r][c].writable
  BY DEF EntrySet
<1>3. mq[root][e].writable <=> writable
  BY DEF EntrySet
<1>4. Accounted(out, mq)
  BY <1>1, <1>2 DEF Good, Accounted
<1>5. Shared(mq)
  BY <1>1, <1>2 DEF Good, Shared
<1>6. OnlyImages(mq)
  BY <1>1, <1>2, <1>3 DEF Good, OnlyImages
<1>7. Kept(mq, used)
  <2> SUFFICES ASSUME NEW r \in DOMAIN mp, NEW c \in DOMAIN mp[r], ~mq[r][c].writable
               PROVE  \E k \in DOMAIN mp \ used :
                        c \in DOMAIN mp[k] /\ mp[k][c].frame = mp[r][c].frame
    BY <1>1, <1>2 DEF Kept
  <2>1. CASE ~mp[r][c].writable
    BY <2>1 DEF Good, Kept
  <2>2. CASE mp[r][c].writable
    BY <1>2, <1>3, <2>2
  <2> QED
    BY <2>1, <2>2
<1> QED
  BY <1>4, <1>5, <1>6, <1>7 DEF Good

\* A new root leads nowhere.
LEMMA GoodRoot ==
  ASSUME NEW out, NEW mp, NEW mq, NEW used, NEW frame \in Frame \ out,
         Good(out, mp, used), DOMAIN mq = DOMAIN mp \cup {frame}, DOMAIN mq[frame] = {},
         \A r \in DOMAIN mp : mq[r] = mp[r]
  PROVE  Good(out \cup {frame}, mq, used) /\ Good(out \cup {frame}, mq, used \cup {frame})
<1>1. frame \notin DOMAIN mp
  BY DEF Good, Accounted
<1>2. Accounted(out \cup {frame}, mq)
  BY <1>1 DEF Good, Accounted
<1>3. Shared(mq) /\ OnlyImages(mq)
  BY <1>1 DEF Good, Shared, OnlyImages
<1>4. Kept(mq, used \cup {frame})
  BY <1>1 DEF Good, Kept
<1>5. Kept(mq, used)
  BY <1>4 DEF Kept
<1> QED
  BY <1>2, <1>3, <1>4, <1>5 DEF Good

\* Who cleans up a map it uses frees its root and what is writable in it.
LEMMA GoodWithout ==
  ASSUME NEW out, NEW mp, NEW mq, NEW used, NEW root \in DOMAIN mp, root \in used,
         Good(out, mp, used), DOMAIN mq = DOMAIN mp \ {root},
         \A r \in DOMAIN mq : mq[r] = mp[r]
  PROVE  LET own == { mp[root][e].frame : e \in { c \in DOMAIN mp[root] : mp[root][c].writable } }
         IN Good((out \ own) \ {root}, mq, used \ {root})
<1> DEFINE own == { mp[root][e].frame : e \in { c \in DOMAIN mp[root] : mp[root][c].writable } }
           Left == (out \ own) \ {root}
<1>1. \A f : f \in own <=> \E e \in DOMAIN mp[root] : mp[root][e].writable /\ mp[root][e].frame = f
  OBVIOUS
<1> HIDE DEF own
<1>2. own \cap DOMAIN mp = {}
  BY <1>1 DEF Good, Accounted
<1>3. \A r \in DOMAIN mq : \A e \in DOMAIN mq[r] : mq[r][e].frame \notin own
  BY <1>1 DEF Good, Shared
<1>4. Accounted(Left, mq)
  <2>1. Left \subseteq Frame /\ DOMAIN mq \subseteq Left
    BY <1>2 DEF Good, Accounted
  <2>2. ASSUME NEW r \in DOMAIN mq, NEW e \in DOMAIN mq[r]
        PROVE  mq[r][e].frame \in Left \ DOMAIN mq
    BY <1>3 DEF Good, Accounted
  <2>3. ASSUME NEW f \in Left \ DOMAIN mq
        PROVE  \E r \in DOMAIN mq : \E e \in DOMAIN mq[r] : mq[r][e].frame = f
    <3>1. PICK r \in DOMAIN mp : \E e \in DOMAIN mp[r] : mp[r][e].frame = f
      BY DEF Good, Accounted
    <3>2. PICK e \in DOMAIN mp[r] : mp[r][e].frame = f
      BY <3>1
    <3>3. CASE r # root
      BY <3>2, <3>3
    <3>4. CASE r = root
      <4>1. ~mp[r][e].writable
        BY <1>1, <3>2, <3>4
      <4>2. PICK k \in DOMAIN mp \ used : e \in DOMAIN mp[k] /\ mp[k][e].frame = f
        BY <3>2, <4>1 DEF Good, Kept
      <4> QED
        BY <4>2
    <3> QED
      BY <3>3, <3>4
  <2> QED
    BY <2>1, <2>2, <2>3 DEF Accounted
<1>5. Shared(mq) /\ OnlyImages(mq)
  BY DEF Good, Shared, OnlyImages
<1>6. Kept(mq, used \ {root})
  <2> SUFFICES ASSUME NEW r \in DOMAIN mq, NEW e \in DOMAIN mq[r], ~mq[r][e].writable
               PROVE  \E k \in DOMAIN mq \ (used \ {root}) :
                        e \in DOMAIN mq[k] /\ mq[k][e].frame = mq[r][e].frame
    BY DEF Kept
  <2>1. PICK k \in DOMAIN mp \ used : e \in DOMAIN mp[k] /\ mp[k][e].frame = mp[r][e].frame
    BY DEF Good, Kept
  <2> QED
    BY <2>1
<1> QED
  BY <1>4, <1>5, <1>6 DEF Good, own

\* A map that is no longer used is kept.
LEMMA GoodUnused ==
  ASSUME NEW out, NEW mp, NEW used, NEW fewer, fewer \subseteq used, Good(out, mp, used)
  PROVE  Good(out, mp, fewer)
  BY DEF Good, Kept

-----------------------------------------------------------------------------
(* The functions of paging.cpp *)

IsMemory(m) ==
  /\ m = [data |-> m.data, maps |-> m.maps, new |-> m.new, ok |-> m.ok]
  /\ m.ok \in BOOLEAN

GoodMemory(m, used) == IsMemory(m) /\ Good(DOMAIN m.data, m.maps, used)

\* From m to n one root has got entries, and frames may have been given out.
Grown(m, n, root) ==
  /\ DOMAIN n.maps = DOMAIN m.maps
  /\ \A r \in DOMAIN m.maps : r # root => n.maps[r] = m.maps[r]
  /\ DOMAIN m.maps[root] \subseteq DOMAIN n.maps[root]
  /\ \A e \in DOMAIN m.maps[root] : n.maps[root][e].frame = m.maps[root][e].frame
  /\ DOMAIN m.data \subseteq DOMAIN n.data
  /\ \A f \in DOMAIN m.data : n.data[f] = m.data[f]
  /\ n.ok => m.ok

LEMMA GrownTwice ==
  ASSUME NEW m, NEW n, NEW o, NEW root, root \in DOMAIN m.maps, Grown(m, n, root), Grown(n, o, root)
  PROVE  Grown(m, o, root)
  BY DEF Grown

\* What has come to root leads to frames that were free, and holds zeros.
Zeroed(m, n, root) ==
  \A e \in DOMAIN n.maps[root] \ DOMAIN m.maps[root] :
     LET f == n.maps[root][e].frame IN f \in DOMAIN n.data \ DOMAIN m.data /\ n.data[f] = "zero"

LEMMA ZeroedTwice ==
  ASSUME NEW m, NEW n, NEW o, NEW root, Grown(m, n, root), Grown(n, o, root),
         Zeroed(m, n, root), Zeroed(n, o, root)
  PROVE  Zeroed(m, o, root)
<1> SUFFICES ASSUME NEW e \in DOMAIN o.maps[root] \ DOMAIN m.maps[root]
             PROVE  LET f == o.maps[root][e].frame IN
                    f \in DOMAIN o.data \ DOMAIN m.data /\ o.data[f] = "zero"
  BY DEF Zeroed
<1>1. CASE e \in DOMAIN n.maps[root]
  BY <1>1 DEF Zeroed, Grown
<1>2. CASE e \notin DOMAIN n.maps[root]
  BY <1>2 DEF Zeroed, Grown
<1> QED
  BY <1>1, <1>2

\* NewPageMap takes a free frame, or nothing.
LEMMA NewPageMapIs ==
  ASSUME NEW m, IsMemory(m)
  PROVE  LET n == NewPageMap(m) IN
         /\ IsMemory(n) /\ n.maps = m.maps
         /\ n.ok => /\ m.ok
                    /\ n.new \in Frame \ DOMAIN m.data
                    /\ DOMAIN n.data = DOMAIN m.data \cup {n.new}
                    /\ n.data[n.new] = "zero"
                    /\ \A f \in DOMAIN m.data : n.data[f] = m.data[f]
         /\ ~n.ok => n.data = m.data
<1> DEFINE n == NewPageMap(m)
           f == Min(Free(m))
<1>1. CASE ~m.ok \/ Free(m) = {}
  <2>1. n = [m EXCEPT !.ok = FALSE]
    BY <1>1 DEF NewPageMap
  <2> QED
    BY <2>1 DEF IsMemory
<1>2. CASE m.ok /\ Free(m) # {}
  <2>1. f \in Frame \ DOMAIN m.data
    BY <1>2, LeastFree DEF Free
  <2>2. n = [m EXCEPT !.data = With(m.data, f, "zero"), !.new = f]
    BY <1>2 DEF NewPageMap
  <2> HIDE DEF f
  <2>3. /\ n.data = With(m.data, f, "zero") /\ n.maps = m.maps /\ n.new = f /\ n.ok = m.ok
        /\ IsMemory(n)
    BY <2>2 DEF IsMemory
  <2> HIDE DEF n
  <2>4. \A g \in DOMAIN m.data : n.data[g] = m.data[g]
    BY <2>1, <2>3 DEF With
  <2>5. DOMAIN n.data = DOMAIN m.data \cup {f} /\ n.data[f] = "zero"
    BY <2>3 DEF With
  <2> QED
    BY <1>2, <2>1, <2>3, <2>4, <2>5 DEF n
<1> QED
  BY <1>1, <1>2 DEF IsMemory

\* SetEntry changes one entry of one root.
LEMMA SetEntryIs ==
  ASSUME NEW m, IsMemory(m), NEW root \in DOMAIN m.maps, NEW e, NEW frame, NEW writable \in BOOLEAN
  PROVE  LET n == SetEntry(m, root, e, frame, writable) IN
         /\ IsMemory(n) /\ n.data = m.data /\ n.new = m.new /\ n.ok = m.ok
         /\ EntrySet(m.maps, n.maps, root, e, frame, writable)
<1> DEFINE n == SetEntry(m, root, e, frame, writable)
           v == [frame |-> frame, writable |-> writable]
           entries == With(m.maps[root], e, v)
<1>1. /\ IsMemory(n) /\ n.data = m.data /\ n.new = m.new /\ n.ok = m.ok
      /\ n.maps = With(m.maps, root, entries)
  <2> HIDE DEF entries
  <2>1. n = [m EXCEPT !.maps = With(m.maps, root, entries)]
    BY DEF SetEntry, entries
  <2> QED
    BY <2>1 DEF IsMemory
<1>2. /\ DOMAIN entries = DOMAIN m.maps[root] \cup {e} /\ entries[e] = v
      /\ \A c \in DOMAIN m.maps[root] : c # e => entries[c] = m.maps[root][c]
  <2> HIDE DEF v
  <2> QED
    BY DEF With
<1> HIDE DEF entries, n
<1>3. /\ DOMAIN n.maps = DOMAIN m.maps /\ n.maps[root] = entries
      /\ \A r \in DOMAIN m.maps : r # root => n.maps[r] = m.maps[r]
  BY <1>1 DEF With
<1>4. EntrySet(m.maps, n.maps, root, e, frame, writable)
  BY <1>2, <1>3 DEF EntrySet
<1> QED
  BY <1>1, <1>4 DEF n

\* Entries of tables are writable.
LEMMA ReadOnlyLeaf ==
  ASSUME NEW mp, OnlyImages(mp), NEW r \in DOMAIN mp, NEW e \in DOMAIN mp[r], ~mp[r][e].writable
  PROVE  IsLeaf(e)
<1>1. PICK p \in ImagePages : e = LeafOf(p)
  BY DEF OnlyImages, ImageEntries
<1>2. p \in Page
  BY LayoutAssumption
<1> QED
  BY <1>1, <1>2, EntriesApart

\* m and n are alike but for the entry e of root.
OneEntry(m, n, root, e) ==
  \A c \in DOMAIN n.maps[root] :
     c # e => c \in DOMAIN m.maps[root] /\ n.maps[root][c] = m.maps[root][c]

\* SetupPageMap, one entry: what is there stays writable if it is to be, and
\* read-only pages are made for images only.
LEMMA SetupEntryGood ==
  ASSUME NEW m, NEW used, GoodMemory(m, used), NEW root \in DOMAIN m.maps, NEW e,
         NEW writable \in BOOLEAN,
         IsLeaf(e) /\ writable /\ e \in DOMAIN m.maps[root] => m.maps[root][e].writable,
         IsLeaf(e) /\ ~writable => e \in ImageEntries /\ root \notin used
  PROVE  LET n == SetupEntry(m, root, e, writable) IN
         /\ GoodMemory(n, used) /\ Grown(m, n, root) /\ Zeroed(m, n, root)
         /\ OneEntry(m, n, root, e)
         /\ n.ok => /\ e \in DOMAIN n.maps[root]
                    /\ n.maps[root][e].writable <=> (~IsLeaf(e) \/ writable)
<1> DEFINE o == SetupEntry(m, root, e, writable)
           w == ~IsLeaf(e) \/ writable
<1>1. w \in BOOLEAN /\ (w <=> ~IsLeaf(e) \/ writable)
  OBVIOUS
<1>2. CASE e \in DOMAIN m.maps[root] /\ m.ok
  <2> DEFINE f == m.maps[root][e].frame
  <2>1. o = SetEntry(m, root, e, f, w)
    BY <1>2 DEF SetupEntry
  <2> HIDE DEF w, f
  <2>2. /\ IsMemory(o) /\ o.data = m.data /\ o.ok = m.ok
        /\ EntrySet(m.maps, o.maps, root, e, f, w)
    BY <1>1, <2>1, SetEntryIs DEF GoodMemory
  <2>3. w => m.maps[root][e].writable
    BY <1>1, <1>2, ReadOnlyLeaf DEF GoodMemory, Good
  <2>4. ~w => e \in ImageEntries /\ root \notin used
    BY <1>1
  <2> HIDE DEF o
  <2>5. Good(DOMAIN m.data, o.maps, used)
    BY <1>1, <1>2, <2>2, <2>3, <2>4, GoodSetAgain DEF GoodMemory, f
  <2> QED
    BY <1>1, <1>2, <2>2, <2>5 DEF GoodMemory, Grown, Zeroed, OneEntry, EntrySet, f, o
<1>3. CASE ~(e \in DOMAIN m.maps[root]) /\ NewPageMap(m).ok
  <2> DEFINE n == NewPageMap(m)
             f == n.new
  <2>1. o = SetEntry(n, root, e, f, w)
    BY <1>3 DEF SetupEntry
  <2>2. /\ IsMemory(n) /\ n.maps = m.maps /\ m.ok
        /\ f \in Frame \ DOMAIN m.data
        /\ DOMAIN n.data = DOMAIN m.data \cup {f} /\ n.data[f] = "zero"
        /\ \A g \in DOMAIN m.data : n.data[g] = m.data[g]
    BY <1>3, NewPageMapIs DEF GoodMemory
  <2> HIDE DEF n, f, w
  <2>3. /\ IsMemory(o) /\ o.data = n.data /\ o.ok = n.ok
        /\ EntrySet(m.maps, o.maps, root, e, f, w)
    BY <1>1, <2>1, <2>2, SetEntryIs
  <2>4. w \/ (e \in ImageEntries /\ root \notin used)
    BY <1>1
  <2> HIDE DEF o
  <2>5. Good(DOMAIN m.data \cup {f}, o.maps, used)
    BY <1>1, <1>3, <2>2, <2>3, <2>4, GoodNew DEF GoodMemory
  <2>6. GoodMemory(o, used)
    BY <2>2, <2>3, <2>5 DEF GoodMemory
  <2>7. Grown(m, o, root) /\ Zeroed(m, o, root)
    BY <1>3, <2>2, <2>3 DEF Grown, Zeroed, EntrySet
  <2>8. OneEntry(m, o, root, e)
    BY <2>3 DEF OneEntry, EntrySet
  <2>9. e \in DOMAIN o.maps[root] /\ (o.maps[root][e].writable <=> (~IsLeaf(e) \/ writable))
    BY <1>1, <2>3 DEF EntrySet
  <2> QED
    BY <2>6, <2>7, <2>8, <2>9 DEF o
<1>4. CASE e \in DOMAIN m.maps[root] /\ ~m.ok
  <2>1. o = m
    BY <1>4 DEF SetupEntry
  <2> QED
    BY <1>4, <2>1 DEF Grown, Zeroed, OneEntry
<1>5. CASE ~(e \in DOMAIN m.maps[root]) /\ ~NewPageMap(m).ok
  <2>1. o = NewPageMap(m)
    BY <1>5 DEF SetupEntry
  <2>2. IsMemory(o) /\ o.maps = m.maps /\ o.data = m.data /\ ~o.ok
    BY <1>5, <2>1, NewPageMapIs DEF GoodMemory
  <2> HIDE DEF o
  <2> QED
    BY <2>2 DEF GoodMemory, Grown, Zeroed, OneEntry, o
<1> QED
  BY <1>2, <1>3, <1>4, <1>5

\* From m to n no page but those of the set has come to root or changed there.
OnlyPages(m, n, root, pages) ==
  \A c \in DOMAIN n.maps[root] :
     IsLeaf(c) /\ (\A p \in pages : c # LeafOf(p)) =>
       c \in DOMAIN m.maps[root] /\ n.maps[root][c] = m.maps[root][c]

\* The pages are there, as they were to be.
PagesSet(n, root, pages, writable) ==
  \A p \in pages : /\ LeafOf(p) \in DOMAIN n.maps[root]
                   /\ n.maps[root][LeafOf(p)].writable <=> writable

\* What may be set: what is read-only remains so, in a map that is kept.
MaySet(m, used, root, pages, writable) ==
  \A p \in pages :
     /\ writable /\ LeafOf(p) \in DOMAIN m.maps[root] => m.maps[root][LeafOf(p)].writable
     /\ ~writable => p \in ImagePages /\ root \notin used

\* SetupPageMap, one page.
LEMMA SetupPageGood ==
  ASSUME NEW m, NEW used, GoodMemory(m, used), NEW root \in DOMAIN m.maps, NEW p \in Page,
         NEW writable \in BOOLEAN, MaySet(m, used, root, {p}, writable)
  PROVE  LET n == SetupPage(m, root, p, writable) IN
         /\ GoodMemory(n, used) /\ Grown(m, n, root) /\ Zeroed(m, n, root)
         /\ OnlyPages(m, n, root, {p})
         /\ n.ok => PagesSet(n, root, {p}, writable)
<1>1. PICK run : /\ run[0] = m
                 /\ \A k \in 1..Levels :
                      run[k] = SetupEntry(run[k - 1], root, Entry(k, p), writable)
                 /\ SetupPage(m, root, p, writable) = run[Levels]
  BY SetupPageRounds
<1> DEFINE Until(k) ==
             LET n == run[k] IN
             /\ GoodMemory(n, used) /\ Grown(m, n, root) /\ Zeroed(m, n, root)
             /\ OnlyPages(m, n, root, IF k = Levels THEN {p} ELSE {})
             /\ k = Levels /\ n.ok => PagesSet(n, root, {p}, writable)
           Done == { k \in 0..Levels : Until(k) }
<1>2. Levels \in Nat /\ Levels # 0 /\ Levels \in 0..Levels
  BY LayoutAssumption
<1>3. 0 \in Done
  <2>1. Grown(m, m, root) /\ Zeroed(m, m, root) /\ OnlyPages(m, m, root, {})
    BY DEF Grown, Zeroed, OnlyPages
  <2> QED
    BY <1>1, <1>2, <2>1
<1>4. ASSUME NEW k \in 1..Levels, k - 1 \in Done PROVE k \in Done
  <2> DEFINE a == run[k - 1]
             e == Entry(k, p)
             n == SetupEntry(a, root, e, writable)
  <2>1. k - 1 \in 0..Levels /\ k - 1 # Levels /\ k \in 0..Levels
    BY <1>2
  <2>2. /\ GoodMemory(a, used) /\ Grown(m, a, root) /\ Zeroed(m, a, root)
        /\ OnlyPages(m, a, root, {}) /\ run[k] = n
    BY <1>1, <1>4, <2>1
  <2>3. (IsLeaf(e) <=> k = Levels) /\ (k = Levels => e = LeafOf(p))
    BY EntriesApart DEF LeafOf
  <2> HIDE DEF a, e
  <2>4. root \in DOMAIN a.maps
    BY <2>2 DEF Grown
  <2>5. IsLeaf(e) /\ writable /\ e \in DOMAIN a.maps[root] => a.maps[root][e].writable
    BY <2>2, <2>3 DEF OnlyPages, MaySet
  <2>6. IsLeaf(e) /\ ~writable => e \in ImageEntries /\ root \notin used
    BY <2>3 DEF MaySet, ImageEntries
  <2>7. /\ GoodMemory(n, used) /\ Grown(a, n, root) /\ Zeroed(a, n, root)
        /\ OneEntry(a, n, root, e)
        /\ n.ok => /\ e \in DOMAIN n.maps[root]
                   /\ n.maps[root][e].writable <=> (~IsLeaf(e) \/ writable)
    BY <2>2, <2>4, <2>5, <2>6, SetupEntryGood
  <2> HIDE DEF n
  <2>8. Grown(m, n, root) /\ Zeroed(m, n, root)
    BY <2>2, <2>7, GrownTwice, ZeroedTwice
  <2>9. OnlyPages(m, n, root, IF k = Levels THEN {p} ELSE {})
    BY <2>2, <2>3, <2>7 DEF OneEntry, OnlyPages
  <2>10. k = Levels /\ n.ok => PagesSet(n, root, {p}, writable)
    BY <2>3, <2>7 DEF PagesSet
  <2> QED
    BY <2>1, <2>2, <2>7, <2>8, <2>9, <2>10
<1>5. Levels \in Done
  <2> HIDE DEF Done
  <2>1. \A k \in 0..Levels : k \in Done
    BY <1>2, <1>3, <1>4, Rounds
  <2> QED
    BY <1>2, <2>1
<1> QED
  BY <1>1, <1>5

\* SetupPageMaps, whether or not it succeeds: other pages remain as they are.
LEMMA SetupGood ==
  ASSUME NEW m, NEW used, GoodMemory(m, used), NEW root \in DOMAIN m.maps,
         NEW pages \in SUBSET Page,
         NEW writable \in BOOLEAN, MaySet(m, used, root, pages, writable)
  PROVE  LET n == SetupPageMaps(m, root, pages, writable) IN
         /\ GoodMemory(n, used) /\ Grown(m, n, root) /\ Zeroed(m, n, root)
         /\ OnlyPages(m, n, root, pages)
         /\ n.ok => PagesSet(n, root, pages, writable)
<1>1. PICK run : /\ run[0] = m
                 /\ \A k \in 1..NumPages :
                      run[k] = IF k - 1 \in pages THEN SetupPage(run[k - 1], root, k - 1, writable)
                               ELSE run[k - 1]
                 /\ SetupPageMaps(m, root, pages, writable) = run[NumPages]
  BY SetupRounds
<1> DEFINE Below(k) == { p \in pages : p < k }
           Until(k) ==
             LET n == run[k] IN
             /\ GoodMemory(n, used) /\ Grown(m, n, root) /\ Zeroed(m, n, root)
             /\ OnlyPages(m, n, root, Below(k))
             /\ n.ok => PagesSet(n, root, Below(k), writable)
           Done == { k \in 0..NumPages : Until(k) }
<1>2. NumPages \in Nat /\ \A p \in Page : p \in Nat /\ p < NumPages
  BY LayoutAssumption DEF Page
<1>3. 0 \in Done
  <2>1. Below(0) = {}
    BY <1>2
  <2>2. /\ Grown(m, m, root) /\ Zeroed(m, m, root) /\ OnlyPages(m, m, root, Below(0))
        /\ PagesSet(m, root, {}, writable)
    BY DEF Grown, Zeroed, OnlyPages, PagesSet
  <2> HIDE DEF Below
  <2> QED
    BY <1>1, <1>2, <2>1, <2>2
<1>4. ASSUME NEW k \in 1..NumPages, k - 1 \in Done PROVE k \in Done
  <2> DEFINE a == run[k - 1]
             p == k - 1
             n == SetupPage(a, root, p, writable)
  <2>1. k \in 0..NumPages /\ p \in Page
    BY <1>2 DEF Page
  <2>2. /\ GoodMemory(a, used) /\ Grown(m, a, root) /\ Zeroed(m, a, root)
        /\ OnlyPages(m, a, root, Below(p))
        /\ a.ok => PagesSet(a, root, Below(p), writable)
    BY <1>4
  <2>3. run[k] = IF p \in pages THEN n ELSE a
    BY <1>1
  <2>4. \A q \in Page : q < k <=> q < p \/ q = p
    BY <1>2
  <2>5. p \notin Below(p)
    BY <2>1, <1>2
  <2>6. CASE p \notin pages
    <3>1. Below(k) = Below(p)
      BY <2>4, <2>6
    <3> QED
      BY <2>1, <2>2, <2>3, <2>6, <3>1
  <2>7. CASE p \in pages
    <3>1. Below(k) = Below(p) \cup {p}
      BY <2>4, <2>7
    <3> HIDE DEF a, Below
    <3>2. root \in DOMAIN a.maps
      BY <2>2 DEF Grown
    <3>3. IsLeaf(LeafOf(p)) /\ \A q \in Below(p) : LeafOf(p) # LeafOf(q)
      BY <2>1, <2>5, EntriesApart DEF Below
    <3> HIDE DEF p
    <3>4. MaySet(a, used, root, {p}, writable)
      BY <2>2, <2>7, <3>3 DEF MaySet, OnlyPages
    <3>5. /\ GoodMemory(n, used) /\ Grown(a, n, root) /\ Zeroed(a, n, root)
          /\ OnlyPages(a, n, root, {p})
          /\ n.ok => PagesSet(n, root, {p}, writable)
      BY <2>1, <2>2, <3>2, <3>4, SetupPageGood
    <3> HIDE DEF n
    <3>6. Grown(m, n, root) /\ Zeroed(m, n, root)
      BY <2>2, <3>5, GrownTwice, ZeroedTwice
    <3>7. OnlyPages(m, n, root, Below(p) \cup {p})
      BY <2>2, <3>5 DEF OnlyPages
    <3>8. ASSUME n.ok PROVE PagesSet(n, root, Below(p) \cup {p}, writable)
      <4>1. a.ok /\ PagesSet(a, root, Below(p), writable) /\ PagesSet(n, root, {p}, writable)
        BY <2>2, <3>5, <3>8 DEF Grown
      <4>2. \A q \in Below(p) : IsLeaf(LeafOf(q)) /\ LeafOf(q) # LeafOf(p)
        BY <3>3, EntriesApart DEF Below
      <4>3. DOMAIN a.maps[root] \subseteq DOMAIN n.maps[root]
        BY <3>5 DEF Grown
      <4>4. \A q \in Below(p) : /\ LeafOf(q) \in DOMAIN n.maps[root]
                                /\ n.maps[root][LeafOf(q)] = a.maps[root][LeafOf(q)]
        BY <3>5, <4>1, <4>2, <4>3 DEF OnlyPages, PagesSet
      <4> QED
        BY <4>1, <4>4 DEF PagesSet
    <3> QED
      BY <2>1, <2>3, <2>7, <3>1, <3>5, <3>6, <3>7, <3>8
  <2> QED
    BY <2>6, <2>7
<1>5. NumPages \in Done
  <2> HIDE DEF Done
  <2>1. \A k \in 0..NumPages : k \in Done
    BY <1>2, <1>3, <1>4, Rounds
  <2> QED
    BY <1>2, <2>1
<1>6. Below(NumPages) = pages
  BY <1>2
<1> QED
  BY <1>1, <1>5, <1>6

\* What has come to dest are pages of src.
Copied(m, n, dest, src) ==
  \A e \in DOMAIN n.maps[dest] \ DOMAIN m.maps[dest] :
     IsLeaf(e) => e \in DOMAIN m.maps[src] /\ n.maps[dest][e].frame = m.maps[src][e].frame

LEMMA CopiedTwice ==
  ASSUME NEW m, NEW n, NEW o, NEW dest, NEW src \in DOMAIN m.maps, src # dest,
         Grown(m, n, dest), Grown(n, o, dest), Copied(m, n, dest, src), Copied(n, o, dest, src)
  PROVE  Copied(m, o, dest, src)
  BY DEF Grown, Copied

\* CopyPageMaps, one entry of a map whose pages are read-only.
LEMMA CopyEntryGood ==
  ASSUME NEW m, NEW used, GoodMemory(m, used), NEW dest \in DOMAIN m.maps,
         NEW src \in DOMAIN m.maps \ used, src # dest,
         NEW e \in DOMAIN m.maps[src], e \notin DOMAIN m.maps[dest],
         IsLeaf(e) => ~m.maps[src][e].writable
  PROVE  LET n == CopyEntry(m, dest, src, e) IN
         /\ GoodMemory(n, used) /\ Grown(m, n, dest) /\ Copied(m, n, dest, src)
         /\ n.ok => e \in DOMAIN n.maps[dest]
<1> DEFINE o == CopyEntry(m, dest, src, e)
           w == ~IsLeaf(e) /\ m.maps[src][e].writable
<1>1. w \in BOOLEAN /\ (IsLeaf(e) => w = FALSE)
  OBVIOUS
<1>2. ~IsLeaf(e) => w = TRUE
  BY ReadOnlyLeaf DEF GoodMemory, Good
<1>3. CASE IsLeaf(e) /\ m.ok
  <2> DEFINE f == m.maps[src][e].frame
  <2>1. o = SetEntry(m, dest, e, f, w)
    BY <1>3 DEF CopyEntry
  <2> HIDE DEF o, f, w
  <2>2. /\ IsMemory(o) /\ o.data = m.data /\ o.ok = m.ok
        /\ EntrySet(m.maps, o.maps, dest, e, f, w)
    BY <1>1, <2>1, SetEntryIs DEF GoodMemory
  <2>3. Good(DOMAIN m.data, o.maps, used)
    BY <1>1, <1>3, <2>2, GoodShared DEF GoodMemory, f
  <2>4. /\ Grown(m, o, dest) /\ Copied(m, o, dest, src)
        /\ e \in DOMAIN o.maps[dest]
    BY <2>2 DEF Grown, Copied, EntrySet, f
  <2> QED
    BY <2>2, <2>3, <2>4 DEF GoodMemory, o
<1>4. CASE ~IsLeaf(e) /\ NewPageMap(m).ok
  <2> DEFINE n == NewPageMap(m)
             f == n.new
  <2>1. o = SetEntry(n, dest, e, f, w)
    BY <1>4 DEF CopyEntry
  <2>2. /\ IsMemory(n) /\ n.maps = m.maps /\ m.ok
        /\ f \in Frame \ DOMAIN m.data
        /\ DOMAIN n.data = DOMAIN m.data \cup {f}
        /\ \A g \in DOMAIN m.data : n.data[g] = m.data[g]
    BY <1>4, NewPageMapIs DEF GoodMemory
  <2> HIDE DEF n, f, w
  <2>3. /\ IsMemory(o) /\ o.data = n.data /\ o.ok = n.ok
        /\ EntrySet(m.maps, o.maps, dest, e, f, w)
    BY <1>1, <2>1, <2>2, SetEntryIs
  <2> HIDE DEF o
  <2>4. Good(DOMAIN m.data \cup {f}, o.maps, used)
    <3>1. w
      BY <1>2, <1>4
    <3>2. f \in Frame \ DOMAIN m.data /\ Good(DOMAIN m.data, m.maps, used) /\ w \in BOOLEAN
      BY <1>1, <2>2 DEF GoodMemory
    <3> QED
      BY <2>3, <3>1, <3>2, GoodNew
  <2>5. GoodMemory(o, used)
    BY <2>2, <2>3, <2>4 DEF GoodMemory
  <2>6. Grown(m, o, dest) /\ e \in DOMAIN o.maps[dest]
    BY <2>2, <2>3 DEF Grown, EntrySet
  <2>7. Copied(m, o, dest, src)
    BY <1>4, <2>3 DEF Copied, EntrySet
  <2> QED
    BY <2>5, <2>6, <2>7 DEF o
<1>5. CASE IsLeaf(e) /\ ~m.ok
  <2>1. o = m
    BY <1>5 DEF CopyEntry
  <2> QED
    BY <1>5, <2>1 DEF Grown, Copied
<1>6. CASE ~IsLeaf(e) /\ ~NewPageMap(m).ok
  <2>1. o = NewPageMap(m)
    BY <1>6 DEF CopyEntry
  <2>2. IsMemory(o) /\ o.maps = m.maps /\ o.data = m.data /\ ~o.ok
    BY <1>6, <2>1, NewPageMapIs DEF GoodMemory
  <2> HIDE DEF o
  <2> QED
    BY <2>2 DEF GoodMemory, Grown, Copied, o
<1> QED
  BY <1>3, <1>4, <1>5, <1>6

\* CopyPageMaps, one page.
LEMMA CopyPageGood ==
  ASSUME NEW m, NEW used, GoodMemory(m, used), NEW dest \in DOMAIN m.maps,
         NEW src \in DOMAIN m.maps \ used, src # dest, Pure(m.maps, src), NEW p
  PROVE  LET n == CopyPage(m, dest, src, p) IN
         /\ GoodMemory(n, used) /\ Grown(m, n, dest) /\ Copied(m, n, dest, src)
         /\ n.ok /\ LeafOf(p) \in DOMAIN m.maps[src] => LeafOf(p) \in DOMAIN n.maps[dest]
<1>1. PICK run : /\ run[0] = m
                 /\ \A k \in 1..Levels :
                      LET n == run[k - 1] IN
                      run[k] = IF Entry(k, p) \in DOMAIN n.maps[src] \ DOMAIN n.maps[dest]
                               THEN CopyEntry(n, dest, src, Entry(k, p)) ELSE n
                 /\ CopyPage(m, dest, src, p) = run[Levels]
  BY CopyPageRounds
<1> DEFINE Until(k) ==
             LET n == run[k] IN
             /\ GoodMemory(n, used) /\ Grown(m, n, dest) /\ Copied(m, n, dest, src)
             /\ k = Levels /\ n.ok /\ LeafOf(p) \in DOMAIN m.maps[src] =>
                  LeafOf(p) \in DOMAIN n.maps[dest]
           Done == { k \in 0..Levels : Until(k) }
<1>2. Levels \in Nat /\ Levels # 0 /\ Levels \in 0..Levels
  BY LayoutAssumption
<1>3. 0 \in Done
  BY <1>1, <1>2 DEF Grown, Copied
<1>4. ASSUME NEW k \in 1..Levels, k - 1 \in Done PROVE k \in Done
  <2> DEFINE a == run[k - 1]
             e == Entry(k, p)
             n == CopyEntry(a, dest, src, e)
  <2>1. GoodMemory(a, used) /\ Grown(m, a, dest) /\ Copied(m, a, dest, src) /\ k \in 0..Levels
    BY <1>2, <1>4
  <2>2. run[k] = IF e \in DOMAIN a.maps[src] \ DOMAIN a.maps[dest] THEN n ELSE a
    BY <1>1
  <2> k = Levels => e = LeafOf(p)
    BY DEF LeafOf
  <2> HIDE DEF a, e
  <2>3. /\ src \in DOMAIN a.maps \ used /\ dest \in DOMAIN a.maps
        /\ a.maps[src] = m.maps[src]
    BY <2>1 DEF Grown
  <2>4. CASE e \in DOMAIN a.maps[src] \ DOMAIN a.maps[dest]
    <3>1. IsLeaf(e) => ~a.maps[src][e].writable
      BY <2>3, <2>4 DEF Pure
    <3>2. /\ GoodMemory(n, used) /\ Grown(a, n, dest) /\ Copied(a, n, dest, src)
          /\ n.ok => e \in DOMAIN n.maps[dest]
      BY <2>1, <2>3, <2>4, <3>1, CopyEntryGood
    <3> HIDE DEF n
    <3>3. Grown(m, n, dest) /\ Copied(m, n, dest, src)
      BY <2>1, <3>2, GrownTwice, CopiedTwice
    <3> QED
      BY <2>1, <2>2, <2>4, <3>2, <3>3
  <2>5. CASE e \notin DOMAIN a.maps[src] \ DOMAIN a.maps[dest]
    BY <2>1, <2>2, <2>3, <2>5
  <2> QED
    BY <2>4, <2>5
<1>5. Levels \in Done
  <2> HIDE DEF Done
  <2>1. \A k \in 0..Levels : k \in Done
    BY <1>2, <1>3, <1>4, Rounds
  <2> QED
    BY <1>2, <2>1
<1> QED
  BY <1>1, <1>5

\* CopyPageMaps, whether or not it succeeds.
LEMMA CopyGood ==
  ASSUME NEW m, NEW used, GoodMemory(m, used), NEW dest \in DOMAIN m.maps,
         NEW src \in DOMAIN m.maps \ used, src # dest, Pure(m.maps, src)
  PROVE  LET n == CopyPageMaps(m, dest, src) IN
         /\ GoodMemory(n, used) /\ Grown(m, n, dest) /\ Copied(m, n, dest, src)
         /\ n.ok => \A p \in Page : LeafOf(p) \in DOMAIN m.maps[src] =>
                                     LeafOf(p) \in DOMAIN n.maps[dest]
<1>1. PICK run : /\ run[0] = m
                 /\ \A k \in 1..NumPages : run[k] = CopyPage(run[k - 1], dest, src, k - 1)
                 /\ CopyPageMaps(m, dest, src) = run[NumPages]
  BY CopyRounds
<1> DEFINE Until(k) ==
             LET n == run[k] IN
             /\ GoodMemory(n, used) /\ Grown(m, n, dest) /\ Copied(m, n, dest, src)
             /\ n.ok => \A p \in Page : p < k /\ LeafOf(p) \in DOMAIN m.maps[src] =>
                                         LeafOf(p) \in DOMAIN n.maps[dest]
           Done == { k \in 0..NumPages : Until(k) }
<1>2. /\ NumPages \in Nat /\ NumPages \in 0..NumPages
      /\ \A p \in Page : p \in Nat /\ p < NumPages
  BY LayoutAssumption DEF Page
<1>3. 0 \in Done
  BY <1>1, <1>2 DEF Grown, Copied
<1>4. ASSUME NEW k \in 1..NumPages, k - 1 \in Done PROVE k \in Done
  <2> DEFINE a == run[k - 1]
             n == CopyPage(a, dest, src, k - 1)
  <2>1. /\ GoodMemory(a, used) /\ Grown(m, a, dest) /\ Copied(m, a, dest, src)
        /\ a.ok => \A p \in Page : p < k - 1 /\ LeafOf(p) \in DOMAIN m.maps[src] =>
                                    LeafOf(p) \in DOMAIN a.maps[dest]
    BY <1>4
  <2>2. run[k] = n
    BY <1>1
  <2> HIDE DEF a
  <2>3. /\ src \in DOMAIN a.maps \ used /\ dest \in DOMAIN a.maps
        /\ a.maps[src] = m.maps[src]
    BY <2>1 DEF Grown
  <2>4. Pure(a.maps, src)
    BY <2>3 DEF Pure
  <2>5. /\ GoodMemory(n, used) /\ Grown(a, n, dest) /\ Copied(a, n, dest, src)
        /\ n.ok /\ LeafOf(k - 1) \in DOMAIN a.maps[src] => LeafOf(k - 1) \in DOMAIN n.maps[dest]
    BY <2>1, <2>3, <2>4, CopyPageGood
  <2> HIDE DEF n
  <2>6. Grown(m, n, dest) /\ Copied(m, n, dest, src)
    BY <2>1, <2>5, GrownTwice, CopiedTwice
  <2>7. ASSUME n.ok, NEW p \in Page, p < k, LeafOf(p) \in DOMAIN m.maps[src]
        PROVE  LeafOf(p) \in DOMAIN n.maps[dest]
    <3>1. p < k - 1 \/ p = k - 1
      BY <1>2, <2>7
    <3>2. a.ok /\ DOMAIN a.maps[dest] \subseteq DOMAIN n.maps[dest]
      BY <2>5, <2>7 DEF Grown
    <3> QED
      BY <2>1, <2>3, <2>5, <2>7, <3>1, <3>2
  <2>8. k \in 0..NumPages
    BY <1>2
  <2> QED
    BY <2>2, <2>5, <2>6, <2>7, <2>8
<1>5. NumPages \in Done
  <2> HIDE DEF Done
  <2>1. \A k \in 0..NumPages : k \in Done
    BY <1>2, <1>3, <1>4, Rounds
  <2> QED
    BY <1>2, <2>1
<1> QED
  BY <1>1, <1>2, <1>5

\* From m to n only root has changed: the other maps have the same entries, and
\* their pages show what they did.
Aside(m, n, root) ==
  /\ DOMAIN n.maps = DOMAIN m.maps
  /\ \A r \in DOMAIN m.maps : r # root => n.maps[r] = m.maps[r]
  /\ \A r \in DOMAIN m.maps : \A e \in DOMAIN m.maps[r] :
       LET f == m.maps[r][e].frame IN r # root => n.data[f] = m.data[f]

\* What a page that is not there shows, and one that holds v.
Absent == {}
Holds(v) == {v}

\* What is seen in a page through the map root.
Look(m, root, p) ==
  IF LeafOf(p) \in DOMAIN m.maps[root] THEN Holds(m.data[m.maps[root][LeafOf(p)].frame]) ELSE Absent

LEMMA HoldsIs ==
  ASSUME NEW v, NEW w
  PROVE  Holds(v) # Absent /\ (Holds(v) = Holds(w) => v = w)
  BY DEF Holds, Absent

LEMMA AsideTwice ==
  ASSUME NEW m, NEW n, NEW o, NEW root \in DOMAIN m.maps, Aside(m, n, root), Aside(n, o, root)
  PROVE  Aside(m, o, root)
  BY DEF Aside

LEMMA GrownAside ==
  ASSUME NEW m, NEW n, NEW used, NEW root, GoodMemory(m, used), Grown(m, n, root)
  PROVE  Aside(m, n, root)
  BY DEF Grown, Aside, GoodMemory, Good, Accounted

\* What is written into a page that is writable shows nowhere else.
Stored(m, f, v) == [m EXCEPT !.data[f] = v]

StoredIn(m, n, used, root, e, v) ==
  /\ GoodMemory(n, used) /\ n.maps = m.maps /\ n.ok = m.ok /\ Aside(m, n, root)
  /\ \A q \in Page : Look(n, root, q) = IF LeafOf(q) = e THEN Holds(v) ELSE Look(m, root, q)

LEMMA StoreGood ==
  ASSUME NEW m, NEW used, GoodMemory(m, used), NEW root \in DOMAIN m.maps,
         NEW e \in DOMAIN m.maps[root], m.maps[root][e].writable, NEW v,
         NEW n, n = Stored(m, m.maps[root][e].frame, v)
  PROVE  StoredIn(m, n, used, root, e, v)
<1> DEFINE f == m.maps[root][e].frame
<1>1. IsMemory(n) /\ n.maps = m.maps /\ n.ok = m.ok /\ n.data = [m.data EXCEPT ![f] = v]
  <2>1. n = [m EXCEPT !.data[f] = v]
    BY DEF Stored
  <2> HIDE DEF f
  <2> QED
    BY <2>1 DEF GoodMemory, IsMemory
<1>2. DOMAIN n.data = DOMAIN m.data /\ \A g \in DOMAIN m.data : g # f => n.data[g] = m.data[g]
  BY <1>1
<1>3. GoodMemory(n, used)
  BY <1>1, <1>2 DEF GoodMemory
<1>4. ASSUME NEW r \in DOMAIN m.maps, NEW c \in DOMAIN m.maps[r], r # root \/ c # e
      PROVE  m.maps[r][c].frame \in DOMAIN m.data /\ m.maps[r][c].frame # f
  BY <1>4 DEF GoodMemory, Good, Shared, Accounted
<1>5. Aside(m, n, root)
  <2> HIDE DEF f
  <2> QED
    BY <1>1, <1>2, <1>4 DEF Aside
<1>6. f \in DOMAIN m.data /\ n.data[f] = v
  BY <1>1 DEF GoodMemory, Good, Accounted
<1>7. ASSUME NEW q \in Page
      PROVE  Look(n, root, q) = IF LeafOf(q) = e THEN Holds(v) ELSE Look(m, root, q)
  <2>1. CASE LeafOf(q) = e
    BY <1>1, <1>6, <2>1 DEF Look
  <2>2. CASE LeafOf(q) # e
    <3>1. LeafOf(q) \in DOMAIN m.maps[root] =>
            n.data[m.maps[root][LeafOf(q)].frame] = m.data[m.maps[root][LeafOf(q)].frame]
      BY <1>2, <1>4, <2>2
    <3> QED
      BY <1>1, <2>2, <3>1 DEF Look
  <2> QED
    BY <2>1, <2>2
<1> QED
  BY <1>1, <1>3, <1>5, <1>7 DEF StoredIn

\* New pages show zeros and the others what they did.
LEMMA SetupLooks ==
  ASSUME NEW m, NEW used, GoodMemory(m, used), NEW root \in DOMAIN m.maps,
         NEW pages \in SUBSET Page,
         NEW writable \in BOOLEAN, MaySet(m, used, root, pages, writable)
  PROVE  LET n == SetupPageMaps(m, root, pages, writable) IN
         n.ok => \A q \in Page :
                   Look(n, root, q) = IF q \in pages /\ LeafOf(q) \notin DOMAIN m.maps[root]
                                      THEN Holds("zero") ELSE Look(m, root, q)
<1> DEFINE n == SetupPageMaps(m, root, pages, writable)
<1>1. /\ Grown(m, n, root) /\ Zeroed(m, n, root) /\ OnlyPages(m, n, root, pages)
      /\ n.ok => PagesSet(n, root, pages, writable)
  BY SetupGood
<1> HIDE DEF n
<1> SUFFICES ASSUME n.ok, NEW q \in Page
             PROVE  Look(n, root, q) = IF q \in pages /\ LeafOf(q) \notin DOMAIN m.maps[root]
                                       THEN Holds("zero") ELSE Look(m, root, q)
  BY DEF n
<1>2. CASE LeafOf(q) \in DOMAIN m.maps[root]
  <2>1. m.maps[root][LeafOf(q)].frame \in DOMAIN m.data
    BY <1>2 DEF GoodMemory, Good, Accounted
  <2> QED
    BY <1>1, <1>2, <2>1 DEF Grown, Look
<1>3. CASE LeafOf(q) \notin DOMAIN m.maps[root] /\ q \in pages
  BY <1>1, <1>3 DEF PagesSet, Zeroed, Look
<1>4. CASE LeafOf(q) \notin DOMAIN m.maps[root] /\ q \notin pages
  <2>1. IsLeaf(LeafOf(q)) /\ \A p \in pages : LeafOf(q) # LeafOf(p)
    BY <1>4, EntriesApart
  <2> QED
    BY <1>1, <1>4, <2>1 DEF OnlyPages, Look
<1> QED
  BY <1>2, <1>3, <1>4

\* A copy shows what the original shows.
LEMMA CopyLooks ==
  ASSUME NEW m, NEW used, GoodMemory(m, used), NEW dest \in DOMAIN m.maps,
         NEW src \in DOMAIN m.maps \ used, src # dest, Pure(m.maps, src),
         DOMAIN m.maps[dest] = {}
  PROVE  LET n == CopyPageMaps(m, dest, src) IN
         n.ok => \A q \in Page : Look(n, dest, q) = Look(m, src, q)
<1> DEFINE n == CopyPageMaps(m, dest, src)
<1>1. /\ Grown(m, n, dest) /\ Copied(m, n, dest, src)
      /\ n.ok => \A p \in Page : LeafOf(p) \in DOMAIN m.maps[src] =>
                                  LeafOf(p) \in DOMAIN n.maps[dest]
  BY CopyGood
<1> HIDE DEF n
<1> SUFFICES ASSUME n.ok, NEW q \in Page PROVE Look(n, dest, q) = Look(m, src, q)
  BY DEF n
<1>2. IsLeaf(LeafOf(q))
  BY EntriesApart
<1>3. CASE LeafOf(q) \in DOMAIN m.maps[src]
  <2>1. m.maps[src][LeafOf(q)].frame \in DOMAIN m.data
    BY <1>3 DEF GoodMemory, Good, Accounted
  <2> QED
    BY <1>1, <1>2, <1>3, <2>1 DEF Grown, Copied, Look
<1>4. CASE LeafOf(q) \notin DOMAIN m.maps[src]
  BY <1>1, <1>2, <1>4 DEF Copied, Look
<1> QED
  BY <1>3, <1>4

\* SetupPML4 makes a map that is empty.
LEMMA RootGood ==
  ASSUME NEW m, NEW used, GoodMemory(m, used)
  PROVE  LET n == SetupPML4(m) IN
         /\ IsMemory(n)
         /\ n.ok => /\ m.ok
                    /\ n.new \in Frame \ DOMAIN m.maps
                    /\ DOMAIN n.maps = DOMAIN m.maps \cup {n.new}
                    /\ DOMAIN n.maps[n.new] = {}
                    /\ \A r \in DOMAIN m.maps : n.maps[r] = m.maps[r]
                    /\ \A f \in DOMAIN m.data : n.data[f] = m.data[f]
                    /\ GoodMemory(n, used) /\ GoodMemory(n, used \cup {n.new})
         /\ ~n.ok => n.data = m.data /\ n.maps = m.maps
<1> DEFINE a == NewPageMap(m)
           n == SetupPML4(m)
           f == a.new
<1>1. /\ IsMemory(a) /\ a.maps = m.maps
      /\ a.ok => /\ m.ok
                 /\ f \in Frame \ DOMAIN m.data
                 /\ DOMAIN a.data = DOMAIN m.data \cup {f}
                 /\ \A g \in DOMAIN m.data : a.data[g] = m.data[g]
      /\ ~a.ok => a.data = m.data
  BY NewPageMapIs DEF GoodMemory
<1>2. n = IF a.ok THEN [a EXCEPT !.maps = With(m.maps, f, <<>>)] ELSE a
  BY <1>1 DEF SetupPML4
<1> HIDE DEF a
<1>3. CASE a.ok
  <2>1. /\ IsMemory(n) /\ n.data = a.data /\ n.new = f /\ n.ok
        /\ n.maps = With(m.maps, f, <<>>)
    BY <1>1, <1>2, <1>3 DEF IsMemory
  <2> HIDE DEF n
  <2>2. f \notin DOMAIN m.maps
    BY <1>1, <1>3 DEF GoodMemory, Good, Accounted
  <2>3. /\ DOMAIN n.maps = DOMAIN m.maps \cup {f} /\ n.maps[f] = <<>>
        /\ \A r \in DOMAIN m.maps : n.maps[r] = m.maps[r]
    BY <2>1, <2>2 DEF With
  <2>4. DOMAIN n.maps[f] = {}
    BY <2>3
  <2>5. Good(DOMAIN m.data \cup {f}, n.maps, used)
        /\ Good(DOMAIN m.data \cup {f}, n.maps, used \cup {f})
    BY <1>1, <1>3, <2>3, <2>4, GoodRoot DEF GoodMemory
  <2>6. GoodMemory(n, used) /\ GoodMemory(n, used \cup {f})
    BY <1>1, <1>3, <2>1, <2>5 DEF GoodMemory
  <2> QED
    BY <1>1, <1>3, <2>1, <2>2, <2>3, <2>4, <2>6 DEF n
<1>4. CASE ~a.ok
  BY <1>1, <1>2, <1>4
<1> QED
  BY <1>3, <1>4

\* LoadELF into an empty map: if it succeeds the map holds the image alone.
LEMMA LoadELFGood ==
  ASSUME NEW m, NEW used, GoodMemory(m, used), NEW root \in DOMAIN m.maps \ used,
         DOMAIN m.maps[root] = {}
  PROVE  LET n == LoadELF(m, root) IN
         /\ GoodMemory(n, used) /\ Aside(m, n, root)
         /\ n.ok => /\ Pure(n.maps, root) /\ HoldsImage(n.maps, root)
                    /\ ShowsImage(n.data, n.maps, root)
<1> DEFINE a == SetupPageMaps(m, root, ImagePages, FALSE)
           pages == Frames(a, root, { Entry(Levels, p) : p \in ImagePages })
           n == LoadELF(m, root)
<1>1. ImagePages \in SUBSET Page
  BY LayoutAssumption
<1>2. FALSE \in BOOLEAN /\ MaySet(m, used, root, ImagePages, FALSE)
  BY DEF MaySet
<1>3. /\ GoodMemory(a, used) /\ Grown(m, a, root) /\ Zeroed(m, a, root)
      /\ OnlyPages(m, a, root, ImagePages)
      /\ a.ok => PagesSet(a, root, ImagePages, FALSE)
  BY <1>1, <1>2, SetupGood
<1>4. n = IF a.ok
          THEN [a EXCEPT !.data = [f \in DOMAIN a.data |->
                                     IF f \in pages THEN "image" ELSE a.data[f]]]
          ELSE a
  BY DEF LoadELF
<1>5. \A p \in ImagePages : LeafOf(p) \in DOMAIN a.maps[root] => a.maps[root][LeafOf(p)].frame \in pages
  BY DEF Frames, LeafOf
<1>6. \A g \in pages : \E p \in ImagePages : g = a.maps[root][LeafOf(p)].frame
  BY DEF Frames, LeafOf
<1> HIDE DEF a, pages
<1>7. Aside(m, a, root)
  BY <1>3, GrownAside
<1>8. CASE a.ok
  <2>1. /\ IsMemory(n) /\ n.maps = a.maps /\ n.ok
        /\ n.data = [f \in DOMAIN a.data |-> IF f \in pages THEN "image" ELSE a.data[f]]
    BY <1>3, <1>4, <1>8 DEF GoodMemory, IsMemory
  <2> HIDE DEF n
  <2>2. GoodMemory(n, used)
    BY <1>3, <2>1 DEF GoodMemory
  <2>3. ASSUME NEW g \in DOMAIN m.data PROVE n.data[g] = m.data[g]
    <3>1. g \notin pages
      BY <1>3, <1>8, <1>6 DEF Zeroed, PagesSet
    <3> QED
      BY <1>3, <2>1, <3>1 DEF Grown
  <2>4. Aside(m, n, root)
    <3>1. /\ DOMAIN n.maps = DOMAIN m.maps
          /\ \A r \in DOMAIN m.maps : r # root => n.maps[r] = m.maps[r]
      BY <1>7, <2>1 DEF Aside
    <3>2. \A r \in DOMAIN m.maps : \A e \in DOMAIN m.maps[r] : m.maps[r][e].frame \in DOMAIN m.data
      BY DEF GoodMemory, Good, Accounted
    <3> HIDE DEF n
    <3> QED
      BY <2>3, <3>1, <3>2 DEF Aside
  <2>5. HoldsImage(n.maps, root)
    BY <1>3, <1>8, <2>1 DEF PagesSet, HoldsImage
  <2>6. root \in DOMAIN a.maps
    BY <1>3 DEF Grown
  <2>7. ShowsImage(n.data, n.maps, root)
    BY <1>3, <1>5, <2>1, <2>5, <2>6 DEF ShowsImage, HoldsImage, GoodMemory, Good, Accounted
  <2>8. Pure(n.maps, root)
    BY <2>1, <2>5, <1>3 DEF Pure, OnlyPages, HoldsImage
  <2> QED
    BY <2>2, <2>4, <2>5, <2>7, <2>8 DEF n
<1>9. CASE ~a.ok
  BY <1>3, <1>4, <1>7, <1>9
<1> QED
  BY <1>8, <1>9

\* CopyOnePage gives the map its own copy of a page.
LEMMA CopyOnePageGood ==
  ASSUME NEW m, NEW used, GoodMemory(m, used), NEW root \in DOMAIN m.maps, root \in used,
         NEW p, LeafOf(p) \in DOMAIN m.maps[root], ~m.maps[root][LeafOf(p)].writable
  PROVE  LET n == CopyOnePage(m, root, p) IN
         /\ GoodMemory(n, used) /\ Aside(m, n, root)
         /\ n.ok => \A q \in Page : Look(n, root, q) = Look(m, root, q)
<1> DEFINE e == LeafOf(p)
           a == NewPageMap(m)
           f == a.new
           v == m.data[m.maps[root][e].frame]
           b == [a EXCEPT !.data[f] = v]
           n == CopyOnePage(m, root, p)
           w == TRUE
<1>1. /\ IsMemory(a) /\ a.maps = m.maps
      /\ a.ok => /\ m.ok
                 /\ f \in Frame \ DOMAIN m.data
                 /\ DOMAIN a.data = DOMAIN m.data \cup {f}
                 /\ \A g \in DOMAIN m.data : a.data[g] = m.data[g]
      /\ ~a.ok => a.data = m.data
  BY NewPageMapIs DEF GoodMemory
<1>2. n = IF a.ok THEN SetEntry(b, root, e, f, w) ELSE a
  BY DEF CopyOnePage, LeafOf
<1>3. w \in BOOLEAN /\ w
  OBVIOUS
<1> HIDE DEF a, e, w
<1>4. CASE a.ok
  <2>1. IsMemory(b) /\ b.maps = m.maps /\ b.data = [a.data EXCEPT ![f] = v]
    <3> HIDE DEF v, f
    <3> QED
      BY <1>1 DEF IsMemory
  <2>2. DOMAIN b.data = DOMAIN m.data \cup {f} /\ \A g \in DOMAIN m.data : b.data[g] = m.data[g]
    BY <1>1, <1>4, <2>1
  <2> HIDE DEF b, f, n
  <2>3. /\ IsMemory(n) /\ n.data = b.data
        /\ EntrySet(m.maps, n.maps, root, e, f, w)
    <3>1. n = SetEntry(b, root, e, f, w) /\ root \in DOMAIN b.maps
      BY <1>2, <1>4, <2>1
    <3>2. IsMemory(b) /\ root \in DOMAIN b.maps /\ w \in BOOLEAN
      BY <1>3, <2>1, <3>1
    <3>3. IsMemory(n) /\ n.data = b.data /\ EntrySet(b.maps, n.maps, root, e, f, w)
      BY <3>1, <3>2, SetEntryIs
    <3> QED
      BY <2>1, <3>3
  <2>4. Good(DOMAIN m.data \cup {f}, n.maps, used)
    <3>1. f \in Frame \ DOMAIN m.data /\ Good(DOMAIN m.data, m.maps, used)
      BY <1>1, <1>4 DEF GoodMemory, f
    <3> QED
      BY <1>3, <2>3, <3>1, GoodNew DEF e
  <2>5. GoodMemory(n, used)
    BY <2>2, <2>3, <2>4 DEF GoodMemory
  <2>6. Aside(m, n, root)
    BY <2>2, <2>3 DEF Aside, EntrySet, GoodMemory, Good, Accounted
  <2>7. f \in DOMAIN a.data /\ b.data[f] = v
    BY <1>1, <1>4, <2>1 DEF b, f
  <2>8. ASSUME NEW q \in Page PROVE Look(n, root, q) = Look(m, root, q)
    <3>1. CASE LeafOf(q) = e
      BY <2>3, <2>7, <3>1 DEF Look, EntrySet, e
    <3>2. CASE LeafOf(q) # e
      <4>1. LeafOf(q) \in DOMAIN m.maps[root] =>
              /\ LeafOf(q) \in DOMAIN n.maps[root]
              /\ n.maps[root][LeafOf(q)] = m.maps[root][LeafOf(q)]
              /\ m.maps[root][LeafOf(q)].frame \in DOMAIN m.data
        BY <2>3, <3>2 DEF EntrySet, GoodMemory, Good, Accounted
      <4>2. LeafOf(q) \in DOMAIN n.maps[root] => LeafOf(q) \in DOMAIN m.maps[root]
        BY <2>3, <3>2 DEF EntrySet
      <4> QED
        BY <2>2, <2>3, <4>1, <4>2 DEF Look
    <3> QED
      BY <3>1, <3>2
  <2> QED
    BY <2>5, <2>6, <2>8 DEF n
<1>5. CASE ~a.ok
  BY <1>1, <1>2, <1>5 DEF GoodMemory, Aside
<1> QED
  BY <1>4, <1>5

\* PreparePageCache shows the file in a page that was not there.
LEMMA PreparePageCacheGood ==
  ASSUME NEW m, NEW used, GoodMemory(m, used), NEW root \in DOMAIN m.maps,
         NEW p \in Page, LeafOf(p) \notin DOMAIN m.maps[root]
  PROVE  LET n == PreparePageCache(m, root, p) IN
         /\ GoodMemory(n, used) /\ Aside(m, n, root)
         /\ n.ok => \A q \in Page : Look(n, root, q) = IF q = p THEN Holds("file") ELSE Look(m, root, q)
<1> DEFINE a == SetupPageMaps(m, root, {p}, TRUE)
           e == LeafOf(p)
           b == [a EXCEPT !.data[a.maps[root][e].frame] = "file"]
           n == PreparePageCache(m, root, p)
<1>1. TRUE \in BOOLEAN /\ {p} \in SUBSET Page /\ MaySet(m, used, root, {p}, TRUE)
  BY DEF MaySet
<1>2. /\ GoodMemory(a, used) /\ Grown(m, a, root)
      /\ a.ok => PagesSet(a, root, {p}, TRUE)
      /\ a.ok => \A q \in Page : q # p => Look(a, root, q) = Look(m, root, q)
  BY <1>1, SetupGood, SetupLooks
<1>3. n = IF a.ok THEN b ELSE a
  BY DEF PreparePageCache, LeafOf
<1> HIDE DEF a
<1>4. Aside(m, a, root) /\ root \in DOMAIN a.maps
  BY <1>2, GrownAside DEF Grown
<1>5. CASE a.ok
  <2>1. e \in DOMAIN a.maps[root] /\ a.maps[root][e].writable
    BY <1>2, <1>5 DEF PagesSet
  <2> HIDE DEF e, n
  <2>2. /\ GoodMemory(b, used) /\ Aside(a, b, root)
        /\ \A q \in Page : Look(b, root, q) = IF LeafOf(q) = e THEN Holds("file") ELSE Look(a, root, q)
    <3>1. b = Stored(a, a.maps[root][e].frame, "file")
      BY DEF Stored
    <3> HIDE DEF b
    <3>2. GoodMemory(a, used) /\ root \in DOMAIN a.maps
      BY <1>2, <1>4
    <3> QED
      BY <2>1, <3>1, <3>2, StoreGood DEF StoredIn
  <2> HIDE DEF b
  <2>3. Aside(m, b, root)
    BY <1>4, <2>2, AsideTwice
  <2>4. \A q \in Page : LeafOf(q) = e <=> q = p
    BY EntriesApart DEF e
  <2> QED
    BY <1>2, <1>3, <1>5, <2>2, <2>3, <2>4 DEF n
<1>6. CASE ~a.ok
  BY <1>2, <1>3, <1>4, <1>6
<1> QED
  BY <1>5, <1>6

\* The pages of the arguments and of the stack, which are nobody else's.
LEMMA ArgsGood ==
  ASSUME NEW o, NEW used, GoodMemory(o, used), NEW root \in DOMAIN o.maps
  PROVE  LET m == SetupPageMaps(o, root, {ArgsPage}, TRUE)
             n == SetupPageMaps(Stored(m, m.maps[root][LeafOf(ArgsPage)].frame, "args"),
                                root, StackPages, TRUE)
         IN /\ GoodMemory(m, used) /\ Aside(o, m, root)
            /\ m.ok => GoodMemory(n, used) /\ Aside(o, n, root)
            /\ m.ok /\ n.ok /\ (\A q \in StackPages : Look(o, root, q) = Absent) =>
                 \A q \in Page : Look(n, root, q) = IF q = ArgsPage THEN Holds("args")
                                                    ELSE IF q \in StackPages THEN Holds("zero")
                                                    ELSE Look(o, root, q)
<1> DEFINE m == SetupPageMaps(o, root, {ArgsPage}, TRUE)
           e == LeafOf(ArgsPage)
           b == Stored(m, m.maps[root][e].frame, "args")
           n == SetupPageMaps(b, root, StackPages, TRUE)
<1>1. TRUE \in BOOLEAN /\ {ArgsPage} \in SUBSET Page /\ StackPages \in SUBSET Page
      /\ ArgsPage \in Page
  BY LayoutAssumption
<1>2. ASSUME NEW c, GoodMemory(c, used), root \in DOMAIN c.maps, NEW p \in {ArgsPage} \cup StackPages,
             LeafOf(p) \in DOMAIN c.maps[root]
      PROVE  c.maps[root][LeafOf(p)].writable
  <2>1. p \in Page /\ p \notin ImagePages /\ \A q \in ImagePages : q \in Page /\ q # p
    BY LayoutAssumption
  <2>2. LeafOf(p) \notin ImageEntries
    BY <2>1, EntriesApart DEF ImageEntries
  <2> QED
    BY <1>2, <2>2 DEF GoodMemory, Good, OnlyImages
<1>3. MaySet(o, used, root, {ArgsPage}, TRUE)
  BY <1>2 DEF MaySet
<1>4. /\ GoodMemory(m, used) /\ Grown(o, m, root) /\ OnlyPages(o, m, root, {ArgsPage})
      /\ m.ok => PagesSet(m, root, {ArgsPage}, TRUE)
  BY <1>1, <1>3, SetupGood
<1>5. m.ok => \A q \in Page : q # ArgsPage => Look(m, root, q) = Look(o, root, q)
  BY <1>1, <1>3, SetupLooks
<1> HIDE DEF m
<1>6. Aside(o, m, root) /\ root \in DOMAIN m.maps
  BY <1>4, GrownAside DEF Grown
<1>7. SUFFICES ASSUME m.ok
             PROVE  /\ GoodMemory(n, used) /\ Aside(o, n, root)
                    /\ n.ok /\ (\A q \in StackPages : Look(o, root, q) = Absent) =>
                         \A q \in Page : Look(n, root, q) = IF q = ArgsPage THEN Holds("args")
                                                            ELSE IF q \in StackPages THEN Holds("zero")
                                                            ELSE Look(o, root, q)
  BY <1>4, <1>6 DEF m
<1>8. e \in DOMAIN m.maps[root] /\ m.maps[root][e].writable
  BY <1>4, <1>7 DEF PagesSet
<1> HIDE DEF e
<1>9. StoredIn(m, b, used, root, e, "args")
  <2>1. GoodMemory(m, used) /\ root \in DOMAIN m.maps
    BY <1>4, <1>6
  <2>2. b = Stored(m, m.maps[root][e].frame, "args")
    OBVIOUS
  <2> HIDE DEF b
  <2> QED
    BY <1>8, <2>1, <2>2, StoreGood
<1> HIDE DEF b
<1>10. root \in DOMAIN b.maps /\ MaySet(b, used, root, StackPages, TRUE)
  BY <1>2, <1>6, <1>9 DEF MaySet, StoredIn
<1>11. GoodMemory(n, used) /\ Grown(b, n, root)
  BY <1>1, <1>9, <1>10, SetupGood DEF StoredIn
<1>12. n.ok => \A q \in Page :
                  Look(n, root, q) = IF q \in StackPages /\ LeafOf(q) \notin DOMAIN b.maps[root]
                                     THEN Holds("zero") ELSE Look(b, root, q)
  BY <1>1, <1>9, <1>10, SetupLooks DEF StoredIn
<1> HIDE DEF n
<1>13. Aside(o, n, root)
  <2>1. Aside(b, n, root)
    BY <1>9, <1>11, GrownAside DEF StoredIn
  <2>2. Aside(o, b, root)
    BY <1>6, <1>9, AsideTwice DEF StoredIn
  <2> QED
    BY <2>1, <2>2, AsideTwice
<1>14. ASSUME n.ok, \A q \in StackPages : Look(o, root, q) = Absent, NEW q \in Page
       PROVE  Look(n, root, q) = IF q = ArgsPage THEN Holds("args")
                                 ELSE IF q \in StackPages THEN Holds("zero") ELSE Look(o, root, q)
  <2>1. LeafOf(q) = e <=> q = ArgsPage
    BY <1>1, EntriesApart DEF e
  <2>2. ArgsPage \notin StackPages
    BY LayoutAssumption
  <2>3. ASSUME q \in StackPages PROVE LeafOf(q) \notin DOMAIN b.maps[root]
    <3>1. LeafOf(q) \notin DOMAIN o.maps[root]
      BY <1>14, <2>3, HoldsIs DEF Look
    <3>2. LeafOf(q) # LeafOf(ArgsPage) /\ IsLeaf(LeafOf(q))
      BY <1>1, <2>2, <2>3, EntriesApart
    <3> QED
      BY <1>4, <1>9, <3>1, <3>2 DEF OnlyPages, StoredIn
  <2> QED
    BY <1>5, <1>7, <1>9, <1>12, <1>14, <2>1, <2>2, <2>3 DEF StoredIn
<1> QED
  BY <1>11, <1>13, <1>14

\* CleanPageMaps and FreePML4, at the end of ExecuteFile.
LEMMA CleanGood ==
  ASSUME NEW m, NEW used, GoodMemory(m, used), NEW root \in DOMAIN m.maps, root \in used
  PROVE  LET n == FreePageMap(CleanPageMaps(m, root), root) IN
         /\ GoodMemory(n, used \ {root})
         /\ DOMAIN n.maps = DOMAIN m.maps \ {root}
         /\ \A r \in DOMAIN n.maps : n.maps[r] = m.maps[r]
         /\ \A f \in DOMAIN n.data : n.data[f] = m.data[f]
<1> DEFINE c == { e \in DOMAIN m.maps[root] : m.maps[root][e].writable }
           own == { m.maps[root][e].frame : e \in c }
           a == CleanPageMaps(m, root)
           n == FreePageMap(a, root)
<1>1. /\ IsMemory(a) /\ a.data = Restrict(m.data, DOMAIN m.data \ own)
      /\ DOMAIN a.maps = DOMAIN m.maps
      /\ \A r \in DOMAIN m.maps : r # root => a.maps[r] = m.maps[r]
  <2>1. own = Frames(m, root, c)
    BY DEF Frames
  <2> HIDE DEF own
  <2>2. a = [FreeFrames(m, own) EXCEPT !.maps[root] = <<>>]
    BY <2>1 DEF CleanPageMaps
  <2> HIDE DEF a, c
  <2>3. /\ a.data = Restrict(m.data, DOMAIN m.data \ own) /\ IsMemory(a)
        /\ a.maps = [m.maps EXCEPT ![root] = <<>>]
    BY <2>2 DEF FreeFrames, GoodMemory, IsMemory
  <2> QED
    BY <2>3
<1>2. DOMAIN a.data = DOMAIN m.data \ own /\ \A f \in DOMAIN a.data : a.data[f] = m.data[f]
  <2> HIDE DEF own, a
  <2> QED
    BY <1>1 DEF Restrict
<1>3. /\ IsMemory(n) /\ n.data = Restrict(a.data, DOMAIN a.data \ {root})
      /\ n.maps = Restrict(a.maps, DOMAIN a.maps \ {root})
  <2> DEFINE b == FreeFrames(a, {root})
  <2> HIDE DEF a
  <2>1. /\ IsMemory(b) /\ b.data = Restrict(a.data, DOMAIN a.data \ {root})
        /\ b.maps = a.maps
    BY <1>1 DEF FreeFrames, IsMemory
  <2>2. n = [b EXCEPT !.maps = Restrict(@, DOMAIN @ \ {root})]
    BY DEF FreePageMap
  <2> HIDE DEF b, n
  <2> QED
    BY <2>1, <2>2 DEF IsMemory
<1> HIDE DEF n, a
<1>4. /\ DOMAIN n.data = (DOMAIN m.data \ own) \ {root}
      /\ \A f \in DOMAIN n.data : n.data[f] = m.data[f]
  <2> HIDE DEF own
  <2> QED
    BY <1>2, <1>3 DEF Restrict
<1>5. DOMAIN n.maps = DOMAIN m.maps \ {root} /\ \A r \in DOMAIN n.maps : n.maps[r] = m.maps[r]
  BY <1>1, <1>3 DEF Restrict
<1>6. Good((DOMAIN m.data \ own) \ {root}, n.maps, used \ {root})
  BY <1>5, GoodWithout DEF GoodMemory
<1>7. GoodMemory(n, used \ {root})
  <2> HIDE DEF own
  <2> QED
    BY <1>3, <1>4, <1>6 DEF GoodMemory
<1> QED
  BY <1>4, <1>5, <1>7 DEF n, a

-----------------------------------------------------------------------------
(* Where tasks are, and the maps they have *)

MovesOnly(t) == \A u \in Task : u # t => pc'[u] = pc[u] /\ cr3'[u] = cr3[u]

OtherUsed(t) == { cr3[u] : u \in Using \ {t} }
OtherLoading(t) == { cr3[u] : u \in Loading \ {t} }

\* Only t goes to another place or gets another map.
LEMMA PlacesAre ==
  ASSUME NEW t \in Task, MovesOnly(t)
  PROVE  /\ Using' = (Using \ {t}) \cup (IF pc'[t].at \in {"args", "run"} THEN {t} ELSE {})
         /\ Loading' = (Loading \ {t}) \cup (IF pc'[t].at = "insert" THEN {t} ELSE {})
         /\ Used' = OtherUsed(t) \cup (IF pc'[t].at \in {"args", "run"} THEN {cr3'[t]} ELSE {})
         /\ Pristine' = Loads' \cup OtherLoading(t)
                               \cup (IF pc'[t].at = "insert" THEN {cr3'[t]} ELSE {})
<1>1. /\ Using' = (Using \ {t}) \cup (IF pc'[t].at \in {"args", "run"} THEN {t} ELSE {})
      /\ Loading' = (Loading \ {t}) \cup (IF pc'[t].at = "insert" THEN {t} ELSE {})
  BY DEF MovesOnly, Using, Loading, At
<1>2. Using \subseteq Task /\ Loading \subseteq Task
  BY DEF Using, Loading
<1>3. Used' = { cr3'[u] : u \in Using' } /\ Pristine' = Loads' \cup { cr3'[u] : u \in Loading' }
  BY DEF Used, Pristine
<1>4. \A u \in Using \ {t} : cr3'[u] = cr3[u]
  BY <1>2 DEF MovesOnly
<1>5. \A u \in Loading \ {t} : cr3'[u] = cr3[u]
  BY <1>2 DEF MovesOnly
<1>6. Used' = OtherUsed(t) \cup (IF pc'[t].at \in {"args", "run"} THEN {cr3'[t]} ELSE {})
  BY <1>1, <1>3, <1>4 DEF OtherUsed
<1>7. { cr3'[u] : u \in Loading' } = OtherLoading(t)
                                     \cup (IF pc'[t].at = "insert" THEN {cr3'[t]} ELSE {})
  BY <1>1, <1>5 DEF OtherLoading
<1> QED
  BY <1>1, <1>3, <1>6, <1>7

LEMMA PlacesWere ==
  ASSUME NEW t \in Task
  PROVE  /\ t \in Using => Used = OtherUsed(t) \cup {cr3[t]}
         /\ t \notin Using => Used = OtherUsed(t)
         /\ t \in Loading => Pristine = Loads \cup OtherLoading(t) \cup {cr3[t]}
         /\ t \notin Loading => Pristine = Loads \cup OtherLoading(t)
  BY DEF Used, Pristine, OtherUsed, OtherLoading

\* The map that a task uses is no other task's.
LEMMA OwnMap ==
  ASSUME PTypeOK, Apart, NEW t \in Using
  PROVE  cr3[t] \in Used /\ cr3[t] \in DOMAIN maps /\ cr3[t] \notin OtherUsed(t) \cup Pristine
  BY DEF Apart, Used, OtherUsed

LEMMA GotoIs ==
  ASSUME PTypeOK, NEW t \in Task, NEW place \in {"shell", "insert", "args", "run"}, Goto(t, place)
  PROVE  /\ pc' \in [Task -> [at : {"shell", "insert", "args", "run"}, app : App \cup {"none"}]]
         /\ pc'[t].at = place /\ pc'[t].app = pc[t].app
         /\ \A u \in Task : u # t => pc'[u] = pc[u]
  BY DEF PTypeOK, Goto

\* The memory of a state.
LEMMA MemoryIs ==
  ASSUME Good(DOMAIN data, maps, Used)
  PROVE  /\ GoodMemory(Memory, Used) /\ Memory.data = data /\ Memory.maps = maps /\ Memory.ok
         /\ Memory.new = KernelMap
  BY DEF Memory, GoodMemory, IsMemory

\* A map stays as it is when its entries do and its pages show what they did.
StaysPut(r) ==
  /\ r \in DOMAIN maps' /\ maps'[r] = maps[r]
  /\ ~AnyBuffer =>
       \A e \in DOMAIN maps[r] : LET f == maps[r][e].frame IN data'[f] = data[f]

\* No map changes but that of t, which may be given another one.
OthersStayPut(t) == \A r \in DOMAIN maps \ {cr3[t]} : StaysPut(r)

ImageIn(d, mp, r) == Pure(mp, r) /\ HoldsImage(mp, r) /\ (~AnyBuffer => ShowsImage(d, mp, r))

LEMMA StillImage ==
  ASSUME Images, NEW r \in Pristine, StaysPut(r)
  PROVE  ImageIn(data', maps', r)
<1>1. Pure(maps, r) /\ HoldsImage(maps, r) /\ (~AnyBuffer => ShowsImage(data, maps, r))
  BY DEF Images
<1>2. Pure(maps', r) /\ HoldsImage(maps', r)
  BY <1>1 DEF StaysPut, Pure, HoldsImage
<1>3. ASSUME ~AnyBuffer PROVE ShowsImage(data', maps', r)
  BY <1>1, <1>3 DEF StaysPut, HoldsImage, ShowsImage
<1> QED
  BY <1>2, <1>3 DEF ImageIn

LEMMA ImagesAre ==
  ASSUME \A r \in Pristine' : ImageIn(data', maps', r)
  PROVE  Images'
  BY DEF Images, ImageIn

-----------------------------------------------------------------------------
(* What each step does to the invariant *)

\* No application has been started.
LEMMA InitMInv == Init => MInv
<1> SUFFICES ASSUME Init PROVE MInv
  OBVIOUS
<1>1. DOMAIN data = {} /\ DOMAIN maps = {}
  BY DEF Init
<1>2. \A t \in Task : pc[t].at = "shell" /\ cr3[t] = KernelMap
  BY DEF Init
<1>3. Using = {} /\ Loading = {} /\ Used = {}
  BY <1>2 DEF Using, Loading, Used, At
<1>4. Loads = {} /\ Pristine = {}
  BY <1>3 DEF Init, Loads, Pristine
<1>5. PTypeOK
  BY <1>3 DEF Init, PTypeOK
<1>6. Good(DOMAIN data, maps, Used)
  BY <1>1 DEF Good, Accounted, Shared, OnlyImages, Kept
<1> QED
  BY <1>1, <1>2, <1>3, <1>4, <1>5, <1>6 DEF MInv, Apart, Images, Tidy

\* A task that uses its map goes on using it, or fails and gives up using it.
LEMMA UseStep ==
  ASSUME MInv, NEW t \in Using, NEW n, GoodMemory(n, Used), DOMAIN n.maps = DOMAIN maps,
         Remember(n), UNCHANGED <<cr3, app_loads>>,
         \A r \in DOMAIN maps \ {cr3[t]} : StaysPut(r),
         \/ pc' = pc /\ mishaps' = mishaps
         \/ Goto(t, "run") /\ mishaps' = mishaps
         \/ Fail(t)
  PROVE  MInv'
<1>1. t \in Task /\ t \notin Loading
  BY DEF Using, Loading, At
<1>2. pc'[t].at \in {"args", "run", "shell"} /\ (mishaps' = mishaps <=> pc'[t].at # "shell")
      /\ mishaps' \in Nat /\ MovesOnly(t) /\ pc'[t].app = pc[t].app
      /\ pc' \in [Task -> [at : {"shell", "insert", "args", "run"}, app : App \cup {"none"}]]
      /\ (mishaps' = 0 => mishaps = 0)
  <2>1. mishaps \in Nat
    BY DEF MInv, PTypeOK
  <2>2. CASE pc' = pc /\ mishaps' = mishaps
    BY <2>1, <2>2 DEF MInv, PTypeOK, MovesOnly, Using, At
  <2>3. CASE Goto(t, "run") /\ mishaps' = mishaps
    BY <1>1, <2>1, <2>3, GotoIs DEF MInv, MovesOnly
  <2>4. CASE Fail(t)
    BY <1>1, <2>1, <2>4, GotoIs DEF MInv, MovesOnly, Fail
  <2> QED
    BY <2>2, <2>3, <2>4
<1>3. /\ Loading' = Loading /\ Loads' = Loads
      /\ Used' = OtherUsed(t) \cup (IF pc'[t].at = "shell" THEN {} ELSE {cr3[t]})
      /\ Using' = (Using \ {t}) \cup (IF pc'[t].at = "shell" THEN {} ELSE {t})
      /\ Pristine' = Pristine /\ Used = OtherUsed(t) \cup {cr3[t]}
  <2>1. /\ Using' = (Using \ {t}) \cup (IF pc'[t].at \in {"args", "run"} THEN {t} ELSE {})
        /\ Loading' = (Loading \ {t}) \cup (IF pc'[t].at = "insert" THEN {t} ELSE {})
        /\ Used' = OtherUsed(t) \cup (IF pc'[t].at \in {"args", "run"} THEN {cr3'[t]} ELSE {})
        /\ Pristine' = Loads' \cup OtherLoading(t)
                              \cup (IF pc'[t].at = "insert" THEN {cr3'[t]} ELSE {})
    BY <1>1, <1>2, PlacesAre
  <2>2. pc'[t].at # "insert" /\ (pc'[t].at = "shell" <=> pc'[t].at \notin {"args", "run"})
    BY <1>2
  <2>3. Loads' = Loads /\ cr3' = cr3
    BY DEF Loads
  <2>4. Pristine = Loads \cup OtherLoading(t) /\ Used = OtherUsed(t) \cup {cr3[t]}
    BY <1>1, PlacesWere
  <2> QED
    BY <1>1, <2>1, <2>2, <2>3, <2>4
<1>4. PTypeOK'
  <2>1. \A u \in Loading : pc'[u].app = pc[u].app
    BY <1>2 DEF MovesOnly, Loading
  <2> QED
    BY <1>2, <1>3, <2>1 DEF MInv, PTypeOK
<1>5. maps' = n.maps /\ data' = n.data
  BY DEF Remember
<1>6. Good(DOMAIN data', maps', Used')
  <2>1. Good(DOMAIN data', maps', Used) /\ Used' \subseteq Used
    BY <1>3, <1>5 DEF GoodMemory
  <2> QED
    BY <2>1, GoodUnused
<1>7. Apart'
  BY <1>3, <1>5 DEF MInv, Apart
<1>8. \A r \in Pristine' : ImageIn(data', maps', r)
  <2>1. \A r \in Pristine : r \in DOMAIN maps \ {cr3[t]}
    BY OwnMap DEF MInv, Apart
  <2> QED
    BY <1>3, <2>1, StillImage DEF MInv
<1>9. Tidy'
  <2> SUFFICES ASSUME mishaps' = 0
               PROVE  /\ \A u \in Task : At(u, "shell")' => cr3'[u] = KernelMap
                      /\ DOMAIN maps' = Used' \cup Pristine'
    BY DEF Tidy
  <2>1. mishaps = 0 /\ pc'[t].at # "shell"
    BY <1>2
  <2>2. \A u \in Task : At(u, "shell")' => At(u, "shell")
    BY <1>2, <2>1 DEF MovesOnly, At
  <2> QED
    BY <1>3, <1>5, <2>1, <2>2 DEF MInv, Tidy
<1> QED
  BY <1>4, <1>6, <1>7, <1>8, <1>9, ImagesAre DEF MInv

\* A step that changes the map of its task only.
LEMMA AsideStep ==
  ASSUME NEW n, NEW root \in DOMAIN maps, Aside(Memory, n, root), Remember(n)
  PROVE  DOMAIN n.maps = DOMAIN maps /\ \A r \in DOMAIN maps \ {root} : StaysPut(r)
<1>1. Memory.maps = maps /\ Memory.data = data
  BY DEF Memory
<1> QED
  BY <1>1 DEF Aside, Remember, StaysPut

LEMMA OnUse ==
  ASSUME MInv, NEW t \in Task, At(t, "args") \/ At(t, "run")
  PROVE  /\ t \in Using /\ cr3[t] \in DOMAIN maps /\ cr3[t] \in Used
         /\ GoodMemory(Memory, Used) /\ Memory.maps = maps /\ Memory.data = data /\ Memory.ok
         /\ DOMAIN Memory.maps = DOMAIN maps
<1>1. t \in Using
  BY DEF Using
<1> QED
  BY <1>1, OwnMap, MemoryIs DEF MInv

\* Args: the pages of arguments and stack are nobody else's.
LEMMA ArgsStep ==
  ASSUME MInv, NEW t \in Task, Args(t)
  PROVE  MInv' /\ OthersStayPut(t)
<1> DEFINE root == cr3[t]
           m == SetupPageMaps(Memory, root, {ArgsPage}, TRUE)
           n == SetupPageMaps([m EXCEPT !.data[m.maps[root][LeafOf(ArgsPage)].frame] = "args"],
                              root, StackPages, TRUE)
<1>1. /\ t \in Using /\ root \in DOMAIN maps
      /\ GoodMemory(Memory, Used) /\ Memory.maps = maps
  BY OnUse DEF Args
<1>2. /\ GoodMemory(m, Used) /\ Aside(Memory, m, root)
      /\ m.ok => GoodMemory(n, Used) /\ Aside(Memory, n, root)
  BY <1>1, ArgsGood DEF Stored
<1>3. \/ m.ok /\ n.ok /\ Remember(n) /\ Goto(t, "run") /\ mishaps' = mishaps
      \/ m.ok /\ ~n.ok /\ Remember(n) /\ Fail(t)
      \/ Remember(m) /\ Fail(t)
  BY DEF Args, LeafOf
<1>4. UNCHANGED <<cr3, app_loads>>
  BY DEF Args
<1> HIDE DEF m, n, root
<1>5. ASSUME NEW o, GoodMemory(o, Used), Aside(Memory, o, root), Remember(o),
             (Goto(t, "run") /\ mishaps' = mishaps) \/ Fail(t)
      PROVE  MInv' /\ OthersStayPut(t)
  <2>1. DOMAIN o.maps = DOMAIN maps /\ \A r \in DOMAIN maps \ {cr3[t]} : StaysPut(r)
    BY <1>1, <1>5, AsideStep DEF root
  <2> QED
    BY <1>1, <1>4, <1>5, <2>1, UseStep DEF OthersStayPut
<1> QED
  BY <1>2, <1>3, <1>5

\* A store, by the application or by a system call for it.
LEMMA StoreStep ==
  ASSUME MInv, NEW t \in Task, At(t, "run"), NEW p \in Page,
         Present(t, p), AnyBuffer \/ Leaf(t, p).writable, StoreInto(t, p)
  PROVE  MInv' /\ OthersStayPut(t)
<1> DEFINE root == cr3[t]
           e == LeafOf(p)
           f == maps[root][e].frame
           n == [Memory EXCEPT !.data[f] = "new"]
<1>1. /\ t \in Using /\ root \in DOMAIN maps /\ root \in Used
      /\ GoodMemory(Memory, Used) /\ Memory.maps = maps /\ Memory.data = data
  BY OnUse
<1>2. e \in DOMAIN maps[root] /\ (AnyBuffer \/ maps[root][e].writable)
  BY DEF Present, Leaf, LeafOf
<1>3. data' = [data EXCEPT ![f] = "new"] /\ UNCHANGED <<maps, cr3, app_loads, pc, mishaps>>
  BY DEF StoreInto, Leaf, LeafOf
<1>4. /\ IsMemory(n) /\ n.maps = maps /\ n.data = [data EXCEPT ![f] = "new"]
  <2> HIDE DEF f
  <2> QED
    BY <1>1 DEF GoodMemory, IsMemory
<1> HIDE DEF n, f
<1>5. GoodMemory(n, Used) /\ Remember(n) /\ DOMAIN n.maps = DOMAIN maps
  BY <1>1, <1>3, <1>4 DEF GoodMemory, Remember
<1>6. ASSUME NEW r \in DOMAIN maps \ {root} PROVE StaysPut(r)
  <2>1. ASSUME ~AnyBuffer, NEW c \in DOMAIN maps[r]
        PROVE  maps[r][c].frame \in DOMAIN data /\ maps[r][c].frame # f
    BY <1>1, <1>2, <2>1 DEF f, GoodMemory, Good, Shared, Accounted
  <2> QED
    BY <1>3, <2>1 DEF StaysPut
<1> QED
  BY <1>1, <1>3, <1>5, <1>6, UseStep DEF OthersStayPut, root

\* HandlePageFault, whether or not it serves the fault.
LEMMA HandlePageFaultGood ==
  ASSUME MInv, NEW t \in Task, At(t, "run"), NEW p \in Page, NEW write \in BOOLEAN,
         Faults(t, p, write)
  PROVE  LET m == HandlePageFault(t, p, write) IN GoodMemory(m, Used) /\ Aside(Memory, m, cr3[t])
<1> DEFINE root == cr3[t]
           m == HandlePageFault(t, p, write)
<1>1. /\ t \in Using /\ root \in DOMAIN maps /\ root \in Used
      /\ GoodMemory(Memory, Used) /\ Memory.maps = maps /\ Memory.data = data
      /\ root \in DOMAIN Memory.maps
  BY OnUse
<1>2. Present(t, p) <=> LeafOf(p) \in DOMAIN Memory.maps[root]
  BY <1>1 DEF Present, LeafOf
<1>3. CASE Present(t, p)
  <2>1. write /\ ~Memory.maps[root][LeafOf(p)].writable
    BY <1>1, <1>3 DEF Faults, Leaf, LeafOf
  <2>2. m = CopyOnePage(Memory, root, p)
    BY <1>3, <2>1 DEF HandlePageFault
  <2> QED
    BY <1>1, <1>2, <1>3, <2>1, <2>2, CopyOnePageGood
<1>4. CASE ~Present(t, p) /\ p \in HeapPages(t)
  <2>1. m = SetupPageMaps(Memory, root, {p}, TRUE)
    BY <1>4 DEF HandlePageFault
  <2>2. TRUE \in BOOLEAN /\ {p} \in SUBSET Page /\ MaySet(Memory, Used, root, {p}, TRUE)
    BY <1>2, <1>4 DEF MaySet
  <2> HIDE DEF m
  <2>3. GoodMemory(m, Used) /\ Grown(Memory, m, root)
    BY <1>1, <2>1, <2>2, SetupGood
  <2> QED
    BY <1>1, <2>3, GrownAside DEF m
<1>5. CASE ~Present(t, p) /\ p \in FilePages(t) \ HeapPages(t)
  <2>1. m = PreparePageCache(Memory, root, p)
    BY <1>5 DEF HandlePageFault
  <2> QED
    BY <1>1, <1>2, <1>5, <2>1, PreparePageCacheGood
<1>6. CASE ~Present(t, p) /\ p \notin HeapPages(t) \cup FilePages(t)
  <2>1. m = [Memory EXCEPT !.ok = FALSE]
    BY <1>6 DEF HandlePageFault
  <2> HIDE DEF m
  <2>2. IsMemory(m) /\ m.data = Memory.data /\ m.maps = Memory.maps
    BY <1>1, <2>1 DEF GoodMemory, IsMemory
  <2> QED
    BY <1>1, <2>2 DEF GoodMemory, Aside, m
<1> QED
  BY <1>3, <1>4, <1>5, <1>6

\* CleanUp gives back the map of its task and all that it alone has.
LEMMA CleanUpStep ==
  ASSUME MInv, NEW t \in Task, At(t, "run"), NEW m, GoodMemory(m, Used),
         Aside(Memory, m, cr3[t]), CleanUp(t, m)
  PROVE  MInv' /\ OthersStayPut(t)
<1> DEFINE root == cr3[t]
           n == FreePageMap(CleanPageMaps(m, root), root)
<1>1. /\ t \in Using /\ root \in DOMAIN maps /\ root \in Used
      /\ Memory.maps = maps /\ Memory.data = data
  BY OnUse
<1>2. /\ Remember(n) /\ cr3' = [cr3 EXCEPT ![t] = KernelMap] /\ Goto(t, "shell")
      /\ UNCHANGED <<app_loads, mishaps>>
  BY DEF CleanUp
<1> HIDE DEF n, root
<1>3. DOMAIN m.maps = DOMAIN maps /\ \A r \in DOMAIN maps \ {root} : m.maps[r] = maps[r]
  BY <1>1 DEF Aside, root
<1>4. /\ GoodMemory(n, Used \ {root}) /\ DOMAIN n.maps = DOMAIN m.maps \ {root}
      /\ \A r \in DOMAIN n.maps : n.maps[r] = m.maps[r]
      /\ \A f \in DOMAIN n.data : n.data[f] = m.data[f]
  BY <1>1, <1>3, CleanGood DEF n
<1>5. /\ pc' \in [Task -> [at : {"shell", "insert", "args", "run"}, app : App \cup {"none"}]]
      /\ pc'[t].at = "shell" /\ MovesOnly(t)
      /\ cr3' \in [Task -> Frame \cup {KernelMap}] /\ cr3'[t] = KernelMap
      /\ \A u \in Task : u # t => pc'[u] = pc[u]
  BY <1>2, GotoIs DEF MInv, MovesOnly, PTypeOK
<1>6. /\ Using' = Using \ {t} /\ Loading' = Loading /\ Used' = OtherUsed(t) /\ Pristine' = Pristine
  <2>1. t \notin Loading
    BY DEF Loading, At
  <2>2. Loads' = Loads
    BY <1>2 DEF Loads
  <2>3. Pristine = Loads \cup OtherLoading(t)
    BY <2>1, PlacesWere
  <2>4. /\ Using' = (Using \ {t}) \cup (IF pc'[t].at \in {"args", "run"} THEN {t} ELSE {})
        /\ Loading' = (Loading \ {t}) \cup (IF pc'[t].at = "insert" THEN {t} ELSE {})
        /\ Used' = OtherUsed(t) \cup (IF pc'[t].at \in {"args", "run"} THEN {cr3'[t]} ELSE {})
        /\ Pristine' = Loads' \cup OtherLoading(t)
                              \cup (IF pc'[t].at = "insert" THEN {cr3'[t]} ELSE {})
    BY <1>5, PlacesAre
  <2> QED
    BY <1>5, <2>1, <2>2, <2>3, <2>4
<1>7. Used \ {root} = Used' /\ root \notin Used' \cup Pristine'
  <2>1. root \notin OtherUsed(t) \cup Pristine
    BY <1>1, OwnMap DEF MInv, root
  <2>2. Used = OtherUsed(t) \cup {root}
    BY <1>1, PlacesWere DEF root
  <2> QED
    BY <1>6, <2>1, <2>2
<1>8. maps' = n.maps /\ data' = n.data
  BY <1>2 DEF Remember
<1>9. PTypeOK'
  BY <1>2, <1>5, <1>6 DEF MInv, PTypeOK, Loading, At
<1>10. Good(DOMAIN data', maps', Used')
  BY <1>4, <1>7, <1>8 DEF GoodMemory
<1>11. Apart'
  <2>1. Used' \cup Pristine' \subseteq DOMAIN maps'
    BY <1>3, <1>4, <1>6, <1>7, <1>8 DEF MInv, Apart
  <2>2. \A u \in Using' : cr3'[u] = cr3[u]
    BY <1>5, <1>6 DEF MovesOnly, Using
  <2> QED
    BY <1>6, <1>7, <2>1, <2>2 DEF MInv, Apart
<1>12. OthersStayPut(t)
  <2> SUFFICES ASSUME NEW r \in DOMAIN maps \ {root} PROVE StaysPut(r)
    BY DEF OthersStayPut, root
  <2>1. r \in DOMAIN maps' /\ maps'[r] = maps[r]
    BY <1>3, <1>4, <1>8
  <2>2. ASSUME NEW e \in DOMAIN maps[r] PROVE data'[maps[r][e].frame] = data[maps[r][e].frame]
    <3>1. maps[r][e].frame \in DOMAIN data'
      BY <1>10, <2>1 DEF Good, Accounted
    <3>2. m.data[maps[r][e].frame] = data[maps[r][e].frame]
      BY <1>1 DEF Aside, root
    <3> QED
      BY <1>4, <1>8, <3>1, <3>2
  <2> QED
    BY <2>1, <2>2 DEF StaysPut
<1>13. \A r \in Pristine' : ImageIn(data', maps', r)
  <2>1. \A r \in Pristine : r \in DOMAIN maps \ {cr3[t]}
    BY <1>6, <1>7 DEF MInv, Apart, root
  <2> QED
    BY <1>6, <1>12, <2>1, StillImage DEF MInv, OthersStayPut
<1>14. Tidy'
  <2> SUFFICES ASSUME mishaps' = 0
               PROVE  /\ \A u \in Task : At(u, "shell")' => cr3'[u] = KernelMap
                      /\ DOMAIN maps' = Used' \cup Pristine'
    BY DEF Tidy
  <2>1. \A u \in Task : At(u, "shell")' => cr3'[u] = KernelMap
    BY <1>2, <1>5 DEF MInv, Tidy, MovesOnly, At
  <2>2. DOMAIN maps = Used \cup Pristine
    BY <1>2 DEF MInv, Tidy
  <2> QED
    BY <1>3, <1>4, <1>6, <1>7, <1>8, <2>1, <2>2
<1> QED
  BY <1>9, <1>10, <1>11, <1>12, <1>13, <1>14, ImagesAre DEF MInv

\* Fault: served, or the end of the application.
LEMMA FaultStep ==
  ASSUME MInv, NEW t \in Task, Fault(t)
  PROVE  MInv' /\ OthersStayPut(t)
<1>1. PICK p \in Page, write \in BOOLEAN :
        LET m == HandlePageFault(t, p, write)
        IN /\ Faults(t, p, write)
           /\ \/ m.ok /\ Remember(m) /\ UNCHANGED <<cr3, app_loads, pc, limits, mishaps>>
              \/ ~m.ok /\ CleanUp(t, m)
  BY DEF Fault
<1> DEFINE m == HandlePageFault(t, p, write)
<1>2. At(t, "run")
  BY DEF Fault
<1>3. GoodMemory(m, Used) /\ Aside(Memory, m, cr3[t])
  BY <1>1, <1>2, HandlePageFaultGood
<1> HIDE DEF m
<1>4. CASE Remember(m) /\ UNCHANGED <<cr3, app_loads, pc, limits, mishaps>>
  <2>1. t \in Using /\ cr3[t] \in DOMAIN maps
    BY <1>2, OnUse
  <2>2. DOMAIN m.maps = DOMAIN maps /\ \A r \in DOMAIN maps \ {cr3[t]} : StaysPut(r)
    BY <1>3, <1>4, <2>1, AsideStep
  <2> QED
    BY <1>3, <1>4, <2>1, <2>2, UseStep DEF OthersStayPut
<1>5. CASE CleanUp(t, m)
  BY <1>2, <1>3, <1>5, CleanUpStep
<1> QED
  BY <1>1, <1>4, <1>5 DEF m

\* Exit: the application has come to its end.
LEMMA ExitStep ==
  ASSUME MInv, NEW t \in Task, Exit(t)
  PROVE  MInv' /\ OthersStayPut(t)
<1>1. At(t, "run") /\ CleanUp(t, Memory)
  BY DEF Exit
<1>2. GoodMemory(Memory, Used) /\ Aside(Memory, Memory, cr3[t])
  BY <1>1, OnUse DEF Aside
<1> QED
  BY <1>1, <1>2, CleanUpStep

\* Nothing that the invariant is about changes.
LEMMA StillStep ==
  ASSUME MInv, UNCHANGED <<data, maps, cr3, app_loads, pc, mishaps>>
  PROVE  MInv'
<1>1. /\ Using' = Using /\ Loading' = Loading /\ Used' = Used /\ Loads' = Loads
      /\ Pristine' = Pristine
  BY DEF Using, Loading, Used, Loads, Pristine, At
<1> QED
  BY <1>1 DEF MInv, PTypeOK, Apart, Images, Tidy, At

Places == [Task -> [at : {"shell", "insert", "args", "run"}, app : App \cup {"none"}]]

\* The loader gives a task a map that nobody has, or fails.
LEMMA LoaderStep ==
  ASSUME MInv, NEW t \in Task, t \notin Using, MovesOnly(t),
         cr3' \in [Task -> Frame \cup {KernelMap}],
         app_loads' \in [App -> Frame \cup {KernelMap}],
         pc' \in Places, pc'[t].at \in {"shell", "insert", "args"},
         pc'[t].at = "insert" => pc'[t].app \in App /\ ImageIn(data', maps', cr3'[t]),
         \A r \in DOMAIN maps : StaysPut(r),
         Good(DOMAIN data', maps', Used'),
         pc'[t].at # "shell" => cr3'[t] \in DOMAIN maps' \ DOMAIN maps,
         Loads' \cup OtherLoading(t) \subseteq Pristine,
         mishaps' \in Nat,
         mishaps' = 0 => /\ mishaps = 0 /\ pc'[t].at # "shell"
                         /\ Pristine = Loads' \cup OtherLoading(t)
                         /\ DOMAIN maps' = DOMAIN maps \cup {cr3'[t]}
  PROVE  MInv'
<1> DEFINE root == cr3'[t]
<1>1. /\ Using' = Using \cup (IF pc'[t].at = "args" THEN {t} ELSE {})
      /\ Loading' = (Loading \ {t}) \cup (IF pc'[t].at = "insert" THEN {t} ELSE {})
      /\ Used' = Used \cup (IF pc'[t].at = "args" THEN {root} ELSE {})
      /\ Pristine' = Loads' \cup OtherLoading(t) \cup (IF pc'[t].at = "insert" THEN {root} ELSE {})
  <2>1. /\ Using' = (Using \ {t}) \cup (IF pc'[t].at \in {"args", "run"} THEN {t} ELSE {})
        /\ Loading' = (Loading \ {t}) \cup (IF pc'[t].at = "insert" THEN {t} ELSE {})
        /\ Used' = OtherUsed(t) \cup (IF pc'[t].at \in {"args", "run"} THEN {cr3'[t]} ELSE {})
        /\ Pristine' = Loads' \cup OtherLoading(t)
                              \cup (IF pc'[t].at = "insert" THEN {cr3'[t]} ELSE {})
    BY PlacesAre
  <2>2. pc'[t].at = "args" <=> pc'[t].at \in {"args", "run"}
    OBVIOUS
  <2>3. Used = OtherUsed(t)
    BY PlacesWere
  <2> QED
    BY <2>1, <2>2, <2>3
<1>2. PTypeOK'
  <2>1. \A u \in Loading \ {t} : u \in Task /\ pc'[u] = pc[u]
    BY DEF MovesOnly, Loading
  <2> QED
    BY <1>1, <2>1 DEF MInv, PTypeOK, Places
<1>3. Used \cup Pristine \subseteq DOMAIN maps /\ DOMAIN maps \subseteq DOMAIN maps'
  BY DEF MInv, Apart, StaysPut
<1>4. Apart'
  <2>1. Used' \cup Pristine' \subseteq DOMAIN maps' /\ Used' \cap Pristine' = {}
    BY <1>1, <1>3 DEF MInv, Apart
  <2>2. \A u \in Using : u # t /\ u \in Task /\ cr3'[u] = cr3[u] /\ cr3[u] \in DOMAIN maps
    BY <1>3 DEF MovesOnly, Using, Used
  <2>3. ASSUME NEW u \in Using', NEW v \in Using', u # v PROVE cr3'[u] # cr3'[v]
    BY <1>1, <2>2, <2>3 DEF MInv, Apart
  <2> QED
    BY <2>1, <2>3 DEF Apart
<1>5. \A r \in Pristine' : ImageIn(data', maps', r)
  <2>1. \A r \in Pristine : ImageIn(data', maps', r)
    BY <1>3, StillImage DEF MInv
  <2> QED
    BY <1>1, <2>1
<1>6. Tidy'
  <2> SUFFICES ASSUME mishaps' = 0
               PROVE  /\ \A u \in Task : At(u, "shell")' => cr3'[u] = KernelMap
                      /\ DOMAIN maps' = Used' \cup Pristine'
    BY DEF Tidy
  <2>1. \A u \in Task : At(u, "shell")' => cr3'[u] = KernelMap
    BY DEF MInv, Tidy, MovesOnly, At
  <2>2. DOMAIN maps = Used \cup Pristine
    BY DEF MInv, Tidy
  <2>3. pc'[t].at = "args" \/ pc'[t].at = "insert"
    OBVIOUS
  <2> QED
    BY <1>1, <2>1, <2>2, <2>3
<1> QED
  BY <1>2, <1>4, <1>5, <1>6, ImagesAre DEF MInv

\* What SetupPML4 and the functions after it leave as it was.
LEMMA LoaderStaysPut ==
  ASSUME MInv, NEW m, NEW n, NEW root, root \notin DOMAIN maps,
         DOMAIN m.maps = DOMAIN maps \cup {root},
         \A r \in DOMAIN maps : m.maps[r] = maps[r],
         \A f \in DOMAIN data : m.data[f] = data[f],
         Aside(m, n, root), Remember(n)
  PROVE  /\ \A r \in DOMAIN maps : StaysPut(r)
         /\ DOMAIN maps' = DOMAIN maps \cup {root}
<1>1. DOMAIN maps' = DOMAIN maps \cup {root} /\ data' = n.data
      /\ \A r \in DOMAIN maps : maps'[r] = maps[r]
  BY DEF Aside, Remember
<1>2. ASSUME NEW r \in DOMAIN maps, NEW e \in DOMAIN maps[r]
      PROVE  data'[maps[r][e].frame] = data[maps[r][e].frame]
  <2>1. maps[r][e].frame \in DOMAIN data
    BY DEF MInv, Good, Accounted
  <2>2. n.data[m.maps[r][e].frame] = m.data[m.maps[r][e].frame]
    BY DEF Aside
  <2> QED
    BY <1>1, <2>1, <2>2
<1> QED
  BY <1>1, <1>2 DEF StaysPut

\* LoadApp up to the insertion.
LEMMA LoadAppStep ==
  ASSUME MInv, NEW t \in Task, NEW a \in App, LoadApp(t, a)
  PROVE  MInv' /\ \A r \in DOMAIN maps : StaysPut(r)
<1> DEFINE m == SetupPML4(Memory)
           root == m.new
           src == app_loads[a]
           loaded == src # KernelMap
           n == IF ~m.ok THEN m ELSE IF loaded THEN CopyPageMaps(m, root, src) ELSE LoadELF(m, root)
<1>1. /\ GoodMemory(Memory, Used) /\ Memory.data = data /\ Memory.maps = maps /\ Memory.ok
  BY MemoryIs DEF MInv
<1>2. t \notin Using /\ t \notin Loading
  BY DEF LoadApp, Using, Loading, At
<1>3. /\ Remember(n) /\ cr3' = IF m.ok THEN [cr3 EXCEPT ![t] = root] ELSE cr3
      /\ IF n.ok
         THEN pc' = [pc EXCEPT ![t] = [at |-> IF loaded THEN "args" ELSE "insert", app |-> a]]
              /\ mishaps' = mishaps
         ELSE Fail(t)
      /\ UNCHANGED app_loads
  BY DEF LoadApp
<1>4. /\ IsMemory(m)
      /\ m.ok => /\ root \in Frame \ DOMAIN maps
                 /\ DOMAIN m.maps = DOMAIN maps \cup {root}
                 /\ DOMAIN m.maps[root] = {}
                 /\ \A r \in DOMAIN maps : m.maps[r] = maps[r]
                 /\ \A f \in DOMAIN data : m.data[f] = data[f]
                 /\ GoodMemory(m, Used) /\ GoodMemory(m, Used \cup {root})
      /\ ~m.ok => m.data = data /\ m.maps = maps
  BY <1>1, RootGood
<1>5. Loads' = Loads /\ Pristine = Loads \cup OtherLoading(t) /\ Used = OtherUsed(t)
  BY <1>2, <1>3, PlacesWere DEF Loads
<1>6. /\ pc' \in Places /\ MovesOnly(t) /\ cr3' \in [Task -> Frame \cup {KernelMap}]
      /\ m.ok => cr3'[t] = root
      /\ pc'[t].at = IF n.ok THEN IF loaded THEN "args" ELSE "insert" ELSE "shell"
      /\ n.ok => pc'[t].app = a
      /\ mishaps' = IF n.ok THEN mishaps ELSE mishaps + 1
  <2> HIDE DEF n, m, loaded
  <2>1. \A u \in Task : u # t => cr3'[u] = cr3[u]
    BY <1>3 DEF MInv, PTypeOK
  <2>2. cr3' \in [Task -> Frame \cup {KernelMap}] /\ (m.ok => cr3'[t] = root)
    BY <1>3, <1>4 DEF MInv, PTypeOK
  <2>3. CASE n.ok
    BY <1>3, <2>1, <2>2, <2>3 DEF MInv, PTypeOK, MovesOnly, Places
  <2>4. CASE ~n.ok
    BY <1>3, <2>1, <2>2, <2>4, GotoIs DEF MInv, MovesOnly, Places, Fail
  <2> QED
    BY <2>3, <2>4
<1>7. mishaps' \in Nat /\ (mishaps' = 0 => mishaps = 0 /\ n.ok)
  BY <1>6 DEF MInv, PTypeOK
<1>8. app_loads' \in [App -> Frame \cup {KernelMap}] /\ (n.ok => m.ok)
  BY <1>3 DEF MInv, PTypeOK
<1>9. Used' = Used \cup (IF n.ok /\ loaded THEN {root} ELSE {})
  <2>1. Used' = OtherUsed(t) \cup (IF pc'[t].at \in {"args", "run"} THEN {cr3'[t]} ELSE {})
    BY <1>6, PlacesAre
  <2>2. pc'[t].at \in {"args", "run"} <=> n.ok /\ loaded
    BY <1>6
  <2> QED
    BY <1>5, <1>6, <1>8, <2>1, <2>2
<1>10. CASE ~m.ok
  <2>1. data' = data /\ maps' = maps /\ ~n.ok
    BY <1>3, <1>4, <1>10 DEF Remember
  <2>2. \A r \in DOMAIN maps : StaysPut(r)
    BY <2>1 DEF StaysPut
  <2>3. Good(DOMAIN data', maps', Used')
    BY <1>9, <2>1 DEF MInv
  <2> HIDE DEF n, m
  <2> QED
    BY <1>2, <1>5, <1>6, <1>7, <1>8, <2>1, <2>2, <2>3, LoaderStep
<1>11. CASE m.ok /\ loaded
  <2>1. n = CopyPageMaps(m, root, src)
    BY <1>11
  <2> HIDE DEF n, m
  <2>2. src \in Loads
    BY <1>11 DEF Loads
  <2>3. src \in DOMAIN maps \ Used /\ Pure(maps, src)
    BY <1>5, <2>2 DEF MInv, Apart, Images
  <2>4. src \in DOMAIN m.maps \ (Used \cup {root}) /\ src # root /\ Pure(m.maps, src)
        /\ root \in DOMAIN m.maps
    BY <1>4, <1>11, <2>3 DEF Pure
  <2>5. GoodMemory(n, Used \cup {root}) /\ Grown(m, n, root)
    BY <1>4, <1>11, <2>1, <2>4, CopyGood
  <2>6. Aside(m, n, root)
    BY <1>4, <1>11, <2>5, GrownAside
  <2>7. (\A r \in DOMAIN maps : StaysPut(r)) /\ DOMAIN maps' = DOMAIN maps \cup {root}
    <3>1. /\ root \notin DOMAIN maps /\ DOMAIN m.maps = DOMAIN maps \cup {root}
          /\ \A r \in DOMAIN maps : m.maps[r] = maps[r]
          /\ \A f \in DOMAIN data : m.data[f] = data[f]
      BY <1>4, <1>11
    <3>2. Remember(n) /\ Aside(m, n, root)
      BY <1>3, <2>6
    <3> HIDE DEF root
    <3> QED
      BY <3>1, <3>2, LoaderStaysPut
  <2>8. Good(DOMAIN data', maps', Used')
    <3>1. Good(DOMAIN data', maps', Used \cup {root})
      BY <1>3, <2>5 DEF Remember, GoodMemory
    <3>2. Used' \subseteq Used \cup {root}
      BY <1>9
    <3> QED
      BY <3>1, <3>2, GoodUnused
  <2>9. cr3'[t] = root /\ root \in DOMAIN maps' \ DOMAIN maps
    BY <1>4, <1>6, <1>11, <2>7
  <2>10. pc'[t].at \in {"args", "shell"}
    BY <1>6, <1>11
  <2>11. mishaps' = 0 => mishaps = 0 /\ pc'[t].at # "shell"
    BY <1>6, <1>7, <1>11
  <2> QED
    BY <1>2, <1>5, <1>6, <1>7, <1>8, <2>7, <2>8, <2>9, <2>10, <2>11, LoaderStep
<1>12. CASE m.ok /\ ~loaded
  <2>1. n = LoadELF(m, root)
    BY <1>12
  <2> HIDE DEF n, m
  <2>2. root \in DOMAIN m.maps \ Used
    BY <1>4, <1>12 DEF MInv, Apart
  <2>3. /\ GoodMemory(n, Used) /\ Aside(m, n, root)
        /\ n.ok => /\ Pure(n.maps, root) /\ HoldsImage(n.maps, root)
                   /\ ShowsImage(n.data, n.maps, root)
    BY <1>4, <1>12, <2>1, <2>2, LoadELFGood
  <2>4. (\A r \in DOMAIN maps : StaysPut(r)) /\ DOMAIN maps' = DOMAIN maps \cup {root}
    <3>1. /\ root \notin DOMAIN maps /\ DOMAIN m.maps = DOMAIN maps \cup {root}
          /\ \A r \in DOMAIN maps : m.maps[r] = maps[r]
          /\ \A f \in DOMAIN data : m.data[f] = data[f]
      BY <1>4, <1>12
    <3>2. Remember(n) /\ Aside(m, n, root)
      BY <1>3, <2>3
    <3> HIDE DEF root
    <3> QED
      BY <3>1, <3>2, LoaderStaysPut
  <2>5. Good(DOMAIN data', maps', Used')
    BY <1>3, <1>9, <1>12, <2>3 DEF Remember, GoodMemory
  <2>6. cr3'[t] = root /\ root \in DOMAIN maps' \ DOMAIN maps
    BY <1>4, <1>6, <1>12, <2>4
  <2>7. pc'[t].at \in {"insert", "shell"} /\ (pc'[t].at = "insert" => n.ok)
    BY <1>6, <1>12
  <2>8. pc'[t].at = "insert" => pc'[t].app \in App /\ ImageIn(data', maps', cr3'[t])
    BY <1>3, <1>6, <2>3, <2>6, <2>7 DEF Remember, ImageIn
  <2>9. mishaps' = 0 => mishaps = 0 /\ pc'[t].at # "shell"
    BY <1>6, <1>7, <1>12
  <2> QED
    BY <1>2, <1>5, <1>6, <1>7, <1>8, <2>4, <2>5, <2>6, <2>7, <2>8, <2>9, LoaderStep
<1> QED
  BY <1>10, <1>11, <1>12

\* LoadApp of a file that is refused: the new map is left behind.
LEMMA LoadInvalidStep ==
  ASSUME MInv, NEW t \in Task, LoadInvalid(t)
  PROVE  MInv' /\ \A r \in DOMAIN maps : StaysPut(r)
<1> DEFINE m == SetupPML4(Memory)
           root == m.new
<1>1. /\ GoodMemory(Memory, Used) /\ Memory.data = data /\ Memory.maps = maps /\ Memory.ok
  BY MemoryIs DEF MInv
<1>2. t \notin Using /\ t \notin Loading
  BY DEF LoadInvalid, Using, Loading, At
<1>3. m.ok /\ Remember(m) /\ cr3' = [cr3 EXCEPT ![t] = root] /\ Fail(t) /\ UNCHANGED app_loads
  BY DEF LoadInvalid
<1>4. /\ IsMemory(m)
      /\ root \in Frame \ DOMAIN maps
      /\ DOMAIN m.maps = DOMAIN maps \cup {root}
      /\ \A r \in DOMAIN maps : m.maps[r] = maps[r]
      /\ \A f \in DOMAIN data : m.data[f] = data[f]
      /\ GoodMemory(m, Used)
  BY <1>1, <1>3, RootGood
<1> HIDE DEF m
<1>5. Loads' = Loads /\ Pristine = Loads \cup OtherLoading(t) /\ Used = OtherUsed(t)
  BY <1>2, <1>3, PlacesWere DEF Loads
<1>6. /\ pc' \in Places /\ MovesOnly(t) /\ cr3' \in [Task -> Frame \cup {KernelMap}]
      /\ pc'[t].at = "shell" /\ mishaps' = mishaps + 1
  <2>1. \A u \in Task : u # t => cr3'[u] = cr3[u]
    BY <1>3 DEF MInv, PTypeOK
  <2>2. cr3' \in [Task -> Frame \cup {KernelMap}]
    BY <1>3, <1>4 DEF MInv, PTypeOK
  <2> QED
    BY <1>3, <2>1, <2>2, GotoIs DEF MInv, MovesOnly, Places, Fail
<1>7. mishaps' \in Nat /\ mishaps' # 0
  BY <1>6 DEF MInv, PTypeOK
<1>8. app_loads' \in [App -> Frame \cup {KernelMap}]
  BY <1>3 DEF MInv, PTypeOK
<1>9. Used' = Used
  <2>1. Used' = OtherUsed(t) \cup (IF pc'[t].at \in {"args", "run"} THEN {cr3'[t]} ELSE {})
    BY <1>6, PlacesAre
  <2> QED
    BY <1>5, <1>6, <2>1
<1>10. \A r \in DOMAIN maps : StaysPut(r)
  <2>1. Aside(m, m, root)
    BY DEF Aside
  <2> HIDE DEF root
  <2> QED
    BY <1>3, <1>4, <2>1, LoaderStaysPut
<1>11. Good(DOMAIN data', maps', Used')
  BY <1>3, <1>4, <1>9 DEF Remember, GoodMemory
<1> QED
  BY <1>2, <1>5, <1>6, <1>7, <1>8, <1>10, <1>11, LoaderStep

\* The rest of LoadApp: the image that the task has loaded is kept and copied.
LEMMA InsertStep ==
  ASSUME MInv, NEW t \in Task, Insert(t)
  PROVE  MInv' /\ \A r \in DOMAIN maps : StaysPut(r)
<1> DEFINE a == pc[t].app
           again == app_loads[a] # KernelMap
           m == SetupPML4(Memory)
           root == m.new
           src == cr3[t]
           n == IF m.ok THEN CopyPageMaps(m, root, src) ELSE m
<1>1. /\ GoodMemory(Memory, Used) /\ Memory.data = data /\ Memory.maps = maps /\ Memory.ok
  BY MemoryIs DEF MInv
<1>2. t \notin Using /\ t \in Loading /\ a \in App
  BY DEF Insert, Using, Loading, At, MInv, PTypeOK
<1>3. /\ Remember(n) /\ cr3' = IF m.ok THEN [cr3 EXCEPT ![t] = root] ELSE cr3
      /\ IF n.ok THEN Goto(t, "args") /\ mishaps' = mishaps + (IF again THEN 1 ELSE 0) ELSE Fail(t)
      /\ app_loads' = IF again THEN app_loads ELSE [app_loads EXCEPT ![a] = src]
  BY DEF Insert
<1>4. /\ IsMemory(m)
      /\ m.ok => /\ root \in Frame \ DOMAIN maps
                 /\ DOMAIN m.maps = DOMAIN maps \cup {root}
                 /\ DOMAIN m.maps[root] = {}
                 /\ \A r \in DOMAIN maps : m.maps[r] = maps[r]
                 /\ \A f \in DOMAIN data : m.data[f] = data[f]
                 /\ GoodMemory(m, Used) /\ GoodMemory(m, Used \cup {root})
      /\ ~m.ok => m.data = data /\ m.maps = maps
  BY <1>1, RootGood
<1>5. Pristine = Loads \cup OtherLoading(t) \cup {src} /\ Used = OtherUsed(t)
  BY <1>2, PlacesWere
<1>6. src \in DOMAIN maps \ Used /\ Pure(maps, src) /\ src # KernelMap /\ src \in Frame
  <2>1. src \in DOMAIN maps \ Used /\ Pure(maps, src)
    BY <1>5 DEF MInv, Apart, Images
  <2>2. src \in Frame
    BY <2>1 DEF MInv, Good, Accounted
  <2> QED
    BY <2>1, <2>2, LayoutAssumption DEF Frame, KernelMap
<1>7. /\ app_loads' \in [App -> Frame \cup {KernelMap}]
      /\ Loads' = Loads \cup (IF again THEN {} ELSE {src})
  <2>1. CASE again
    BY <1>3, <2>1 DEF MInv, PTypeOK, Loads
  <2>2. CASE ~again
    <3> HIDE DEF again, src, a
    <3>1. app_loads' = [app_loads EXCEPT ![a] = src] /\ app_loads \in [App -> Frame \cup {KernelMap}]
      BY <1>3, <2>2 DEF MInv, PTypeOK
    <3>2. app_loads[a] = KernelMap
      BY <2>2 DEF again
    <3> QED
      BY <1>2, <1>6, <2>2, <3>1, <3>2 DEF Loads
  <2> QED
    BY <2>1, <2>2
<1>8. /\ pc' \in Places /\ MovesOnly(t) /\ cr3' \in [Task -> Frame \cup {KernelMap}]
      /\ m.ok => cr3'[t] = root
      /\ pc'[t].at = IF n.ok THEN "args" ELSE "shell"
      /\ mishaps' \in Nat /\ (mishaps' = 0 => mishaps = 0 /\ n.ok /\ ~again)
  <2> HIDE DEF n, m, again
  <2>1. cr3' \in [Task -> Frame \cup {KernelMap}] /\ (m.ok => cr3'[t] = root)
        /\ \A u \in Task : u # t => cr3'[u] = cr3[u]
    BY <1>3, <1>4 DEF MInv, PTypeOK
  <2>2. pc' \in Places /\ MovesOnly(t) /\ pc'[t].at = IF n.ok THEN "args" ELSE "shell"
    BY <1>3, <2>1, GotoIs DEF MInv, MovesOnly, Places, Fail
  <2>3. mishaps' \in Nat /\ (mishaps' = 0 => mishaps = 0 /\ n.ok /\ ~again)
    BY <1>3 DEF MInv, PTypeOK, Fail
  <2> QED
    BY <2>1, <2>2, <2>3
<1>9. n.ok => m.ok
  OBVIOUS
<1>10. Used' = Used \cup (IF n.ok THEN {root} ELSE {})
  <2>1. Used' = OtherUsed(t) \cup (IF pc'[t].at \in {"args", "run"} THEN {cr3'[t]} ELSE {})
    BY <1>8, PlacesAre
  <2>2. pc'[t].at \in {"args", "run"} <=> n.ok
    BY <1>8
  <2> QED
    BY <1>5, <1>8, <1>9, <2>1, <2>2
<1>11. /\ Loads' \cup OtherLoading(t) \subseteq Pristine
       /\ ~again => Pristine = Loads' \cup OtherLoading(t)
  BY <1>5, <1>7
<1>12. CASE ~m.ok
  <2>1. data' = data /\ maps' = maps /\ ~n.ok
    BY <1>3, <1>4, <1>12 DEF Remember
  <2>2. \A r \in DOMAIN maps : StaysPut(r)
    BY <2>1 DEF StaysPut
  <2>3. Good(DOMAIN data', maps', Used')
    BY <1>10, <2>1 DEF MInv
  <2> HIDE DEF n, m, again
  <2> QED
    BY <1>2, <1>7, <1>8, <1>11, <2>1, <2>2, <2>3, LoaderStep
<1>13. CASE m.ok
  <2>1. n = CopyPageMaps(m, root, src)
    BY <1>13
  <2> HIDE DEF n, m, again
  <2>2. src \in DOMAIN m.maps \ (Used \cup {root}) /\ src # root /\ Pure(m.maps, src)
        /\ root \in DOMAIN m.maps
    BY <1>4, <1>6, <1>13 DEF Pure
  <2>3. GoodMemory(n, Used \cup {root}) /\ Grown(m, n, root)
    BY <1>4, <1>13, <2>1, <2>2, CopyGood
  <2>4. Aside(m, n, root)
    BY <1>4, <1>13, <2>3, GrownAside
  <2>5. (\A r \in DOMAIN maps : StaysPut(r)) /\ DOMAIN maps' = DOMAIN maps \cup {root}
    <3>1. /\ root \notin DOMAIN maps /\ DOMAIN m.maps = DOMAIN maps \cup {root}
          /\ \A r \in DOMAIN maps : m.maps[r] = maps[r]
          /\ \A f \in DOMAIN data : m.data[f] = data[f]
      BY <1>4, <1>13
    <3>2. Remember(n) /\ Aside(m, n, root)
      BY <1>3, <2>4
    <3> HIDE DEF root
    <3> QED
      BY <3>1, <3>2, LoaderStaysPut
  <2>6. Good(DOMAIN data', maps', Used')
    <3>1. Good(DOMAIN data', maps', Used \cup {root})
      BY <1>3, <2>3 DEF Remember, GoodMemory
    <3>2. Used' \subseteq Used \cup {root}
      BY <1>10
    <3> QED
      BY <3>1, <3>2, GoodUnused
  <2>7. cr3'[t] = root /\ root \in DOMAIN maps' \ DOMAIN maps
    BY <1>4, <1>8, <1>13, <2>5
  <2>8. pc'[t].at \in {"args", "shell"} /\ (mishaps' = 0 => mishaps = 0 /\ pc'[t].at # "shell")
    BY <1>8
  <2> QED
    BY <1>2, <1>7, <1>8, <1>11, <2>5, <2>6, <2>7, <2>8, LoaderStep
<1> QED
  BY <1>12, <1>13

\* Every step.
LEMMA NextStep ==
  ASSUME MInv, [Next]_vars
  PROVE  MInv'
<1>1. CASE UNCHANGED vars
  BY <1>1, StillStep DEF vars
<1>2. ASSUME NEW t \in Task, NEW a \in App, LoadApp(t, a) PROVE MInv'
  BY <1>2, LoadAppStep
<1>3. ASSUME NEW t \in Task, UserStore(t) \/ KernelStore(t) PROVE MInv'
  <2>1. At(t, "run")
    BY <1>3 DEF UserStore, KernelStore
  <2>2. PICK p \in Page : Present(t, p) /\ (AnyBuffer \/ Leaf(t, p).writable) /\ StoreInto(t, p)
    BY <1>3 DEF UserStore, KernelStore
  <2> QED
    BY <2>1, <2>2, StoreStep
<1>4. ASSUME NEW t \in Task, DemandPages(t) \/ MapFile(t) PROVE MInv'
  BY <1>4, StillStep DEF DemandPages, MapFile
<1>5. ASSUME NEW t \in Task, LoadInvalid(t) \/ Insert(t) \/ Args(t) \/ Fault(t) \/ Exit(t)
      PROVE  MInv'
  BY <1>5, LoadInvalidStep, InsertStep, ArgsStep, FaultStep, ExitStep
<1> QED
  BY <1>1, <1>2, <1>3, <1>4, <1>5 DEF Next

-----------------------------------------------------------------------------
(* The theorems *)

THEOREM MInvCorrect == Spec => []MInv
  BY InitMInv, NextStep, PTL DEF Spec

LEMMA ReferencesAre ==
  /\ \A r \in DOMAIN maps : \A e \in DOMAIN maps[r] :
        <<r, e>> \in References /\ FrameAt(<<r, e>>) = maps[r][e].frame
  /\ \A ref \in References :
        /\ ref[1] \in DOMAIN maps /\ ref[2] \in DOMAIN maps[ref[1]] /\ ref = <<ref[1], ref[2]>>
        /\ FrameAt(ref) = maps[ref[1]][ref[2]].frame
  BY DEF References, FrameAt

\* The frames that memory_manager has given out for page maps are the roots
\* and what the entries lead to: SetupPageMap, CopyPageMaps and CopyOnePage
\* (paging.cpp) enter each frame they take, and CleanPageMaps and
\* FreePageMap free no frame that another map leads to.
THEOREM FramesAccountedCorrect == Spec => []FramesAccounted
<1>1. ASSUME MInv PROVE FramesAccounted
  <2>1. Accounted(DOMAIN data, maps)
    BY <1>1 DEF MInv, Good
  <2>2. ASSUME NEW f \in DOMAIN data \ DOMAIN maps PROVE f \in { FrameAt(ref) : ref \in References }
    <3>1. PICK r \in DOMAIN maps : \E e \in DOMAIN maps[r] : maps[r][e].frame = f
      BY <2>1, <2>2 DEF Accounted
    <3>2. PICK e \in DOMAIN maps[r] : maps[r][e].frame = f
      BY <3>1
    <3>3. <<r, e>> \in References /\ FrameAt(<<r, e>>) = f
      BY <3>2, ReferencesAre
    <3> QED
      BY <3>3
  <2>3. ASSUME NEW ref \in References PROVE FrameAt(ref) \in DOMAIN data
    BY <2>1, ReferencesAre DEF Accounted
  <2>4. DOMAIN maps \subseteq DOMAIN data
    BY <2>1 DEF Accounted
  <2> QED
    BY <2>2, <2>3, <2>4 DEF FramesAccounted
<1> QED
  BY <1>1, MInvCorrect, PTL

\* Two entries lead to the same frame only when both are of pages of an
\* image and read-only: what CopyPageMaps (paging.cpp) shares, no task can
\* store into before HandlePageFault has made a copy for it.
THEOREM SharedReadOnlyCorrect == Spec => []SharedReadOnly
<1>1. ASSUME MInv PROVE SharedReadOnly
  <2> SUFFICES ASSUME NEW q \in References, NEW r \in References, q # r, FrameAt(q) = FrameAt(r)
               PROVE  \A ref \in {q, r} : IsLeaf(ref[2]) /\ ~maps[ref[1]][ref[2]].writable
    BY DEF SharedReadOnly
  <2>1. Shared(maps) /\ OnlyImages(maps)
    BY <1>1 DEF MInv, Good
  <2>2. ~maps[q[1]][q[2]].writable /\ ~maps[r[1]][r[2]].writable
    <3>1. q[1] # r[1] \/ q[2] # r[2]
      BY ReferencesAre
    <3> QED
      BY <2>1, <3>1, ReferencesAre DEF Shared
  <2>3. \A e \in ImageEntries : IsLeaf(e)
    BY EntriesApart, LayoutAssumption DEF ImageEntries
  <2>4. q[2] \in ImageEntries /\ r[2] \in ImageEntries
    BY <2>1, <2>2, ReferencesAre DEF OnlyImages
  <2> QED
    BY <2>2, <2>3, <2>4
<1> QED
  BY <1>1, MInvCorrect, PTL

\* While no load has failed and no two tasks have loaded the same application
\* at once, every page map is a task's or in app_loads: ExecuteFile
\* (terminal.cpp) gives back what it set up for a run.
THEOREM LostByMishapCorrect == Spec => []LostByMishap
<1>1. ASSUME MInv PROVE LostByMishap
  <2> SUFFICES ASSUME mishaps = 0
               PROVE  DOMAIN maps = ({ cr3[t] : t \in Task } \cup { app_loads[a] : a \in App })
                                    \ {KernelMap}
    BY DEF LostByMishap
  <2>1. DOMAIN maps = Used \cup Pristine /\ \A t \in Task : At(t, "shell") => cr3[t] = KernelMap
    BY <1>1 DEF MInv, Tidy
  <2>2. KernelMap \notin DOMAIN maps
    BY <1>1, LayoutAssumption DEF MInv, Good, Accounted, Frame, KernelMap
  <2>3. \A t \in Task : t \in Using \/ t \in Loading \/ At(t, "shell")
    BY <1>1 DEF MInv, PTypeOK, Using, Loading, At
  <2>4. Used \cup Pristine = ({ cr3[t] : t \in Task } \cup { app_loads[a] : a \in App }) \ {KernelMap}
    BY <2>1, <2>2, <2>3 DEF Used, Pristine, Loads, Using, Loading
  <2> QED
    BY <2>1, <2>4
<1> QED
  BY <1>1, MInvCorrect, PTL

\* The image in app_loads (terminal.cpp) stays as LoadELF left it, for every
\* later run to be copied from, provided that system calls store only where
\* the application itself may.
THEOREM ImagesIntactCorrect ==
  ASSUME ~AnyBuffer
  PROVE  Spec => []ImagesIntact
<1>1. ASSUME MInv PROVE ImagesIntact
  <2> SUFFICES ASSUME NEW a \in App, app_loads[a] # KernelMap
               PROVE  LET root == app_loads[a] IN
                      /\ root \in DOMAIN maps
                      /\ \A p \in ImagePages :
                           /\ Entry(Levels, p) \in DOMAIN maps[root]
                           /\ LET e == maps[root][Entry(Levels, p)]
                              IN e.frame \in DOMAIN data /\ data[e.frame] = "image" /\ ~e.writable
    BY DEF ImagesIntact
  <2> DEFINE root == app_loads[a]
  <2>1. root \in Pristine
    BY DEF Pristine, Loads
  <2>2. root \in DOMAIN maps /\ HoldsImage(maps, root) /\ ShowsImage(data, maps, root)
    BY <1>1, <2>1 DEF MInv, Apart, Images
  <2>3. \A e \in DOMAIN maps[root] : maps[root][e].frame \in DOMAIN data
    BY <1>1, <2>2 DEF MInv, Good, Accounted
  <2> QED
    BY <2>2, <2>3 DEF HoldsImage, ShowsImage, LeafOf
<1> QED
  BY <1>1, MInvCorrect, PTL

-----------------------------------------------------------------------------
(* What applications see *)

\* What page p shows in the map r, in terms of the frames and the maps.
Shows(d, mp, r, p) ==
  IF LeafOf(p) \in DOMAIN mp[r] THEN Holds(d[mp[r][LeafOf(p)].frame]) ELSE Absent

\* A map that is ready for arguments and stack shows the image.
OnlyImageIn(d, mp, r) ==
  \A p \in Page : Shows(d, mp, r, p) = IF p \in ImagePages THEN Holds("image") ELSE Absent

\* A map that is run with has the image's pages at least.
RunsIn(d, mp, r) ==
  \A p \in Page : /\ Shows(d, mp, r, p) # Holds("none")
                  /\ p \in ImagePages => Shows(d, mp, r, p) # Absent

SightOf(t) ==
  /\ At(t, "args") => OnlyImageIn(data, maps, cr3[t])
  /\ At(t, "run") => RunsIn(data, maps, cr3[t])

Sights == \A t \in Task : SightOf(t)

\* Only applications that run have heap and mapped files.
Limits ==
  /\ heap \in [Task -> 0..MaxHeap] /\ fmaps \in [Task -> 0..MaxMaps]
  /\ \A t \in Task : ~At(t, "run") => heap[t] = 0 /\ fmaps[t] = 0

RInv == MInv /\ Limits /\ Sights

LEMMA InitRInv ==
  ASSUME MaxHeap \in Nat, MaxMaps \in Nat
  PROVE  Init => RInv
<1> SUFFICES ASSUME Init PROVE RInv
  OBVIOUS
<1>1. Limits /\ Sights
  BY DEF Init, Limits, Sights, SightOf, At
<1> QED
  BY <1>1, InitMInv DEF RInv

\* A map that is kept to be copied, or will be, shows the image.
LEMMA PristineShows ==
  ASSUME MInv, ~AnyBuffer, NEW r \in Pristine
  PROVE  OnlyImageIn(data, maps, r)
<1>1. r \in DOMAIN maps /\ Pure(maps, r) /\ HoldsImage(maps, r) /\ ShowsImage(data, maps, r)
  BY DEF MInv, Apart, Images
<1>2. ASSUME NEW p \in Page
      PROVE  Shows(data, maps, r, p) = IF p \in ImagePages THEN Holds("image") ELSE Absent
  <2>1. CASE p \in ImagePages
    BY <1>1, <2>1 DEF HoldsImage, ShowsImage, Shows
  <2>2. CASE p \notin ImagePages
    <3>1. IsLeaf(LeafOf(p)) /\ \A q \in ImagePages : q \in Page /\ LeafOf(p) # LeafOf(q)
      BY <2>2, EntriesApart, LayoutAssumption
    <3>2. LeafOf(p) \notin ImageEntries
      BY <3>1 DEF ImageEntries
    <3>3. LeafOf(p) \notin DOMAIN maps[r]
      BY <1>1, <3>1, <3>2 DEF Pure, MInv, Good, OnlyImages
    <3> QED
      BY <2>2, <3>3 DEF Shows
  <2> QED
    BY <2>1, <2>2
<1> QED
  BY <1>2 DEF OnlyImageIn

\* A task is given a copy of what was loaded.
LEMMA CopyShows ==
  ASSUME MInv, ~AnyBuffer, NEW src \in Pristine, NEW m, m = SetupPML4(Memory), NEW n,
         n = IF m.ok THEN CopyPageMaps(m, m.new, src) ELSE m
  PROVE  n.ok => OnlyImageIn(n.data, n.maps, m.new)
<1> DEFINE root == m.new
<1>1. /\ GoodMemory(Memory, Used) /\ Memory.data = data /\ Memory.maps = maps
  BY MemoryIs DEF MInv
<1>2. m.ok => /\ root \in Frame \ DOMAIN maps
              /\ DOMAIN m.maps = DOMAIN maps \cup {root}
              /\ DOMAIN m.maps[root] = {}
              /\ \A r \in DOMAIN maps : m.maps[r] = maps[r]
              /\ \A f \in DOMAIN data : m.data[f] = data[f]
              /\ GoodMemory(m, Used)
  BY <1>1, RootGood
<1>3. src \in DOMAIN maps \ Used /\ Pure(maps, src)
  BY DEF MInv, Apart, Images
<1>4. ASSUME m.ok, n.ok, NEW p \in Page PROVE Look(n, root, p) = Look(m, src, p)
  <2>1. /\ GoodMemory(m, Used) /\ root \in DOMAIN m.maps /\ src \in DOMAIN m.maps \ Used
        /\ src # root /\ Pure(m.maps, src) /\ DOMAIN m.maps[root] = {}
    BY <1>2, <1>3, <1>4 DEF Pure
  <2>2. n = CopyPageMaps(m, root, src)
    BY <1>4
  <2> QED
    BY <1>4, <2>1, <2>2, CopyLooks
<1>5. ASSUME m.ok, NEW p \in Page PROVE Look(m, src, p) = Shows(data, maps, src, p)
  <2>1. LeafOf(p) \in DOMAIN maps[src] => maps[src][LeafOf(p)].frame \in DOMAIN data
    BY <1>3 DEF MInv, Good, Accounted
  <2> QED
    BY <1>2, <1>3, <1>5, <2>1 DEF Look, Shows
<1>6. n.ok => m.ok
  OBVIOUS
<1>7. OnlyImageIn(data, maps, src)
  BY PristineShows
<1>8. ASSUME n.ok, NEW p \in Page PROVE Shows(n.data, n.maps, root, p) = Shows(data, maps, src, p)
  BY <1>4, <1>5, <1>6, <1>8 DEF Look, Shows
<1> QED
  BY <1>7, <1>8 DEF OnlyImageIn

\* What is seen in a page that is there, and in one that is not.
LEMMA SeenIs ==
  ASSUME NEW t \in Task, NEW p \in Page
  PROVE  /\ ~At(t, "run") => Seen(t, p) = "none"
         /\ At(t, "run") =>
              \/ Shows(data, maps, cr3[t], p) = Holds(Seen(t, p))
              \/ /\ Shows(data, maps, cr3[t], p) = Absent
                 /\ Seen(t, p) = IF p \in HeapPages(t) THEN "zero"
                                 ELSE IF p \in FilePages(t) THEN "file" ELSE "none"
<1>1. CASE At(t, "run") /\ Present(t, p)
  BY <1>1 DEF Seen, Shows, Present, Leaf, LeafOf
<1>2. CASE At(t, "run") /\ ~Present(t, p)
  <2>1. Shows(data, maps, cr3[t], p) = Absent
    BY <1>2 DEF Shows, Present, LeafOf
  <2> QED
    BY <1>2, <2>1 DEF Seen
<1>3. CASE ~At(t, "run")
  BY <1>3 DEF Seen
<1> QED
  BY <1>1, <1>2, <1>3

LEMMA SeenIsNext ==
  ASSUME NEW t \in Task, NEW p \in Page
  PROVE  /\ ~At(t, "run")' => Seen(t, p)' = "none"
         /\ At(t, "run")' =>
              \/ Shows(data', maps', cr3'[t], p) = Holds(Seen(t, p)')
              \/ /\ Shows(data', maps', cr3'[t], p) = Absent
                 /\ Seen(t, p)' = IF p \in HeapPages(t)' THEN "zero"
                                  ELSE IF p \in FilePages(t)' THEN "file" ELSE "none"
<1>1. CASE At(t, "run")' /\ Present(t, p)'
  BY <1>1 DEF Seen, Shows, Present, Leaf, LeafOf
<1>2. CASE At(t, "run")' /\ ~Present(t, p)'
  <2>1. Shows(data', maps', cr3'[t], p) = Absent
    BY <1>2 DEF Shows, Present, LeafOf
  <2> QED
    BY <1>2, <2>1 DEF Seen
<1>3. CASE ~At(t, "run")'
  BY <1>3 DEF Seen
<1> QED
  BY <1>1, <1>2, <1>3

\* Nothing changes for a task whose map stays as it is.
LEMMA OthersSee ==
  ASSUME ~AnyBuffer, NEW u \in Task, u \in Using => StaysPut(cr3[u]),
         pc'[u] = pc[u], cr3'[u] = cr3[u], heap'[u] = heap[u], fmaps'[u] = fmaps[u]
  PROVE  /\ SightOf(u) => SightOf(u)'
         /\ \A p \in Page : Seen(u, p)' = Seen(u, p)
<1>1. At(u, "run")' = At(u, "run") /\ At(u, "args")' = At(u, "args")
  BY DEF At
<1>2. HeapPages(u)' = HeapPages(u) /\ FilePages(u)' = FilePages(u)
  BY DEF HeapPages, FilePages
<1>3. ASSUME u \in Using, NEW p \in Page
      PROVE  Shows(data', maps', cr3'[u], p) = Shows(data, maps, cr3[u], p)
  BY <1>3 DEF StaysPut, Shows
<1>4. At(u, "run") \/ At(u, "args") => u \in Using
  BY DEF Using
<1>5. SightOf(u) => SightOf(u)'
  BY <1>1, <1>3, <1>4 DEF SightOf, OnlyImageIn, RunsIn
<1>6. ASSUME NEW p \in Page PROVE Seen(u, p)' = Seen(u, p)
  <2>1. CASE At(u, "run")
    BY <1>1, <1>2, <1>3, <1>4, <2>1, SeenIs, SeenIsNext, HoldsIs
  <2>2. CASE ~At(u, "run")
    BY <1>1, <2>2, SeenIs, SeenIsNext
  <2> QED
    BY <2>1, <2>2
<1> QED
  BY <1>5, <1>6

\* The state of AppMemory that a state of the page maps stands for.
Mem == [t \in Task |-> [p \in Page |-> Seen(t, p)]]

\* Only t sees a change.
OthersSeeSame(t) == \A u \in Task \ {t} : \A p \in Page : Seen(u, p)' = Seen(u, p)

LEMMA MemChanges ==
  ASSUME NEW t \in Task, OthersSeeSame(t)
  PROVE  Mem' = [Mem EXCEPT ![t] = [p \in Page |-> Seen(t, p)']]
  BY DEF Mem, OthersSeeSame

\* What a step of t does to what t sees, and the step of AppMemory it is.
LEMMA SeesSame ==
  ASSUME NEW t \in Task, OthersSeeSame(t), \A p \in Page : Seen(t, p)' = Seen(t, p)
  PROVE  Mem' = Mem
  BY DEF Mem, OthersSeeSame

LEMMA SeesStart ==
  ASSUME NEW t \in Task, OthersSeeSame(t), \A p \in Page : Seen(t, p) = "none",
         \A p \in Page : Seen(t, p)' = IF p \in ImagePages THEN "image"
                                       ELSE IF p \in StackPages THEN "zero"
                                       ELSE IF p = ArgsPage THEN "args" ELSE "none"
  PROVE  Promised!Start(t)
<1>1. Mem[t] = Promised!Nothing
  BY DEF Mem, Promised!Nothing, Promised!Page, Page
<1>2. [p \in Page |-> Seen(t, p)'] = Promised!Fresh
  <2>1. \A p \in Page : ~(p \in ImagePages /\ p \in StackPages)
                        /\ (p = ArgsPage => p \notin ImagePages \cup StackPages)
    BY LayoutAssumption
  <2>2. \A p \in Page : Promised!Fresh[p] = IF p \in ImagePages THEN "image"
                                            ELSE IF p \in StackPages THEN "zero"
                                            ELSE IF p = ArgsPage THEN "args" ELSE "none"
    BY <2>1 DEF Promised!Fresh, Promised!Page, Page
  <2>3. Promised!Fresh = [p \in Page |-> Promised!Fresh[p]]
    BY DEF Promised!Fresh, Promised!Page, Page
  <2> QED
    BY <2>2, <2>3
<1>3. Mem' = [Mem EXCEPT ![t] = Promised!Fresh]
  BY <1>2, MemChanges
<1> QED
  BY <1>1, <1>3 DEF Promised!Start, Mem

LEMMA SeesStore ==
  ASSUME NEW t \in Task, OthersSeeSame(t), NEW q \in Page, Seen(t, q) # "none",
         \A p \in Page : Seen(t, p)' = IF p = q THEN "new" ELSE Seen(t, p)
  PROVE  Promised!Store(t)
<1>1. Mem[t] = [p \in Page |-> Seen(t, p)]
  BY DEF Mem
<1>2. [p \in Page |-> Seen(t, p)'] = [Mem[t] EXCEPT ![q] = "new"]
  BY <1>1
<1>3. Mem' = [Mem EXCEPT ![t][q] = "new"]
  BY <1>2, MemChanges
<1> QED
  BY <1>1, <1>3 DEF Promised!Store, Promised!Page, Page, Mem

LEMMA SeesGrow ==
  ASSUME NEW t \in Task, OthersSeeSame(t), NEW q \in Page, NEW v \in {"zero", "file"},
         \E p \in Page : Seen(t, p) # "none", Seen(t, q) = "none",
         \A p \in Page : Seen(t, p)' = IF p = q THEN v ELSE Seen(t, p)
  PROVE  Promised!Grow(t)
<1>1. Mem[t] = [p \in Page |-> Seen(t, p)]
  BY DEF Mem
<1>2. [p \in Page |-> Seen(t, p)'] = [Mem[t] EXCEPT ![q] = v]
  BY <1>1
<1>3. Mem' = [Mem EXCEPT ![t][q] = v]
  BY <1>2, MemChanges
<1>4. Mem[t] # Promised!Nothing
  BY <1>1 DEF Promised!Nothing, Promised!Page, Page
<1> QED
  BY <1>1, <1>3, <1>4 DEF Promised!Grow, Promised!Page, Page, Mem

LEMMA SeesExit ==
  ASSUME NEW t \in Task, OthersSeeSame(t), \E p \in Page : Seen(t, p) # "none",
         \A p \in Page : Seen(t, p)' = "none"
  PROVE  Promised!Exit(t)
<1>1. Mem[t] = [p \in Page |-> Seen(t, p)]
  BY DEF Mem
<1>2. Mem' = [Mem EXCEPT ![t] = Promised!Nothing]
  <2>1. [p \in Page |-> Seen(t, p)'] = Promised!Nothing
    BY DEF Promised!Nothing, Promised!Page, Page
  <2> QED
    BY <2>1, MemChanges
<1>3. Mem[t] # Promised!Nothing
  BY <1>1 DEF Promised!Nothing, Promised!Page, Page
<1> QED
  BY <1>2, <1>3 DEF Promised!Exit, Mem

\* A step that is one of these, or shows nothing, is allowed by AppMemory.
MayDo(t) ==
  \/ Mem' = Mem
  \/ Promised!Start(t) \/ Promised!Store(t) \/ Promised!Grow(t) \/ Promised!Exit(t)

-----------------------------------------------------------------------------
(* What each step lets applications see *)

\* The image lies below the heap, and the stack above mapped files.
LEMMA LayoutNumbers == DPagingBegin \in Nat /\ FileMapTop \in Nat
<1>1. ImagePages \in SUBSET Nat /\ ImagePages # {} /\ StackPages \in SUBSET Nat /\ StackPages # {}
      /\ \A p \in ImagePages : NumPages - 1 - p \in Nat
  BY LayoutAssumption DEF Page
<1>2. FileMapTop \in StackPages
  <2>1. \E n \in StackPages : \A k \in StackPages : n <= k
    BY <1>1, Least
  <2> QED
    BY <2>1 DEF FileMapTop, Min
<1>3. Max(ImagePages) \in ImagePages
  <2> DEFINE T == { NumPages - 1 - p : p \in ImagePages }
  <2>1. T \in SUBSET Nat /\ T # {}
    BY <1>1
  <2>2. PICK n \in T : \A k \in T : n <= k
    <3> HIDE DEF T
    <3> QED
      BY <2>1, Least
  <2>3. PICK q \in ImagePages : n = NumPages - 1 - q
    BY <2>2
  <2>4. \A p \in ImagePages : q >= p
    <3> SUFFICES ASSUME NEW p \in ImagePages PROVE q >= p
      OBVIOUS
    <3>1. n <= NumPages - 1 - p
      BY <2>2
    <3> QED
      BY <1>1, <2>3, <3>1, LayoutAssumption
  <2> QED
    BY <2>4 DEF Max
<1>4. FileMapTop \in Nat /\ Max(ImagePages) \in Nat
  BY <1>1, <1>2, <1>3
<1> QED
  BY <1>4 DEF DPagingBegin

\* Pages of the heap and of mapped files.
LEMMA PagesAre ==
  ASSUME NEW h \in Nat, NEW p \in Page
  PROVE  /\ p \in DPagingBegin..(DPagingBegin + h - 1) <=> DPagingBegin <= p /\ p < DPagingBegin + h
         /\ p \in (FileMapTop - h)..(FileMapTop - 1) <=> FileMapTop - h <= p /\ p < FileMapTop
<1>1. p \in Nat
  BY LayoutAssumption DEF Page
<1>2. DPagingBegin \in Nat /\ FileMapTop \in Nat
  BY LayoutNumbers
<1> QED
  BY <1>1, <1>2

\* The other tasks have maps of their own.
LEMMA OthersKeep ==
  ASSUME MInv, NEW t \in Using, OthersStayPut(t), NEW u \in Using \ {t}
  PROVE  StaysPut(cr3[u])
  BY DEF MInv, Apart, Used, OthersStayPut

\* A step of t keeps the invariant when it does what t sees.
LEMMA TaskStep ==
  ASSUME RInv, ~AnyBuffer, NEW t \in Task, MInv', Limits', SightOf(t)',
         \A u \in Using \ {t} : StaysPut(cr3[u]),
         \A u \in Task \ {t} : /\ pc'[u] = pc[u] /\ cr3'[u] = cr3[u]
                              /\ heap'[u] = heap[u] /\ fmaps'[u] = fmaps[u]
  PROVE  RInv' /\ OthersSeeSame(t)
<1>1. ASSUME NEW u \in Task \ {t}
      PROVE  SightOf(u)' /\ \A p \in Page : Seen(u, p)' = Seen(u, p)
  BY OthersSee DEF RInv, Sights
<1>2. \A u \in Task : SightOf(u)'
  BY <1>1
<1> QED
  BY <1>1, <1>2 DEF RInv, Sights, OthersSeeSame

\* Nothing is seen, before or after, by a task that runs no application.
LEMMA NotRunning ==
  ASSUME NEW t \in Task, OthersSeeSame(t), ~At(t, "run"), ~At(t, "run")'
  PROVE  MayDo(t)
<1>1. \A p \in Page : Seen(t, p)' = Seen(t, p)
  BY SeenIs, SeenIsNext
<1> QED
  BY <1>1, SeesSame DEF MayDo

\* An application that runs sees something.
LEMMA RunnerSees ==
  ASSUME RInv, NEW t \in Task, At(t, "run")
  PROVE  \E p \in Page : Seen(t, p) # "none"
<1>1. PICK p \in ImagePages : p \in Page
  BY LayoutAssumption
<1>2. Shows(data, maps, cr3[t], p) # Holds("none") /\ Shows(data, maps, cr3[t], p) # Absent
  BY <1>1 DEF RInv, Sights, SightOf, RunsIn
<1> QED
  BY <1>1, <1>2, SeenIs

LEMMA LimitsStay ==
  ASSUME Limits, NEW t \in Task, UNCHANGED limits, \A u \in Task \ {t} : pc'[u] = pc[u],
         ~At(t, "run") \/ At(t, "run")'
  PROVE  Limits'
  BY DEF Limits, limits, At

\* LoadApp: no application runs yet.
LEMMA LoadAppSees ==
  ASSUME RInv, ~AnyBuffer, NEW t \in Task, NEW a \in App, LoadApp(t, a)
  PROVE  RInv' /\ MayDo(t)
<1> DEFINE m == SetupPML4(Memory)
           src == app_loads[a]
           loaded == src # KernelMap
           n == IF ~m.ok THEN m ELSE IF loaded THEN CopyPageMaps(m, m.new, src) ELSE LoadELF(m, m.new)
<1>1. /\ At(t, "shell") /\ UNCHANGED limits
      /\ Remember(n) /\ cr3' = IF m.ok THEN [cr3 EXCEPT ![t] = m.new] ELSE cr3
      /\ IF n.ok THEN pc' = [pc EXCEPT ![t] = [at |-> IF loaded THEN "args" ELSE "insert", app |-> a]]
         ELSE Goto(t, "shell")
  BY DEF LoadApp, Fail
<1>2. MInv /\ MInv' /\ \A r \in DOMAIN maps : StaysPut(r)
  BY LoadAppStep DEF RInv
<1>3. ~At(t, "run") /\ t \notin Using
  BY <1>1 DEF At, Using
<1> HIDE DEF n, m, loaded
<1>4. /\ pc'[t].at = IF n.ok THEN IF loaded THEN "args" ELSE "insert" ELSE "shell"
      /\ \A u \in Task \ {t} : pc'[u] = pc[u] /\ cr3'[u] = cr3[u]
      /\ m.ok => cr3'[t] = m.new
  BY <1>1, <1>2, GotoIs DEF MInv, PTypeOK
<1>5. SightOf(t)'
  <2>1. ~At(t, "run")'
    BY <1>4 DEF At
  <2>2. ASSUME At(t, "args")' PROVE OnlyImageIn(data', maps', cr3'[t])
    <3>1. n.ok /\ loaded
      BY <1>4, <2>2 DEF At
    <3>2. m.ok
      BY <3>1 DEF n
    <3>3. src \in Pristine
      BY <3>1 DEF loaded, Pristine, Loads
    <3>4. n = IF m.ok THEN CopyPageMaps(m, m.new, src) ELSE m
      BY <3>1 DEF n
    <3>5. m = SetupPML4(Memory)
      BY DEF m
    <3>6. OnlyImageIn(n.data, n.maps, m.new)
      BY <1>2, <3>1, <3>3, <3>4, <3>5, CopyShows
    <3> QED
      BY <1>1, <1>4, <3>2, <3>6 DEF Remember
  <2> QED
    BY <2>1, <2>2 DEF SightOf
<1>6. Limits'
  BY <1>1, <1>3, <1>4, LimitsStay DEF RInv
<1>7. \A u \in Using \ {t} : StaysPut(cr3[u])
  BY <1>2 DEF MInv, Apart, Used
<1>8. \A u \in Task \ {t} : heap'[u] = heap[u] /\ fmaps'[u] = fmaps[u]
  BY <1>1 DEF limits
<1>9. RInv' /\ OthersSeeSame(t)
  BY <1>2, <1>4, <1>5, <1>6, <1>7, <1>8, TaskStep
<1>10. ~At(t, "run")'
  BY <1>4 DEF At
<1> QED
  BY <1>3, <1>9, <1>10, NotRunning

\* LoadApp of a file that is refused: nor then.
LEMMA LoadInvalidSees ==
  ASSUME RInv, ~AnyBuffer, NEW t \in Task, LoadInvalid(t)
  PROVE  RInv' /\ MayDo(t)
<1>1. /\ At(t, "shell") /\ UNCHANGED limits /\ Goto(t, "shell")
      /\ \A u \in Task \ {t} : cr3'[u] = cr3[u]
  BY DEF LoadInvalid, Fail, RInv, MInv, PTypeOK
<1>2. MInv /\ MInv' /\ \A r \in DOMAIN maps : StaysPut(r)
  BY LoadInvalidStep DEF RInv
<1>3. ~At(t, "run") /\ t \notin Using
  BY <1>1 DEF At, Using
<1>4. pc'[t].at = "shell" /\ \A u \in Task \ {t} : pc'[u] = pc[u] /\ cr3'[u] = cr3[u]
  BY <1>1, <1>2, GotoIs DEF MInv, PTypeOK
<1>5. SightOf(t)' /\ ~At(t, "run")'
  BY <1>4 DEF SightOf, At
<1>6. Limits'
  BY <1>1, <1>3, <1>4, LimitsStay DEF RInv
<1>7. \A u \in Using \ {t} : StaysPut(cr3[u])
  BY <1>2 DEF MInv, Apart, Used
<1>8. \A u \in Task \ {t} : heap'[u] = heap[u] /\ fmaps'[u] = fmaps[u]
  BY <1>1 DEF limits
<1>9. RInv' /\ OthersSeeSame(t)
  BY <1>2, <1>4, <1>5, <1>6, <1>7, <1>8, TaskStep
<1> QED
  BY <1>3, <1>5, <1>9, NotRunning

\* Insert: nor now.
LEMMA InsertSees ==
  ASSUME RInv, ~AnyBuffer, NEW t \in Task, Insert(t)
  PROVE  RInv' /\ MayDo(t)
<1> DEFINE m == SetupPML4(Memory)
           src == cr3[t]
           n == IF m.ok THEN CopyPageMaps(m, m.new, src) ELSE m
<1>1. /\ At(t, "insert") /\ UNCHANGED limits
      /\ Remember(n) /\ cr3' = IF m.ok THEN [cr3 EXCEPT ![t] = m.new] ELSE cr3
      /\ IF n.ok THEN Goto(t, "args") ELSE Goto(t, "shell")
  BY DEF Insert, Fail
<1>2. MInv /\ MInv' /\ \A r \in DOMAIN maps : StaysPut(r)
  BY InsertStep DEF RInv
<1>3. ~At(t, "run") /\ t \notin Using /\ src \in Pristine
  BY <1>1 DEF At, Using, Pristine, Loading
<1>4. n.ok => m.ok /\ OnlyImageIn(n.data, n.maps, m.new)
  <2>1. n.ok => m.ok
    OBVIOUS
  <2>2. n.ok => OnlyImageIn(n.data, n.maps, m.new)
    <3> HIDE DEF src
    <3> QED
      BY <1>2, <1>3, CopyShows
  <2> QED
    BY <2>1, <2>2
<1> HIDE DEF n, m
<1>5. /\ pc'[t].at = IF n.ok THEN "args" ELSE "shell"
      /\ \A u \in Task \ {t} : pc'[u] = pc[u] /\ cr3'[u] = cr3[u]
      /\ m.ok => cr3'[t] = m.new
  BY <1>1, <1>2, GotoIs DEF MInv, PTypeOK
<1>6. SightOf(t)'
  <2>1. At(t, "args")' => n.ok
    BY <1>5 DEF At
  <2>2. ~At(t, "run")'
    BY <1>5 DEF At
  <2> QED
    BY <1>1, <1>4, <1>5, <2>1, <2>2 DEF SightOf, Remember
<1>7. Limits'
  BY <1>1, <1>3, <1>5, LimitsStay DEF RInv
<1>8. \A u \in Using \ {t} : StaysPut(cr3[u])
  BY <1>2 DEF MInv, Apart, Used
<1>9. \A u \in Task \ {t} : heap'[u] = heap[u] /\ fmaps'[u] = fmaps[u]
  BY <1>1 DEF limits
<1>10. RInv' /\ OthersSeeSame(t)
  BY <1>2, <1>5, <1>6, <1>7, <1>8, <1>9, TaskStep
<1>11. ~At(t, "run")'
  BY <1>5 DEF At
<1> QED
  BY <1>3, <1>10, <1>11, NotRunning

\* Args: the application starts, or does not.
LEMMA ArgsSees ==
  ASSUME RInv, ~AnyBuffer, NEW t \in Task, Args(t)
  PROVE  RInv' /\ MayDo(t)
<1> DEFINE root == cr3[t]
           m == SetupPageMaps(Memory, root, {ArgsPage}, TRUE)
           n == SetupPageMaps(Stored(m, m.maps[root][LeafOf(ArgsPage)].frame, "args"),
                              root, StackPages, TRUE)
<1>1. /\ At(t, "args") /\ UNCHANGED <<cr3, app_loads, limits>>
      /\ \/ m.ok /\ n.ok /\ Remember(n) /\ Goto(t, "run")
         \/ Goto(t, "shell")
  BY DEF Args, Fail, LeafOf, Stored
<1>2. MInv /\ MInv' /\ OthersStayPut(t)
  BY ArgsStep DEF RInv
<1>3. /\ t \in Using /\ root \in DOMAIN maps /\ GoodMemory(Memory, Used)
      /\ Memory.maps = maps /\ Memory.data = data
  BY <1>1, <1>2, OnUse
<1>4. m.ok /\ n.ok /\ (\A q \in StackPages : Look(Memory, root, q) = Absent) =>
        \A q \in Page : Look(n, root, q) = IF q = ArgsPage THEN Holds("args")
                                           ELSE IF q \in StackPages THEN Holds("zero")
                                           ELSE Look(Memory, root, q)
  <2>1. root \in DOMAIN Memory.maps
    BY <1>3
  <2> HIDE DEF root
  <2> QED
    BY <1>3, <2>1, ArgsGood
<1> HIDE DEF m, n, root
<1>5. \A p \in Page : Look(Memory, root, p) = IF p \in ImagePages THEN Holds("image") ELSE Absent
  BY <1>1, <1>3 DEF RInv, Sights, SightOf, OnlyImageIn, Shows, Look, root
<1>6. /\ pc'[t].at \in {"run", "shell"} /\ \A u \in Task \ {t} : pc'[u] = pc[u]
      /\ ~At(t, "run") /\ ~At(t, "args")'
      /\ At(t, "run")' => m.ok /\ n.ok /\ Remember(n)
  <2>1. PTypeOK
    BY <1>2 DEF MInv
  <2>2. CASE m.ok /\ n.ok /\ Remember(n) /\ Goto(t, "run")
    <3>1. pc'[t].at = "run" /\ \A u \in Task \ {t} : pc'[u] = pc[u]
      BY <2>1, <2>2, GotoIs
    <3> QED
      BY <1>1, <2>2, <3>1 DEF At
  <2>3. CASE Goto(t, "shell")
    <3>1. pc'[t].at = "shell" /\ \A u \in Task \ {t} : pc'[u] = pc[u]
      BY <2>1, <2>3, GotoIs
    <3> QED
      BY <1>1, <3>1 DEF At
  <2> QED
    BY <1>1, <2>2, <2>3
<1>7. \A u \in Using \ {t} : StaysPut(cr3[u])
  BY <1>2, <1>3, OthersKeep
<1>8. \A u \in Task \ {t} : /\ pc'[u] = pc[u] /\ cr3'[u] = cr3[u]
                            /\ heap'[u] = heap[u] /\ fmaps'[u] = fmaps[u]
  BY <1>1, <1>6 DEF limits
<1>9. Limits'
  BY <1>1, <1>6, LimitsStay DEF RInv
<1>10. CASE At(t, "run")'
  <2>1. ASSUME NEW p \in Page
        PROVE  Shows(data', maps', cr3'[t], p) = IF p \in ImagePages THEN Holds("image")
                                                 ELSE IF p \in StackPages THEN Holds("zero")
                                                 ELSE IF p = ArgsPage THEN Holds("args") ELSE Absent
    <3>1. \A q \in StackPages : Look(Memory, root, q) = Absent
      BY <1>5, LayoutAssumption
    <3>2. Look(n, root, p) = IF p = ArgsPage THEN Holds("args")
                             ELSE IF p \in StackPages THEN Holds("zero") ELSE Look(Memory, root, p)
      BY <1>4, <1>6, <1>10, <3>1
    <3>3. Shows(data', maps', cr3'[t], p) = Look(n, root, p)
      BY <1>1, <1>6, <1>10 DEF Remember, Shows, Look, root
    <3>4. (p = ArgsPage => p \notin ImagePages \cup StackPages)
          /\ ~(p \in ImagePages /\ p \in StackPages)
      BY LayoutAssumption
    <3> QED
      BY <1>5, <3>2, <3>3, <3>4
  <2>2. SightOf(t)'
    <3>1. RunsIn(data', maps', cr3'[t])
      BY <2>1, HoldsIs DEF RunsIn
    <3> QED
      BY <1>6, <3>1 DEF SightOf
  <2>3. RInv' /\ OthersSeeSame(t)
    BY <1>2, <1>7, <1>8, <1>9, <2>2, TaskStep
  <2>4. ASSUME NEW p \in Page PROVE p \notin HeapPages(t)' /\ p \notin FilePages(t)'
    <3>1. heap'[t] = 0 /\ fmaps'[t] = 0
      BY <1>1, <1>6 DEF RInv, Limits, limits
    <3>2. p \in Nat
      BY LayoutAssumption DEF Page
    <3> QED
      BY <3>1, <3>2, LayoutNumbers DEF HeapPages, FilePages
  <2>5. ASSUME NEW p \in Page
        PROVE  Seen(t, p)' = IF p \in ImagePages THEN "image"
                             ELSE IF p \in StackPages THEN "zero"
                             ELSE IF p = ArgsPage THEN "args" ELSE "none"
    BY <1>10, <2>1, <2>4, SeenIsNext, HoldsIs
  <2>6. \A p \in Page : Seen(t, p) = "none"
    BY <1>6, SeenIs
  <2> QED
    BY <2>3, <2>5, <2>6, SeesStart DEF MayDo
<1>11. CASE ~At(t, "run")'
  <2>1. SightOf(t)'
    BY <1>6, <1>11 DEF SightOf
  <2>2. RInv' /\ OthersSeeSame(t)
    BY <1>2, <1>7, <1>8, <1>9, <2>1, TaskStep
  <2> QED
    BY <1>6, <1>11, <2>2, NotRunning
<1> QED
  BY <1>10, <1>11

\* CleanUp: the application's memory is gone.
LEMMA CleanUpSees ==
  ASSUME RInv, ~AnyBuffer, MaxHeap \in Nat, MaxMaps \in Nat, NEW t \in Task, At(t, "run"), MInv',
         OthersStayPut(t), NEW m, CleanUp(t, m)
  PROVE  RInv' /\ MayDo(t)
<1>1. MInv /\ t \in Using /\ Limits
  BY DEF RInv, Using
<1>2. cr3' = [cr3 EXCEPT ![t] = KernelMap] /\ Goto(t, "shell")
      /\ heap' = [heap EXCEPT ![t] = 0] /\ fmaps' = [fmaps EXCEPT ![t] = 0]
  BY DEF CleanUp
<1>3. pc'[t].at = "shell" /\ \A u \in Task \ {t} : pc'[u] = pc[u]
  BY <1>1, <1>2, GotoIs DEF MInv
<1>4. ~At(t, "run")' /\ ~At(t, "args")'
  BY <1>3 DEF At
<1>5. \A u \in Task \ {t} : /\ pc'[u] = pc[u] /\ cr3'[u] = cr3[u]
                            /\ heap'[u] = heap[u] /\ fmaps'[u] = fmaps[u]
  BY <1>1, <1>2, <1>3 DEF MInv, PTypeOK, Limits
<1>6. Limits'
  BY <1>1, <1>2, <1>3, <1>4 DEF Limits, At
<1>7. SightOf(t)'
  BY <1>4 DEF SightOf
<1>8. \A u \in Using \ {t} : StaysPut(cr3[u])
  BY <1>1, OthersKeep
<1>9. RInv' /\ OthersSeeSame(t)
  BY <1>5, <1>6, <1>7, <1>8, TaskStep
<1>10. \A p \in Page : Seen(t, p)' = "none"
  BY <1>4, SeenIsNext
<1> QED
  BY <1>9, <1>10, RunnerSees, SeesExit DEF MayDo

\* A store changes the page that it is for, in the eyes of its task alone.
LEMMA StoreSees ==
  ASSUME RInv, ~AnyBuffer, NEW t \in Task, At(t, "run"), NEW p \in Page,
         Present(t, p), Leaf(t, p).writable, StoreInto(t, p)
  PROVE  RInv' /\ MayDo(t)
<1> DEFINE root == cr3[t]
           e == LeafOf(p)
           n == Stored(Memory, Memory.maps[root][e].frame, "new")
<1>1. MInv /\ MInv' /\ OthersStayPut(t)
  BY StoreStep DEF RInv
<1>2. /\ t \in Using /\ root \in DOMAIN maps /\ GoodMemory(Memory, Used)
      /\ Memory.maps = maps /\ Memory.data = data
  BY <1>1, OnUse
<1>3. e \in DOMAIN maps[root] /\ maps[root][e].writable
  BY DEF Present, Leaf, LeafOf
<1>4. StoredIn(Memory, n, Used, root, e, "new")
  <2>1. root \in DOMAIN Memory.maps /\ e \in DOMAIN Memory.maps[root]
        /\ Memory.maps[root][e].writable /\ n = Stored(Memory, Memory.maps[root][e].frame, "new")
    BY <1>2, <1>3
  <2> HIDE DEF n, root, e
  <2> QED
    BY <1>2, <2>1, StoreGood
<1>5. n.maps = maps /\ n.data = [data EXCEPT ![maps[root][e].frame] = "new"]
  <2> DEFINE f == maps[root][e].frame
  <2>1. n = [Memory EXCEPT !.data[f] = "new"]
    BY <1>2 DEF Stored
  <2> HIDE DEF f, n
  <2> QED
    BY <1>2, <2>1 DEF GoodMemory, IsMemory, f
<1>6. /\ data' = n.data /\ maps' = n.maps
      /\ UNCHANGED <<cr3, app_loads, pc, limits, mishaps>>
  BY <1>5 DEF StoreInto, Leaf, LeafOf
<1> HIDE DEF n, e, root
<1>7. ASSUME NEW q \in Page
      PROVE  Shows(data', maps', cr3'[t], q) = IF q = p THEN Holds("new")
                                               ELSE Shows(data, maps, cr3[t], q)
  <2>1. Look(n, root, q) = IF LeafOf(q) = e THEN Holds("new") ELSE Look(Memory, root, q)
    BY <1>4 DEF StoredIn
  <2>2. LeafOf(q) = e <=> q = p
    BY EntriesApart DEF e
  <2>3. Look(n, root, q) = Shows(data', maps', cr3'[t], q)
    BY <1>6 DEF Look, Shows, root
  <2>4. Look(Memory, root, q) = Shows(data, maps, cr3[t], q)
    BY <1>2 DEF Look, Shows, root
  <2> QED
    BY <2>1, <2>2, <2>3, <2>4
<1>8. At(t, "run")' /\ ~At(t, "args")' /\ HeapPages(t)' = HeapPages(t)
      /\ FilePages(t)' = FilePages(t)
  BY <1>6 DEF At, HeapPages, FilePages, limits
<1>9. \A q \in Page : Shows(data, maps, cr3[t], q) # Holds("none")
                      /\ (q \in ImagePages => Shows(data, maps, cr3[t], q) # Absent)
  BY DEF RInv, Sights, SightOf, RunsIn
<1>10. SightOf(t)'
  <2>1. Holds("new") # Holds("none") /\ Holds("new") # Absent
    BY HoldsIs
  <2>2. RunsIn(data', maps', cr3'[t])
    BY <1>7, <1>9, <2>1 DEF RunsIn
  <2> QED
    BY <1>8, <2>2 DEF SightOf
<1>11. RInv' /\ OthersSeeSame(t)
  <2>1. Limits'
    BY <1>6, <1>8, LimitsStay DEF RInv
  <2>2. \A u \in Using \ {t} : StaysPut(cr3[u])
    BY <1>1, <1>2, OthersKeep
  <2> QED
    BY <1>1, <1>6, <1>10, <2>1, <2>2, TaskStep DEF limits
<1>12. ASSUME NEW q \in Page PROVE Seen(t, q)' = IF q = p THEN "new" ELSE Seen(t, q)
  BY <1>7, <1>8, SeenIs, SeenIsNext, HoldsIs
<1>13. Seen(t, p) # "none"
  <2>1. Shows(data, maps, cr3[t], p) # Absent
    BY <1>3, HoldsIs DEF Shows, e, root
  <2> QED
    BY <1>9, <2>1, SeenIs
<1> QED
  BY <1>11, <1>12, <1>13, SeesStore DEF MayDo

\* What HandlePageFault maps shows what was promised to be there.
LEMMA FaultLooks ==
  ASSUME MInv, NEW t \in Task, At(t, "run"), NEW p \in Page, NEW write \in BOOLEAN,
         Faults(t, p, write), NEW m, m = HandlePageFault(t, p, write)
  PROVE  m.ok =>
           \/ \A q \in Page : Look(m, cr3[t], q) = Look(Memory, cr3[t], q)
           \/ /\ Look(Memory, cr3[t], p) = Absent /\ p \in HeapPages(t) \cup FilePages(t)
              /\ \A q \in Page :
                   Look(m, cr3[t], q) = IF q # p THEN Look(Memory, cr3[t], q)
                                        ELSE IF p \in HeapPages(t) THEN Holds("zero")
                                        ELSE Holds("file")
<1> DEFINE root == cr3[t]
<1>1. /\ t \in Using /\ root \in Used /\ GoodMemory(Memory, Used)
      /\ Memory.maps = maps /\ Memory.data = data /\ root \in DOMAIN Memory.maps
  BY OnUse
<1>2. Present(t, p) <=> LeafOf(p) \in DOMAIN Memory.maps[root]
  BY <1>1 DEF Present, LeafOf
<1>3. ~Present(t, p) => Look(Memory, root, p) = Absent
  BY <1>2 DEF Look
<1>4. CASE Present(t, p)
  <2>1. write /\ ~Memory.maps[root][LeafOf(p)].writable
    BY <1>1, <1>4 DEF Faults, Leaf, LeafOf
  <2>2. m = CopyOnePage(Memory, root, p)
    BY <1>4, <2>1 DEF HandlePageFault
  <2> HIDE DEF root
  <2> DEFINE c == CopyOnePage(Memory, root, p)
  <2>3. c.ok => \A q \in Page : Look(c, root, q) = Look(Memory, root, q)
    BY <1>1, <1>2, <1>4, <2>1, CopyOnePageGood
  <2> HIDE DEF c
  <2> QED
    BY <2>2, <2>3 DEF root, c
<1>5. CASE ~Present(t, p) /\ p \in HeapPages(t)
  <2>1. m = SetupPageMaps(Memory, root, {p}, TRUE)
    BY <1>5 DEF HandlePageFault
  <2>2. TRUE \in BOOLEAN /\ {p} \in SUBSET Page /\ MaySet(Memory, Used, root, {p}, TRUE)
    BY <1>2, <1>5 DEF MaySet
  <2> HIDE DEF root
  <2> DEFINE c == SetupPageMaps(Memory, root, {p}, TRUE)
  <2>3. c.ok => \A q \in Page :
                  Look(c, root, q) = IF q \in {p} /\ LeafOf(q) \notin DOMAIN Memory.maps[root]
                                     THEN Holds("zero") ELSE Look(Memory, root, q)
    BY <1>1, <2>2, SetupLooks
  <2> QED
    BY <1>2, <1>3, <1>5, <2>1, <2>3 DEF root
<1>6. CASE ~Present(t, p) /\ p \in FilePages(t) \ HeapPages(t)
  <2>1. m = PreparePageCache(Memory, root, p)
    BY <1>6 DEF HandlePageFault
  <2> HIDE DEF root
  <2>2. m.ok => \A q \in Page : Look(m, root, q) = IF q = p THEN Holds("file") ELSE Look(Memory, root, q)
    BY <1>1, <1>2, <1>6, <2>1, PreparePageCacheGood
  <2> QED
    BY <1>3, <1>6, <2>2 DEF root
<1>7. CASE ~Present(t, p) /\ p \notin HeapPages(t) \cup FilePages(t)
  <2>1. m = [Memory EXCEPT !.ok = FALSE]
    BY <1>7 DEF HandlePageFault
  <2>2. Memory = [data |-> Memory.data, maps |-> Memory.maps, new |-> Memory.new, ok |-> Memory.ok]
    BY DEF Memory
  <2> QED
    BY <2>1, <2>2
<1> QED
  BY <1>4, <1>5, <1>6, <1>7

\* A fault that is served shows nothing that was not seen before.
LEMMA ServedSees ==
  ASSUME RInv, ~AnyBuffer, NEW t \in Task, At(t, "run"), NEW p \in Page, NEW write \in BOOLEAN,
         Faults(t, p, write), NEW m, m = HandlePageFault(t, p, write), m.ok = TRUE,
         MInv', OthersStayPut(t),
         Remember(m), UNCHANGED <<cr3, app_loads, pc, limits, mishaps>>
  PROVE  RInv' /\ MayDo(t)
<1>1. MInv /\ t \in Using /\ Memory.maps = maps /\ Memory.data = data
  BY OnUse DEF RInv
<1>2. \/ \A q \in Page : Look(m, cr3[t], q) = Look(Memory, cr3[t], q)
      \/ /\ Look(Memory, cr3[t], p) = Absent /\ p \in HeapPages(t) \cup FilePages(t)
         /\ \A q \in Page :
              Look(m, cr3[t], q) = IF q # p THEN Look(Memory, cr3[t], q)
                                   ELSE IF p \in HeapPages(t) THEN Holds("zero")
                                   ELSE Holds("file")
  BY <1>1, FaultLooks
<1>3. \A q \in Page : /\ Look(m, cr3[t], q) = Shows(data', maps', cr3'[t], q)
                      /\ Look(Memory, cr3[t], q) = Shows(data, maps, cr3[t], q)
  BY <1>1 DEF Remember, Look, Shows
<1>4. At(t, "run")' /\ ~At(t, "args")' /\ HeapPages(t)' = HeapPages(t)
      /\ FilePages(t)' = FilePages(t)
  BY DEF At, HeapPages, FilePages, limits
<1>5. SightOf(t)'
  <2>1. Holds("zero") # Holds("none") /\ Holds("zero") # Absent
        /\ Holds("file") # Holds("none") /\ Holds("file") # Absent
    BY HoldsIs
  <2>2. RunsIn(data, maps, cr3[t])
    BY DEF RInv, Sights, SightOf
  <2>3. RunsIn(data', maps', cr3'[t])
    BY <1>2, <1>3, <2>1, <2>2 DEF RunsIn
  <2> QED
    BY <1>4, <2>3 DEF SightOf
<1>6. RInv' /\ OthersSeeSame(t)
  <2>1. Limits'
    BY <1>4, LimitsStay DEF RInv
  <2>2. \A u \in Using \ {t} : StaysPut(cr3[u])
    BY <1>1, OthersKeep
  <2> QED
    BY <1>5, <2>1, <2>2, TaskStep DEF limits
<1>7. ASSUME NEW q \in Page PROVE Seen(t, q)' = Seen(t, q)
  <2>1. CASE Shows(data', maps', cr3'[t], q) = Shows(data, maps, cr3[t], q)
    BY <1>4, <2>1, SeenIs, SeenIsNext, HoldsIs
  <2>2. CASE Shows(data', maps', cr3'[t], q) # Shows(data, maps, cr3[t], q)
    <3>1. /\ q = p /\ Shows(data, maps, cr3[t], q) = Absent
          /\ p \in HeapPages(t) \cup FilePages(t)
          /\ Shows(data', maps', cr3'[t], q) = IF p \in HeapPages(t) THEN Holds("zero")
                                               ELSE Holds("file")
      BY <1>2, <1>3, <2>2
    <3>2. Seen(t, q) = IF p \in HeapPages(t) THEN "zero" ELSE "file"
      BY <3>1, SeenIs, HoldsIs
    <3>3. Shows(data', maps', cr3'[t], q) = Holds(Seen(t, q)')
      BY <1>4, <3>1, SeenIsNext, HoldsIs
    <3> QED
      BY <3>1, <3>2, <3>3, HoldsIs
  <2> QED
    BY <2>1, <2>2
<1> QED
  BY <1>6, <1>7, SeesSame DEF MayDo

LEMMA FaultSees ==
  ASSUME RInv, ~AnyBuffer, MaxHeap \in Nat, MaxMaps \in Nat, NEW t \in Task, Fault(t)
  PROVE  RInv' /\ MayDo(t)
<1>1. PICK p \in Page, write \in BOOLEAN :
        LET m == HandlePageFault(t, p, write)
        IN /\ Faults(t, p, write)
           /\ \/ m.ok /\ Remember(m) /\ UNCHANGED <<cr3, app_loads, pc, limits, mishaps>>
              \/ ~m.ok /\ CleanUp(t, m)
  BY DEF Fault
<1> DEFINE m == HandlePageFault(t, p, write)
<1>2. At(t, "run")
  BY DEF Fault
<1>3. MInv' /\ OthersStayPut(t)
  BY FaultStep DEF RInv
<1>4. m.ok \in BOOLEAN
  BY <1>1, <1>2, HandlePageFaultGood DEF RInv, GoodMemory, IsMemory
<1> HIDE DEF m
<1>5. CASE m.ok /\ Remember(m) /\ UNCHANGED <<cr3, app_loads, pc, limits, mishaps>>
  <2>1. Faults(t, p, write) /\ m = HandlePageFault(t, p, write) /\ m.ok = TRUE
    BY <1>1, <1>4, <1>5 DEF m
  <2>2. Remember(m) /\ UNCHANGED <<cr3, app_loads, pc, limits, mishaps>>
    BY <1>5
  <2> QED
    BY <1>2, <1>3, <2>1, <2>2, ServedSees
<1>6. CASE CleanUp(t, m)
  BY <1>2, <1>3, <1>6, CleanUpSees
<1> QED
  BY <1>1, <1>5, <1>6 DEF m

LEMMA ExitSees ==
  ASSUME RInv, ~AnyBuffer, MaxHeap \in Nat, MaxMaps \in Nat, NEW t \in Task, Exit(t)
  PROVE  RInv' /\ MayDo(t)
<1>1. At(t, "run") /\ CleanUp(t, Memory)
  BY DEF Exit
<1>2. MInv' /\ OthersStayPut(t)
  BY ExitStep DEF RInv
<1> QED
  BY <1>1, <1>2, CleanUpSees

\* The heap grows below mapped files only, for every bound that keeps them apart.
RoomEnough == MaxHeap \in Nat /\ MaxMaps \in Nat /\ DPagingBegin + MaxHeap <= FileMapTop - MaxMaps

\* DemandPages and MapFile widen what a fault may map, by at most one page.
LEMMA WiderSees ==
  ASSUME RInv, ~AnyBuffer, NEW t \in Task, At(t, "run"), Limits',
         UNCHANGED <<data, maps, cr3, app_loads, pc, mishaps>>,
         \A u \in Task \ {t} : heap'[u] = heap[u] /\ fmaps'[u] = fmaps[u],
         NEW q, NEW v \in {"zero", "file"},
         \A p \in Page : (p \in HeapPages(t)' <=> p \in HeapPages(t) \/ (p = q /\ v = "zero")),
         \A p \in Page : (p \in FilePages(t)' <=> p \in FilePages(t) \/ (p = q /\ v = "file")),
         v = "zero" => q \notin FilePages(t)
  PROVE  RInv' /\ MayDo(t)
<1>1. MInv /\ MInv' /\ t \in Using
  BY StillStep DEF RInv, Using
<1>2. \A u \in Task : StaysPut(cr3[u]) \/ u \notin Using
  BY <1>1 DEF MInv, Apart, Used, StaysPut
<1>3. At(t, "run")' /\ ~At(t, "args")'
  BY DEF At
<1>4. \A p \in Page : Shows(data', maps', cr3'[t], p) = Shows(data, maps, cr3[t], p)
  OBVIOUS
<1>5. SightOf(t)'
  BY <1>3, <1>4 DEF RInv, Sights, SightOf, RunsIn
<1>6. RInv' /\ OthersSeeSame(t)
  <2>1. \A u \in Using \ {t} : StaysPut(cr3[u])
    BY <1>1, <1>2 DEF Using
  <2>2. \A u \in Task \ {t} : pc'[u] = pc[u] /\ cr3'[u] = cr3[u]
    OBVIOUS
  <2> QED
    BY <1>1, <1>5, <2>1, <2>2, TaskStep
<1>7. ASSUME NEW p \in Page, p # q \/ Seen(t, p) # "none" PROVE Seen(t, p)' = Seen(t, p)
  <2>1. CASE Shows(data, maps, cr3[t], p) # Absent
    BY <1>3, <1>4, <2>1, SeenIs, SeenIsNext, HoldsIs
  <2>2. CASE Shows(data, maps, cr3[t], p) = Absent
    <3>1. /\ Seen(t, p) = IF p \in HeapPages(t) THEN "zero"
                          ELSE IF p \in FilePages(t) THEN "file" ELSE "none"
          /\ Seen(t, p)' = IF p \in HeapPages(t)' THEN "zero"
                           ELSE IF p \in FilePages(t)' THEN "file" ELSE "none"
      BY <1>3, <1>4, <2>2, SeenIs, SeenIsNext, HoldsIs
    <3> QED
      BY <1>7, <3>1
  <2> QED
    BY <2>1, <2>2
<1>8. CASE q \in Page /\ Seen(t, q) = "none"
  <2>1. Seen(t, q)' \in {"none", v}
    <3>1. CASE Shows(data, maps, cr3[t], q) # Absent
      BY <1>3, <1>4, <1>8, <3>1, SeenIs, SeenIsNext, HoldsIs
    <3>2. CASE Shows(data, maps, cr3[t], q) = Absent
      <4>1. /\ Seen(t, q) = IF q \in HeapPages(t) THEN "zero"
                            ELSE IF q \in FilePages(t) THEN "file" ELSE "none"
            /\ Seen(t, q)' = IF q \in HeapPages(t)' THEN "zero"
                             ELSE IF q \in FilePages(t)' THEN "file" ELSE "none"
        BY <1>3, <1>4, <1>8, <3>2, SeenIs, SeenIsNext, HoldsIs
      <4> QED
        BY <1>8, <4>1
    <3> QED
      BY <3>1, <3>2
  <2>2. CASE Seen(t, q)' = v
    <3>1. \A p \in Page : Seen(t, p)' = IF p = q THEN v ELSE Seen(t, p)
      BY <1>7, <2>2
    <3>2. \E p \in Page : Seen(t, p) # "none"
      BY RunnerSees
    <3> QED
      BY <1>6, <1>8, <3>1, <3>2, SeesGrow DEF MayDo
  <2>3. CASE Seen(t, q)' = "none"
    <3>1. \A p \in Page : Seen(t, p)' = Seen(t, p)
      BY <1>7, <1>8, <2>3
    <3> QED
      BY <1>6, <3>1, SeesSame DEF MayDo
  <2> QED
    BY <2>1, <2>2, <2>3
<1>9. CASE ~(q \in Page /\ Seen(t, q) = "none")
  <2>1. \A p \in Page : Seen(t, p)' = Seen(t, p)
    BY <1>7, <1>9
  <2> QED
    BY <1>6, <2>1, SeesSame DEF MayDo
<1> QED
  BY <1>8, <1>9

LEMMA DemandPagesSees ==
  ASSUME RInv, ~AnyBuffer, RoomEnough, NEW t \in Task, DemandPages(t)
  PROVE  RInv' /\ MayDo(t)
<1>1. /\ At(t, "run") /\ heap[t] < MaxHeap /\ heap' = [heap EXCEPT ![t] = @ + 1]
      /\ UNCHANGED <<data, maps, cr3, app_loads, pc, fmaps, mishaps>>
  BY DEF DemandPages
<1>2. /\ heap \in [Task -> 0..MaxHeap] /\ fmaps \in [Task -> 0..MaxMaps]
      /\ \A u \in Task : ~At(u, "run") => heap[u] = 0 /\ fmaps[u] = 0
  BY DEF RInv, Limits
<1>3. heap'[t] = heap[t] + 1 /\ \A u \in Task \ {t} : heap'[u] = heap[u]
  BY <1>1, <1>2
<1>4. Limits'
  <2>1. heap[t] + 1 \in 0..MaxHeap
    BY <1>1, <1>2 DEF RoomEnough
  <2>2. heap' \in [Task -> 0..MaxHeap]
    BY <1>1, <1>2, <2>1
  <2> QED
    BY <1>1, <1>2, <1>3, <2>2 DEF Limits, At
<1> DEFINE q == DPagingBegin + heap[t]
           v == "zero"
<1>5. heap[t] \in Nat /\ fmaps[t] \in 0..MaxMaps /\ DPagingBegin \in Nat /\ FileMapTop \in Nat
      /\ Page \subseteq Nat
  BY <1>2, LayoutNumbers, LayoutAssumption DEF RoomEnough, Page
<1>6. \A p \in Page : (p \in HeapPages(t)' <=> p \in HeapPages(t) \/ (p = q /\ v = "zero"))
  BY <1>3, <1>5 DEF HeapPages
<1>7. \A p \in Page : (p \in FilePages(t)' <=> p \in FilePages(t) \/ (p = q /\ v = "file"))
  BY <1>1 DEF FilePages
<1>8. q \notin FilePages(t)
  BY <1>1, <1>5 DEF FilePages, RoomEnough
<1>9. v \in {"zero", "file"} /\ \A u \in Task \ {t} : heap'[u] = heap[u] /\ fmaps'[u] = fmaps[u]
  BY <1>1, <1>3
<1> HIDE DEF q, v
<1> QED
  BY <1>1, <1>4, <1>6, <1>7, <1>8, <1>9, WiderSees

LEMMA MapFileSees ==
  ASSUME RInv, ~AnyBuffer, RoomEnough, NEW t \in Task, MapFile(t)
  PROVE  RInv' /\ MayDo(t)
<1>1. /\ At(t, "run") /\ fmaps[t] < MaxMaps /\ fmaps' = [fmaps EXCEPT ![t] = @ + 1]
      /\ UNCHANGED <<data, maps, cr3, app_loads, pc, heap, mishaps>>
  BY DEF MapFile
<1>2. /\ heap \in [Task -> 0..MaxHeap] /\ fmaps \in [Task -> 0..MaxMaps]
      /\ \A u \in Task : ~At(u, "run") => heap[u] = 0 /\ fmaps[u] = 0
  BY DEF RInv, Limits
<1>3. fmaps'[t] = fmaps[t] + 1 /\ \A u \in Task \ {t} : fmaps'[u] = fmaps[u]
  BY <1>1, <1>2
<1>4. Limits'
  <2>1. fmaps[t] + 1 \in 0..MaxMaps
    BY <1>1, <1>2 DEF RoomEnough
  <2>2. fmaps' \in [Task -> 0..MaxMaps]
    BY <1>1, <1>2, <2>1
  <2> QED
    BY <1>1, <1>2, <1>3, <2>2 DEF Limits, At
<1> DEFINE q == FileMapTop - (fmaps[t] + 1)
           v == "file"
<1>5. fmaps[t] \in Nat /\ FileMapTop \in Nat /\ Page \subseteq Nat
  BY <1>2, LayoutNumbers, LayoutAssumption DEF RoomEnough, Page
<1>6. \A p \in Page : (p \in HeapPages(t)' <=> p \in HeapPages(t) \/ (p = q /\ v = "zero"))
  BY <1>1 DEF HeapPages
<1>7. \A p \in Page : (p \in FilePages(t)' <=> p \in FilePages(t) \/ (p = q /\ v = "file"))
  BY <1>3, <1>5 DEF FilePages
<1>8. v \in {"zero", "file"} /\ v # "zero"
      /\ \A u \in Task \ {t} : heap'[u] = heap[u] /\ fmaps'[u] = fmaps[u]
  BY <1>1, <1>3
<1> HIDE DEF q, v
<1> QED
  BY <1>1, <1>4, <1>6, <1>7, <1>8, WiderSees

\* Every step of the page maps is a step of AppMemory, or shows nothing.
LEMMA NextSees ==
  ASSUME RInv, ~AnyBuffer, RoomEnough, [Next]_vars
  PROVE  RInv' /\ [Promised!Next]_Mem
<1>1. ASSUME NEW t \in Task, MayDo(t) PROVE [Promised!Next]_Mem
  BY <1>1 DEF MayDo, Promised!Next
<1>2. CASE UNCHANGED vars
  <2>1. MInv'
    BY <1>2, StillStep DEF vars, RInv
  <2>2. Limits' /\ Sights'
    BY <1>2 DEF vars, limits, RInv, Limits, Sights, SightOf, At
  <2>3. Mem' = Mem
    BY <1>2 DEF vars, Mem, Seen, At, Present, Leaf, HeapPages, FilePages
  <2> QED
    BY <2>1, <2>2, <2>3 DEF RInv
<1>3. ASSUME NEW t \in Task, NEW a \in App, LoadApp(t, a) PROVE RInv' /\ MayDo(t)
  BY <1>3, LoadAppSees
<1>4. ASSUME NEW t \in Task, UserStore(t) \/ KernelStore(t) PROVE RInv' /\ MayDo(t)
  <2>1. At(t, "run")
    BY <1>4 DEF UserStore, KernelStore
  <2>2. PICK p \in Page : Present(t, p) /\ Leaf(t, p).writable /\ StoreInto(t, p)
    BY <1>4 DEF UserStore, KernelStore
  <2> QED
    BY <2>1, <2>2, StoreSees
<1>5. ASSUME NEW t \in Task, DemandPages(t) \/ MapFile(t) PROVE RInv' /\ MayDo(t)
  BY <1>5, DemandPagesSees, MapFileSees
<1>6. ASSUME NEW t \in Task, LoadInvalid(t) \/ Insert(t) \/ Args(t) \/ Fault(t) \/ Exit(t)
      PROVE  RInv' /\ MayDo(t)
  BY <1>6, LoadInvalidSees, InsertSees, ArgsSees, FaultSees, ExitSees DEF RoomEnough
<1> QED
  BY <1>1, <1>2, <1>3, <1>4, <1>5, <1>6 DEF Next

LEMMA InitSees == Init => Promised!Init
<1> SUFFICES ASSUME Init PROVE Promised!Init
  OBVIOUS
<1>1. ASSUME NEW t \in Task, NEW p \in Page PROVE Seen(t, p) = "none"
  BY SeenIs DEF Init, At
<1> QED
  BY <1>1 DEF Promised!Init, Promised!Nothing, Promised!Page, Page

\* Applications cannot tell that pages are shared until they store, copied
\* and mapped when they are touched (paging.cpp): what each sees changes as a
\* memory of its own would, provided that system calls store only where the
\* application itself may and heap and mapped files keep apart.
THEOREM AppMemoryImplemented ==
  ASSUME ~AnyBuffer, RoomEnough
  PROVE  Spec => ImplementsAppMemory
<1>1. Init => RInv
  BY InitRInv DEF RoomEnough
<1>2. RInv /\ [Next]_vars => RInv' /\ [Promised!Next]_Mem
  BY NextSees
<1> QED
  BY <1>1, <1>2, InitSees, PTL DEF Spec, ImplementsAppMemory, Promised!Spec, Mem

=============================================================================

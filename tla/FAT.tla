--------------------------------- MODULE FAT ---------------------------------
(***************************************************************************)
(* The file system of fat.cpp: cluster chains, the entries of a directory, *)
(* and file descriptors that read and write.  A call is one step; its      *)
(* loops are recursive functions.                                          *)
(*                                                                         *)
(* One directory, the root, stands for all.  Names are in 8+3 form, as     *)
(* FindFile asks for, and SetFileName and NameIsEqual agree on those.      *)
(* Calls of different tasks do not overlap, and the volume has room for    *)
(* what is written: the searches for a free cluster know no end.  There    *)
(* are no deleted entries, as the kernel deletes no file, and no file is   *)
(* read while it is open for writing.                                      *)
(***************************************************************************)
EXTENDS Integers, Sequences, FiniteSets

CONSTANTS Name, Byte, FD,
          NotOpen, NoFile,
          Garbage,               \* what nobody has written
          NoName,                \* the name of an entry that begins with 0
          bytes_per_cluster,
          EntriesPerCluster,     \* bytes_per_cluster / sizeof(DirectoryEntry)
          LastCluster,           \* clusters are numbered from 2
          MaxLen,                \* bound: bytes of one read or write
          MaxSize,               \* bound: bytes of a file
          Crossing               \* whether a write may go on from one cluster into another

ASSUME FATAssumption ==
  /\ bytes_per_cluster \in Nat \ {0} /\ EntriesPerCluster \in Nat \ {0}
  /\ LastCluster \in Nat /\ LastCluster >= 3
  /\ MaxLen \in Nat /\ MaxSize \in Nat /\ NoName \notin Name
  /\ Crossing \in BOOLEAN

VARIABLES fat,   \* of each cluster the next, 0 when it is free
          data,  \* of each cluster, its bytes
          dir,   \* of each cluster, the entries it holds as part of a directory
          fds,   \* the descriptors
          out    \* the bytes that the last call returned

fatVars == <<fat, data, dir, fds, out>>

Cluster == 2..LastCluster
kEndOfClusterchain == -1   \* any number outside the volume
root_cluster == 2

min(a, b) == IF a < b THEN a ELSE b

-----------------------------------------------------------------------------
(* Cluster chains, in a table f.                                           *)

NextCluster(f, c) == IF c \in Cluster THEN f[c] ELSE kEndOfClusterchain

\* The k-th cluster after c.
Nth(f, c, k) ==
  LET nth[i \in 0..k] == IF i = 0 THEN c ELSE NextCluster(f, nth[i - 1])
  IN  nth[k]

\* How many clusters come after c.
After(f, c) == CHOOSE k \in 0..LastCluster :
  NextCluster(f, Nth(f, c, k)) = kEndOfClusterchain /\ Nth(f, c, k) # kEndOfClusterchain

FreeClusters(f) == {c \in Cluster : f[c] = 0}

\* The k-th free cluster from 2 on.
Candidate(f, k) == CHOOSE c \in FreeClusters(f) : Cardinality({x \in FreeClusters(f) : x < c}) = k - 1

\* Mutant: the last cluster is not marked.
ExtendUnended(f, c, n) ==
  LET link[k \in 0..n] == IF k = 0 THEN Nth(f, c, After(f, c)) ELSE Candidate(f, k)
  IN  [fat |-> [x \in Cluster |-> IF \E k \in 0..n - 1 : link[k] = x
                                  THEN link[1 + CHOOSE k \in 0..n - 1 : link[k] = x] ELSE f[x]],
       last |-> link[n]]

ExtendCluster(f, c, n) ==
  LET link[k \in 0..n] == IF k = 0 THEN Nth(f, c, After(f, c)) ELSE Candidate(f, k)
      Position(x) == {k \in 0..n : link[k] = x}
  IN  [fat |-> [x \in Cluster |->
                  IF Position(x) = {} THEN f[x]
                  ELSE LET k == CHOOSE k \in Position(x) : TRUE
                       IN  IF k = n THEN kEndOfClusterchain ELSE link[k + 1]],
       last |-> link[n]]

AllocateClusterChain(f, n) ==
  LET first == Candidate(f, 1)
      one == [f EXCEPT ![first] = kEndOfClusterchain]
  IN  [fat |-> IF n > 1 THEN ExtendCluster(one, first, n - 1).fat ELSE one, first |-> first]

num_cluster(bytes) == (bytes + bytes_per_cluster - 1) \div bytes_per_cluster

-----------------------------------------------------------------------------
(* The directory.  A place is <<cluster, index>>.                          *)

Entry(p) == dir[p[1]][p[2]]
EmptyEntry == [name |-> NoName, first_cluster |-> 0, file_size |-> 0]
EmptyDirectory == [i \in 1..EntriesPerCluster |-> EmptyEntry]

\* The k-th place of the directory.
Place(k) == <<Nth(fat, root_cluster, (k - 1) \div EntriesPerCluster), ((k - 1) % EntriesPerCluster) + 1>>
PlaceNumber == 1..EntriesPerCluster * (1 + After(fat, root_cluster))

\* The first place whose entry has one of these names, if any.
FirstOf(names) ==
  {Place(k) : k \in {k \in PlaceNumber : /\ Entry(Place(k)).name \in names
                                        /\ \A i \in 1..k - 1 : Entry(Place(i)).name \notin names}}

\* No entry after an unused one is looked at.
FindFile(n) == {p \in FirstOf({n, NoName}) : Entry(p).name = n}

NewEntry(n, p) == [Entry(p) EXCEPT !.name = n, !.file_size = 0]

\* AllocateEntry, and what CreateFile writes there.
CreateFile(n, place) ==
  \/ /\ place \in FirstOf({NoName})
     /\ dir' = [dir EXCEPT ![place[1]][place[2]] = NewEntry(n, place)]
     /\ UNCHANGED fat
  \/ /\ FirstOf({NoName}) = {} /\ FreeClusters(fat) # {}
     /\ LET extended == ExtendCluster(fat, root_cluster, 1)
        IN  /\ place = <<extended.last, 1>>
            /\ fat' = extended.fat
            /\ dir' = [dir EXCEPT ![extended.last] =
                         [EmptyDirectory EXCEPT ![1] = [EmptyEntry EXCEPT !.name = n]]]

-----------------------------------------------------------------------------
(* Descriptors.                                                            *)

\* fopen's mode, which the kernel does not look at.
Mode == {"r", "w"}

FileDescriptor ==
  [entry : Cluster \X (1..EntriesPerCluster), mode : Mode,
   rd_off : Nat, rd_cluster : Int, rd_cluster_off : Nat,
   wr_off : Nat, wr_cluster : Int, wr_cluster_off : Nat]

\* What says that there is no file, or no descriptor, is neither.
ASSUME FATDistinct ==
  /\ NoFile \notin Seq(Byte \cup {Garbage})
  /\ NotOpen \notin FileDescriptor /\ NotOpen \notin [name : Name, rd_off : Nat, wr_off : Nat]

NewDescriptor(p, mode) ==
  [entry |-> p, mode |-> mode, rd_off |-> 0, rd_cluster |-> 0, rd_cluster_off |-> 0,
   wr_off |-> 0, wr_cluster |-> 0, wr_cluster_off |-> 0]

OpenOn(p, mode) == {d \in FD : fds[d] # NotOpen /\ fds[d].entry = p /\ fds[d].mode = mode}

\* A file has one writer and no reader beside it, or readers.
MayOpen(p, mode) == OpenOn(p, "w") = {} /\ (mode = "r" \/ OpenOn(p, "r") = {})

\* A name that is not there is created when O_CREAT asks for it; without
\* it OpenFile returns ENOENT and changes nothing, which is no step here.
Open(d, n, mode) ==
  /\ fds[d] = NotOpen
  /\ \E place \in Cluster \X (1..EntriesPerCluster) :
       /\ \/ place \in FindFile(n) /\ MayOpen(place, mode) /\ UNCHANGED <<fat, dir>>
          \/ FindFile(n) = {} /\ CreateFile(n, place)
       /\ fds' = [fds EXCEPT ![d] = NewDescriptor(place, mode)]
  /\ UNCHANGED data /\ out' = <<>>

Close(d) ==
  /\ fds' = [fds EXCEPT ![d] = NotOpen]
  /\ out' = <<>>
  /\ UNCHANGED <<fat, data, dir>>

\* Mutant: the next cluster is entered only when more is to be read.
ReadOnStaying(s, len) ==
  LET n == min(len - Len(s.buf), bytes_per_cluster - s.off)
      bytes == [i \in 1..n |-> IF s.cluster \in Cluster THEN data[s.cluster][s.off + i] ELSE Garbage]
      whole == s.off + n = bytes_per_cluster
  IN  IF Len(s.buf) = len THEN s
      ELSE [buf |-> s.buf \o bytes,
            cluster |-> IF whole /\ Len(s.buf) + n < len THEN NextCluster(fat, s.cluster) ELSE s.cluster,
            off |-> IF whole THEN 0 ELSE s.off + n]

\* One round of the loop of Read, from cluster and off on.
ReadOn(s, len) ==
  LET n == min(len - Len(s.buf), bytes_per_cluster - s.off)
      bytes == [i \in 1..n |-> IF s.cluster \in Cluster THEN data[s.cluster][s.off + i] ELSE Garbage]
      whole == s.off + n = bytes_per_cluster
  IN  IF Len(s.buf) = len THEN s
      ELSE [buf |-> s.buf \o bytes,
            cluster |-> IF whole THEN NextCluster(fat, s.cluster) ELSE s.cluster,
            off |-> IF whole THEN 0 ELSE s.off + n]

\* Of a file smaller than rd_off, file_size - rd_off_ is not negative but huge.
Rest(e, rd_off, len) == IF e.file_size < rd_off THEN len ELSE min(len, e.file_size - rd_off)

\* Read from a cluster, which is 0 at the start, and a place in it.
ReadFrom(e, cluster, off, rd_off, len) ==
  LET want == Rest(e, rd_off, len)
      loop[k \in 0..want] ==
        IF k = 0 THEN [buf |-> <<>>, cluster |-> IF cluster = 0 THEN e.first_cluster ELSE cluster,
                       off |-> off]
        ELSE ReadOn(loop[k - 1], want)
  IN  loop[want]

Read(d, len) ==
  LET fd == fds[d]
      end == ReadFrom(Entry(fd.entry), fd.rd_cluster, fd.rd_cluster_off, fd.rd_off, len)
  IN  /\ fd.mode = "r"
      /\ out' = end.buf
      /\ fds' = [fds EXCEPT ![d].rd_cluster = end.cluster, ![d].rd_cluster_off = end.off,
                            ![d].rd_off = @ + Len(end.buf)]
      /\ UNCHANGED <<fat, data, dir>>

\* PreparePageCache loads a page, here MaxLen bytes, from inside the file.
Load(d, len, offset) ==
  LET e == Entry(fds[d].entry)
      skip[k \in 0..offset] ==
        IF k = 0 THEN [cluster |-> e.first_cluster, off |-> offset]
        ELSE LET before == skip[k - 1]
             IN  IF before.off < bytes_per_cluster THEN before
                 ELSE [cluster |-> NextCluster(fat, before.cluster),
                       off |-> before.off - bytes_per_cluster]
  IN  /\ fds[d].mode = "r" /\ offset <= e.file_size
      /\ out' = ReadFrom(e, skip[offset].cluster, skip[offset].off, offset, len).buf
      /\ UNCHANGED <<fat, data, dir, fds>>

\* One round of the loop of Write.  What is already written is not taken off n.
WriteOn(s, buf) ==
  LET move == s.off = bytes_per_cluster
      next == NextCluster(s.fat, s.cluster)
      extended == ExtendCluster(s.fat, s.cluster, num_cluster(Len(buf) - s.total))
      extend == move /\ next = kEndOfClusterchain
      cluster == IF extend THEN extended.last ELSE IF move THEN next ELSE s.cluster
      off == IF move THEN 0 ELSE s.off
      n == min(Len(buf), bytes_per_cluster - off)
      Source(i) == IF i <= Len(buf) THEN buf[i] ELSE Garbage
  IN  IF s.total >= Len(buf) THEN s
      ELSE [fat |-> IF extend THEN extended.fat ELSE s.fat,
            data |-> [s.data EXCEPT ![cluster] = [i \in 1..bytes_per_cluster |->
                        IF i \in off + 1..off + n THEN Source(s.total + i - off) ELSE @[i]]],
            cluster |-> cluster, off |-> off + n, total |-> s.total + n]

\* Where a write that is still to find its first cluster begins.
Beginning(fd, e, len) ==
  LET fresh == fd.wr_cluster = 0 /\ e.first_cluster = 0
      chain == AllocateClusterChain(fat, num_cluster(len))
  IN  [fat |-> IF fresh THEN chain.fat ELSE fat,
       data |-> data,
       cluster |-> IF fresh THEN chain.first
                   ELSE IF fd.wr_cluster = 0 THEN e.first_cluster ELSE fd.wr_cluster,
       off |-> fd.wr_cluster_off, total |-> 0]

\* Unless Crossing, a write stays in one cluster or is the first one to a file
\* and fills its clusters.
MayWrite(fd, e, len) ==
  \/ Crossing
  \/ len <= bytes_per_cluster - (fd.wr_cluster_off % bytes_per_cluster)
  \/ fd.wr_off = 0 /\ e.first_cluster = 0 /\ len % bytes_per_cluster = 0

\* The most clusters that a write takes: where it crosses from one to another,
\* it takes as many as all the rest needs, again and again.
Room(fd, e, n) == IF fd.wr_cluster = 0 /\ e.first_cluster = 0 THEN n ELSE (n * (n + 1)) \div 2

WriteLoop(begin, buf) ==
  LET loop[k \in 0..Len(buf)] == IF k = 0 THEN begin ELSE WriteOn(loop[k - 1], buf)
  IN  loop[Len(buf)]

Write(d, buf) ==
  LET fd == fds[d]
      e == Entry(fd.entry)
      begin == Beginning(fd, e, Len(buf))
      end == WriteLoop(begin, buf)
  IN  /\ fd.mode = "w" /\ MayWrite(fd, e, Len(buf))
      /\ fd.wr_off + Len(buf) <= MaxSize
      /\ FreeClusters(fat) # {} /\ Cardinality(FreeClusters(fat)) >= Room(fd, e, num_cluster(Len(buf)))
      /\ fat' = end.fat /\ data' = end.data
      /\ dir' = [dir EXCEPT ![fd.entry[1]][fd.entry[2]].file_size = fd.wr_off + end.total,
                            ![fd.entry[1]][fd.entry[2]].first_cluster =
                              IF fd.wr_cluster = 0 THEN begin.cluster ELSE @]
      /\ fds' = [fds EXCEPT ![d].wr_off = @ + end.total, ![d].wr_cluster = end.cluster,
                            ![d].wr_cluster_off = end.off]
      /\ out' = <<>>

-----------------------------------------------------------------------------
\* An empty volume.
FATInit ==
  /\ fat = [c \in Cluster |-> IF c = root_cluster THEN kEndOfClusterchain ELSE 0]
  /\ data = [c \in Cluster |-> [i \in 1..bytes_per_cluster |-> Garbage]]
  /\ dir = [c \in Cluster |-> EmptyDirectory]
  /\ fds = [d \in FD |-> NotOpen] /\ out = <<>>

Use(d) ==
  \/ Close(d)
  \/ \E len \in 0..MaxLen : \E buf \in [1..len -> Byte] : Write(d, buf)
  \/ \E len \in 1..MaxLen : Read(d, len)
  \/ \E offset \in 0..MaxSize : Load(d, MaxLen, offset)

FATNext == \E d \in FD :
  \/ \E n \in Name, mode \in Mode : Open(d, n, mode)
  \/ fds[d] # NotOpen /\ Use(d)

FATSpec == FATInit /\ [][FATNext]_fatVars

-----------------------------------------------------------------------------
(* Properties.                                                             *)

FilePlaces == {p \in Cluster \X (1..EntriesPerCluster) : Entry(p).name \in Name}
Starts == {Entry(p).first_cluster : p \in FilePlaces} \ {0}
Ends(c) == Nth(fat, c, LastCluster) = kEndOfClusterchain
Links(c) == {Nth(fat, c, k) : k \in 0..LastCluster} \ {kEndOfClusterchain}

\* Every chain ends and is marked as used all along, no cluster is in two
\* chains or reached from two files, a used cluster belongs to a file or to
\* the directory, and a file is no longer than its chain, whatever files are
\* created, extended and written again, and the directory with them.
ChainsSound ==
  /\ \A c \in Starts \cup {root_cluster} :
       Ends(c) /\ Links(c) \subseteq Cluster \ FreeClusters(fat)
  /\ \A b, c \in Starts \cup {root_cluster} : b # c => Links(b) \cap Links(c) = {}
  /\ \A p, q \in FilePlaces :
       p # q => Entry(p).first_cluster = 0 \/ Entry(p).first_cluster # Entry(q).first_cluster
  /\ Cluster = FreeClusters(fat) \cup UNION {Links(c) : c \in Starts \cup {root_cluster}}
  /\ \A p \in FilePlaces : LET e == Entry(p) IN
       e.file_size <= IF e.first_cluster = 0 THEN 0
                      ELSE bytes_per_cluster * Cardinality(Links(e.first_cluster))

ByteAt(c, i) == IF c \in Cluster THEN data[c][(i % bytes_per_cluster) + 1] ELSE Garbage
Content(e) == [i \in 1..e.file_size |->
                 ByteAt(Nth(fat, e.first_cluster, (i - 1) \div bytes_per_cluster), i - 1)]

Contents == [n \in Name |-> IF FindFile(n) = {} THEN NoFile
                            ELSE CHOOSE s \in {Content(Entry(p)) : p \in FindFile(n)} : TRUE]

Volume == INSTANCE Files WITH
  contents <- Contents,
  fds <- [d \in FD |-> IF fds[d] = NotOpen THEN NotOpen
                       ELSE [name |-> Entry(fds[d].entry).name,
                             rd_off |-> fds[d].rd_off, wr_off |-> fds[d].wr_off]]

\* What is read, from any place and in pieces of any length, is what was
\* written: clusters and their ends do not show, files do not touch one
\* another, and each name finds its file.
ImplementsFiles == Volume!Spec
=============================================================================

-------------------------------- MODULE Files --------------------------------
(***************************************************************************)
(* What the file system promises its users: a file is a sequence of bytes  *)
(* found by its name; a descriptor has a place to read from and a place to *)
(* write to; writing makes the file end after what was written.            *)
(***************************************************************************)
EXTENDS Integers, Sequences

CONSTANTS Name, Byte, FD, NotOpen,
          NoFile,          \* the contents of a name that does not exist
          MaxLen, MaxSize  \* bounds: bytes of one read or write, and of a file

VARIABLES contents,  \* of each name
          fds,       \* of each descriptor, its file and places
          out        \* the bytes that the last call returned

vars == <<contents, fds, out>>

Init ==
  /\ contents \in [Name -> {NoFile} \cup Seq(Byte)]
  /\ fds = [d \in FD |-> NotOpen] /\ out = <<>>

Open(d, n) ==
  /\ out' = <<>>
  /\ fds' = [fds EXCEPT ![d] = [name |-> n, rd_off |-> 0, wr_off |-> 0]]
  /\ contents' = IF contents[n] = NoFile THEN [contents EXCEPT ![n] = <<>>] ELSE contents

Close(d) ==
  /\ out' = <<>>
  /\ fds' = [fds EXCEPT ![d] = NotOpen]
  /\ UNCHANGED contents

Write(d, buf) ==
  /\ out' = <<>>
  /\ fds' = [fds EXCEPT ![d].wr_off = @ + Len(buf)]
  /\ contents' = [contents EXCEPT ![fds[d].name] = SubSeq(@, 1, fds[d].wr_off) \o buf]

\* At most len bytes from offset on.
Part(s, offset, len) == SubSeq(s, offset + 1, IF offset + len < Len(s) THEN offset + len ELSE Len(s))

Read(d, len) ==
  /\ fds' = [fds EXCEPT ![d].rd_off = @ + Len(out')]
  /\ out' = Part(contents[fds[d].name], fds[d].rd_off, len)
  /\ UNCHANGED contents

Load(d, len, offset) ==
  /\ UNCHANGED fds
  /\ out' = Part(contents[fds[d].name], offset, len)
  /\ UNCHANGED contents

Next == \E d \in FD :
  \/ fds[d] = NotOpen /\ \E n \in Name : Open(d, n)
  \/ fds[d] # NotOpen /\ ( \/ Close(d)
                           \/ \E len \in 0..MaxLen : \E buf \in [1..len -> Byte] : Write(d, buf)
                           \/ \E len \in 1..MaxLen : Read(d, len)
                           \/ \E offset \in 0..MaxSize : Load(d, MaxLen, offset))

Spec == Init /\ [][Next]_vars
=============================================================================

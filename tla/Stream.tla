------------------------------- MODULE Stream -------------------------------
(***************************************************************************)
(* What a pipe promises: the reader gets the bytes that were written, in   *)
(* order and each once, in pieces of any size; it is told of the end when  *)
(* the writer has closed and nothing is left, and not before; and as long  *)
(* as it has not quit, what is written does reach it.                      *)
(***************************************************************************)
EXTENDS Integers, Sequences

CONSTANTS Byte, MaxBytes

VARIABLES written, \* the bytes written
          got,     \* the bytes read
          closed,  \* the writer has closed
          ended,   \* the reader has been told so
          quit     \* the reader reads no more

vars == <<written, got, closed, ended, quit>>

Init == written = <<>> /\ got = <<>> /\ closed = FALSE /\ ended = FALSE /\ quit = FALSE

Bytes == UNION {[1..n -> Byte] : n \in 0..MaxBytes}

Write ==
  /\ ~closed /\ \E bytes \in Bytes : written' = written \o bytes
  /\ UNCHANGED <<got, closed, ended, quit>>

Close == ~closed /\ closed' = TRUE /\ UNCHANGED <<written, got, ended, quit>>

Read ==
  /\ ~quit
  /\ \E n \in (Len(got) + 1)..Len(written) : got' = SubSeq(written, 1, n)
  /\ UNCHANGED <<written, closed, ended, quit>>

End ==
  /\ ~quit /\ closed /\ got = written /\ ended' = TRUE
  /\ UNCHANGED <<written, got, closed, quit>>

Quit == quit' = TRUE /\ UNCHANGED <<written, got, closed, ended>>

Next == Write \/ Close \/ Read \/ End \/ Quit

Spec == Init /\ [][Next]_vars /\ WF_vars(Read \/ End)
=============================================================================

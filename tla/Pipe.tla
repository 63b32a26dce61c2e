-------------------------------- MODULE Pipe --------------------------------
(***************************************************************************)
(* A command line with a pipe: the terminal that runs the left command, the *)
(* task it makes for the right one, and the PipeDescriptor that is standard *)
(* output of the first and standard input of the second (terminal.cpp).     *)
(*                                                                          *)
(* The pipe is the reader's mailbox: bytes travel in messages of at most    *)
(* Piece bytes, among whatever else is sent to that task.                   *)
(***************************************************************************)
EXTENDS Integers, Sequences

CONSTANTS Byte, Piece,          \* bytes, and how many a message holds
          Request,              \* numbers of bytes a reader asks for
          MaxBytes, MaxOther    \* bounds of what is written, of other messages

ASSUME PipeAssumption ==
  Piece \in Nat \ {0} /\ Request \subseteq Nat \ {0} /\ MaxBytes \in Nat /\ MaxOther \in Nat

VARIABLES left,     \* where the terminal is: "new", "run", "write", "wait", "done"
          bufc,     \* what is left to send of the buffer being written
          right,    \* where the reader is: "none", "new", "run", "read", "finish", "done"
          len,      \* how many bytes the Read in progress asks for
          mailbox,  \* the messages of the reader's task
          data_, closed_, \* of the descriptor: a piece partly read, the end seen
          others,   \* number of messages that are not of the pipe
          written, got, ended, quit, \* history: what was written and read
          wild      \* a message was sent to a task that is gone

reader == <<right, len, data_, closed_, got, ended, quit>>
writer == <<left, bufc, written>>
vars == <<writer, reader, mailbox, others, wild>>

Other == [type |-> "other", data |-> <<>>]
PipeMessage(data) == [type |-> "kPipe", data |-> data]

Least(m, n) == IF m < n THEN m ELSE n
First(s, n) == SubSeq(s, 1, Least(n, Len(s)))
Rest(s, n) == SubSeq(s, n + 1, Len(s))

Init ==
  /\ left = "new" /\ bufc = <<>> /\ right = "none" /\ len = 0
  /\ mailbox = <<>> /\ data_ = <<>> /\ closed_ = FALSE /\ others = 0
  /\ written = <<>> /\ got = <<>> /\ ended = FALSE /\ quit = FALSE /\ wild = FALSE

-----------------------------------------------------------------------------
(* The left side: ExecuteLine *)

\* NewTask, the descriptor, Wakeup.
MakeReader ==
  /\ left = "new" /\ left' = "run" /\ right' = "new"
  /\ UNCHANGED <<bufc, written, len, data_, closed_, got, ended, quit, mailbox, others, wild>>

\* task_.SendMessage, through a reference: the task may be gone.
Send(m) ==
  /\ wild' = (right = "done")
  /\ mailbox' = IF right = "done" THEN mailbox ELSE Append(mailbox, m)

\* Mutant: a piece is sent whether or not there is anything to send.
WriteAtLeastOnce ==
  /\ left = "run"
  /\ \E bytes \in UNION {[1..n -> Byte] : n \in 0..(MaxBytes - Len(written))} :
       /\ Send(PipeMessage(First(bytes, Piece)))
       /\ written' = written \o bytes /\ bufc' = Rest(bytes, Piece)
  /\ left' = "write"
  /\ UNCHANGED <<reader, others>>

\* Write: of the command's output, of any length, none included.
Write ==
  /\ left = "run"
  /\ \E bytes \in UNION {[1..n -> Byte] : n \in 0..(MaxBytes - Len(written))} :
       written' = written \o bytes /\ bufc' = bytes
  /\ left' = "write"
  /\ UNCHANGED <<reader, mailbox, others, wild>>

\* One turn of its loop.
SendPiece ==
  /\ left = "write" /\ bufc # <<>>
  /\ Send(PipeMessage(First(bufc, Piece)))
  /\ bufc' = Rest(bufc, Piece)
  /\ UNCHANGED <<left, written, reader, others>>

Written ==
  /\ left = "write" /\ bufc = <<>> /\ left' = "run"
  /\ UNCHANGED <<bufc, written, reader, mailbox, others, wild>>

\* The command ends: FinishWrite.
FinishWrite ==
  /\ left = "run" /\ left' = "wait"
  /\ Send(PipeMessage(<<>>))
  /\ UNCHANGED <<bufc, written, reader, others>>

WaitFinish ==
  /\ left = "wait" /\ right = "done" /\ left' = "done"
  /\ UNCHANGED <<bufc, written, reader, mailbox, others, wild>>

Left == MakeReader \/ Write \/ SendPiece \/ Written \/ FinishWrite \/ WaitFinish

-----------------------------------------------------------------------------
(* The right side *)

StartReader ==
  /\ right = "new" /\ right' = "run"
  /\ UNCHANGED <<len, data_, closed_, got, ended, quit, writer, mailbox, others, wild>>

CallRead ==
  /\ right = "run" /\ right' = "read" /\ len' \in Request
  /\ UNCHANGED <<data_, closed_, got, ended, quit, writer, mailbox, others, wild>>

\* Read hands out the beginning of bytes and keeps the rest.
Return(bytes) ==
  /\ right' = "run"
  /\ got' = got \o First(bytes, len) /\ data_' = Rest(bytes, len)

ReturnEnd == right' = "run" /\ ended' = TRUE

\* Mutant: what is left of the last piece is forgotten.
ReadAfresh ==
  /\ right = "read" /\ data_ # <<>>
  /\ data_' = <<>>
  /\ UNCHANGED <<right, len, closed_, got, ended, quit, writer, mailbox, others, wild>>

\* Read, when something is left of the last piece, and after the end.
ReadKept ==
  /\ right = "read" /\ data_ # <<>>
  /\ Return(data_)
  /\ UNCHANGED <<len, closed_, ended, quit, writer, mailbox, others, wild>>

ReadClosed ==
  /\ right = "read" /\ data_ = <<>> /\ closed_
  /\ ReturnEnd
  /\ UNCHANGED <<len, data_, closed_, got, quit, writer, mailbox, others, wild>>

\* One turn of its loop: other messages are dropped, an empty piece is the end.
Receive ==
  /\ right = "read" /\ data_ = <<>> /\ ~closed_ /\ mailbox # <<>>
  /\ LET m == Head(mailbox)
     IN \/ /\ m.type # "kPipe"
           /\ UNCHANGED <<right, data_, closed_, got, ended>>
        \/ /\ m = PipeMessage(<<>>)
           /\ ReturnEnd /\ closed_' = TRUE /\ UNCHANGED <<data_, got>>
        \/ /\ m.type = "kPipe" /\ m.data # <<>>
           /\ Return(m.data) /\ UNCHANGED <<closed_, ended>>
  /\ mailbox' = Tail(mailbox)
  /\ UNCHANGED <<len, quit, writer, others, wild>>

\* The command ends, having read to the end or not, and TaskTerminal finishes:
\* the task is deleted, with its mailbox.
EndCommand ==
  /\ right = "run" /\ right' = "finish" /\ quit' = TRUE
  /\ UNCHANGED <<len, data_, closed_, got, ended, writer, mailbox, others, wild>>

Finish ==
  /\ right = "finish" /\ right' = "done" /\ mailbox' = <<>>
  /\ UNCHANGED <<len, data_, closed_, got, ended, quit, writer, others, wild>>

\* A key, or the news that the window is active.
SendOther ==
  /\ right \notin {"none", "done"} /\ others < MaxOther
  /\ mailbox' = Append(mailbox, Other) /\ others' = others + 1
  /\ UNCHANGED <<writer, reader, wild>>

Reading == StartReader \/ CallRead \/ ReadKept \/ ReadClosed \/ Receive \/ Finish

Next == ~wild /\ (Left \/ Reading \/ EndCommand \/ SendOther)

\* Both tasks run on (Kernel).  A reader that has not quit goes on reading,
\* a writer may compute for ever before it writes or ends, and the loop of
\* Write ends.
Spec ==
  /\ Init /\ [][Next]_vars
  /\ WF_vars(~wild /\ Reading) /\ WF_vars(~wild /\ (SendPiece \/ Written))

-----------------------------------------------------------------------------
(* Properties *)

TypeOK ==
  /\ left \in {"new", "run", "write", "wait", "done"}
  /\ right \in {"none", "new", "run", "read", "finish", "done"}
  /\ len \in {0} \cup Request /\ closed_ \in BOOLEAN /\ ended \in BOOLEAN
  /\ quit \in BOOLEAN /\ wild \in BOOLEAN /\ others \in 0..MaxOther
  /\ {bufc, data_, written, got} \subseteq Seq(Byte)
  /\ mailbox \in Seq([type : {"kPipe", "other"}, data : Seq(Byte)])

\* A writer writes to a reader that is gone only if that one ended before it
\* had read to the end: the end is the last thing sent, and sent once
\* (terminal.cpp:1045-1066).
OnlyQuittersMissed == wild => ~ended /\ quit

\* The pipe is a stream (Stream): from the moment a Write is called its bytes
\* are on their way, and a reader that reads on gets them, and then the end,
\* whatever else is sent to its task (terminal.cpp:1009-1066).
S == INSTANCE Stream WITH closed <- left \in {"wait", "done"}
ImplementsStream == S!Spec
=============================================================================

----------------------------- MODULE LineEditor -----------------------------
(***************************************************************************)
(* The line that is typed in a terminal: InputKey, Print and HistoryUpDown  *)
(* of Terminal (terminal.cpp), as functions of the terminal's state.  The   *)
(* line is kept twice, in the cells of the window's row and in linebuf_,    *)
(* and the cursor and linebuf_index_ move separately.                       *)
(*                                                                          *)
(* A letter is its code; linebuf_ holds its low bits.  Of the window only   *)
(* the row of the cursor is kept, and of a window that others print into    *)
(* too, that they have.  Codes that are not those of ASCII in their low     *)
(* bits are left out: their bytes do not stand for one letter each.         *)
(***************************************************************************)
EXTENDS Integers, Sequences, SequencesExt

CONSTANTS kRows, kColumns, kLineMax,
          HistorySize,  \* lines kept
          CharRange,    \* what a char can hold
          Letter,       \* the letters on the keyboard
          MaxMixed      \* bound of what others print into the window

ASSUME LineAssumption ==
  /\ kRows \in Nat \ {0} /\ kColumns \in Nat \ {0, 1} /\ kLineMax \in Nat \ {0}
  /\ HistorySize \in Nat \ {0} /\ CharRange \in Nat \ {0}
  /\ MaxMixed \in Nat /\ Letter \subseteq Nat /\ \A c \in Letter : c % CharRange # 0

Narrow(c) == c % CharRange

\* What a cell shows besides letters, and what commands print.
Blank == 0
Prompt == -1
Half == -2
Wide == -3
Newline == -4
Output == {Half, Wide, Newline}

BlankRow == [x \in 0..(kColumns - 1) |-> Blank]

\* linebuf is linebuf_ up to linebuf_index_.
Start ==
  [x |-> 1, y |-> 0, row |-> [BlankRow EXCEPT ![0] = Prompt],
   linebuf |-> <<>>, cmd_history_ |-> [i \in 1..HistorySize |-> <<>>], cmd_history_index_ |-> 0,
   running |-> FALSE,    \* in ExecuteLine
   mixed |-> 0,          \* what others have printed into the window
   outside |-> FALSE]    \* something was drawn right of the last column

-----------------------------------------------------------------------------
(* Output *)

Draw(t, x, g) ==
  IF x \in 0..(kColumns - 1) THEN [t EXCEPT !.row = [@ EXCEPT ![x] = g]] ELSE [t EXCEPT !.outside = TRUE]

\* The next row; the rows scroll up when there is none.
NextRow(t) ==
  [t EXCEPT !.x = 0, !.y = IF @ < kRows - 1 THEN @ + 1 ELSE @, !.row = BlankRow]

\* Print(char32_t): a character that has no room in the row goes to the next.
PrintChar(t, c) ==
  IF c = Newline THEN NextRow(t)
  ELSE IF c = Wide
  THEN LET u == IF t.x >= kColumns - 1 THEN NextRow(t) ELSE t
       IN [Draw(Draw(u, u.x, c), u.x + 1, c) EXCEPT !.x = u.x + 2]
  ELSE LET u == IF t.x = kColumns THEN NextRow(t) ELSE t
       IN [Draw(u, u.x, c) EXCEPT !.x = u.x + 1]

-----------------------------------------------------------------------------
(* InputKey *)

\* A line that is not empty goes into the history, and ExecuteLine begins.
Enter(t) ==
  [NextRow(t) EXCEPT
     !.cmd_history_ = IF t.linebuf = <<>> THEN @
                      ELSE [i \in 1..HistorySize |-> IF i = 1 THEN t.linebuf ELSE @[i - 1]],
     !.linebuf = <<>>, !.cmd_history_index_ = 0, !.running = TRUE]

\* ExecuteLine ends.
Ready(t) == [PrintChar(t, Prompt) EXCEPT !.running = FALSE]

Backspace(t) ==
  IF t.x = 0 THEN t
  ELSE [Draw(t, t.x - 1, Blank) EXCEPT
          !.x = t.x - 1, !.linebuf = IF @ = <<>> THEN @ ELSE Front(@)]

Type(t, c) ==
  IF t.x < kColumns - 1 /\ Len(t.linebuf) < kLineMax - 1
  THEN [Draw(t, t.x, c) EXCEPT !.x = t.x + 1, !.linebuf = Append(@, Narrow(c))]
  ELSE t

\* Mutant: what is right of the recalled line is not cleared.
RecallUncleared(t, n) ==
  LET line == IF n > 0 THEN t.cmd_history_[n] ELSE <<>>
  IN [t EXCEPT !.x = Len(line) + 1, !.linebuf = line, !.cmd_history_index_ = n,
               !.row = [x \in 0..(kColumns - 1) |-> IF x \in DOMAIN line THEN line[x] ELSE @[x]],
               !.outside = @ \/ Len(line) >= kColumns]

\* The n-th line of the history, or none, is written over what was typed: from
\* the second column on, wherever the prompt is.
Recall(t, n) ==
  LET line == IF n > 0 THEN t.cmd_history_[n] ELSE <<>>
  IN [t EXCEPT !.x = Len(line) + 1, !.linebuf = line, !.cmd_history_index_ = n,
               !.row = [x \in 0..(kColumns - 1) |->
                          IF x = 0 THEN @[0] ELSE IF x <= Len(line) THEN line[x] ELSE Blank],
               !.outside = @ \/ Len(line) >= kColumns]

Down(t) == Recall(t, IF t.cmd_history_index_ > 0 THEN t.cmd_history_index_ - 1 ELSE 0)
Up(t) ==
  Recall(t, IF t.cmd_history_index_ < HistorySize THEN t.cmd_history_index_ + 1
            ELSE t.cmd_history_index_)

InputKey(t) == {Enter(t), Backspace(t), Down(t), Up(t)} \cup {Type(t, c) : c \in Letter}

-----------------------------------------------------------------------------
(* A terminal: its keys, while no command runs; what its commands print, and *)
(* what others do that were given its descriptors (ksfnerfe).                *)

Steps(t) ==
  IF t.outside THEN {}
  ELSE (IF t.running THEN {PrintChar(t, c) : c \in Output} \cup {Ready(t)} ELSE InputKey(t))
         \cup (IF t.mixed < MaxMixed
               THEN { [PrintChar(t, c) EXCEPT !.mixed = @ + 1] : c \in Output } ELSE {})

Terminal ==
  [x : Nat, y : 0..(kRows - 1), row : [0..(kColumns - 1) -> Int], linebuf : Seq(Nat),
   cmd_history_ : [1..HistorySize -> Seq(Nat)], cmd_history_index_ : 0..HistorySize,
   running : BOOLEAN, mixed : 0..MaxMixed, outside : BOOLEAN]

\* The cell g stands for the byte c: it shows c, or it was typed as a letter
\* that is wider than a char, of which only the low bits are kept.
Shows(g, c) == g = c \/ (g \in Letter /\ g >= CharRange /\ Narrow(g) = c)

Printed == Output \cup {Prompt, Blank}

\* linebuf_ never overflows, and as long as nobody else prints into the
\* window, all that is drawn is in the window, and of the letters in the row
\* exactly those that end at the cursor, one cell for each byte, are the line
\* that Enter would run: nothing is right of the cursor, and left of the line
\* is only what was printed (terminal.cpp:332-388, 747-776, 818-842).
\* There is one exception.  The history is written from the second column on
\* and the first is left as it is (terminal.cpp:825-840): a letter that was
\* typed there, over a prompt that was erased, stays, though it is no part of
\* the line any more.  It can stand only directly before a line that begins in
\* the second column.
LineOK(t) ==
  LET first == t.x - Len(t.linebuf)
  IN /\ Len(t.linebuf) < kLineMax
     /\ t.mixed = 0 =>
          /\ ~t.outside /\ 0 <= first /\ t.x <= kColumns
          /\ \A i \in DOMAIN t.linebuf : Shows(t.row[first + i - 1], t.linebuf[i])
          /\ \A x \in t.x..(kColumns - 1) : t.row[x] = Blank
          /\ first # 1 => \A x \in 0..(first - 1) : t.row[x] \in Printed
=============================================================================

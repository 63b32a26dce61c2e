------------------------------ MODULE TextBox ------------------------------
(***************************************************************************)
(* The text boxes of the main task, as functions of their state: the plain *)
(* one (textwindow.cpp), Bhat (lang/textwindowbhat.cpp), which makes one    *)
(* letter of two, and Pekzep (lang/textwindowpekzep.cpp), which turns what  *)
(* is spelled into the characters of a dictionary.                          *)
(*                                                                          *)
(* The index of the cursor of a box is not initialised; it is in the frame  *)
(* of KernelMainNewStack, on a stack that no one has used before and that   *)
(* is zero.                                                                 *)
(***************************************************************************)
EXTENDS Integers, Sequences, SequencesExt

CONSTANTS max_chars,          \* letters that fit into a box
          Consonant, Vowel,   \* letters of Bhat, and the one that becomes a halant
          Halant, Question, Quote, Ligature,
          Spelling, Hanzi,    \* letters that spell, and characters
          Space,
          Dict                \* the words that can be drawn: [hanzi, praige], in their order

ASSUME TextBoxAssumption ==
  /\ max_chars \in Nat \ {0}
  /\ Dict \in Seq([hanzi : Seq(Hanzi), praige : Seq(Spelling)])

Gap == "gap"

-----------------------------------------------------------------------------
(* The plain box and Bhat: cells shows what is drawn, content what Bhat keeps. *)

EmptyBox == [content |-> <<>>, cells |-> [x \in 0..max_chars |-> Gap], cursor_index |-> 0]

Write(b, x, c) == [b EXCEPT !.cells[x] = c]

BoxBackspace(b) ==
  IF b.cursor_index = 0 THEN b
  ELSE [Write(b, b.cursor_index - 1, Gap) EXCEPT
          !.cursor_index = b.cursor_index - 1,
          !.content = IF @ = <<>> THEN @ ELSE Front(@)]

Put(b, c) ==
  [Write(b, b.cursor_index, c) EXCEPT
     !.cursor_index = b.cursor_index + 1, !.content = Append(@, c)]

Full(b) == b.cursor_index >= max_chars

PlainType(b, c) == IF Full(b) THEN b ELSE Put(b, c)

\* Mutant: the question mark is taken off the content only.
BhatTypeUnmoved(b, c) ==
  IF Full(b) THEN b
  ELSE IF c = Quote /\ b.content # <<>> /\ Last(b.content) = Question
  THEN Put([b EXCEPT !.content = Front(@)], Ligature)
  ELSE Put(b, c)

\* A vowel after a consonant is a halant; a question mark and a quote become
\* one sign in the place of the first.
BhatType(b, c) ==
  IF Full(b) THEN b
  ELSE IF c = Vowel /\ b.content # <<>> /\ Last(b.content) \in Consonant
  THEN Put(b, Halant)
  ELSE IF c = Quote /\ b.content # <<>> /\ Last(b.content) = Question
  THEN Put([Write(b, b.cursor_index - 1, Gap) EXCEPT
              !.cursor_index = b.cursor_index - 1, !.content = Front(@)],
           Ligature)
  ELSE Put(b, c)

\* What is shown is what has been entered, and the cursor is behind it
\* (textwindow.cpp:14-25, textwindowbhat.cpp:67-134).
BoxOK(b) ==
  /\ b.cursor_index = Len(b.content) /\ b.cursor_index <= max_chars
  /\ \A x \in 0..max_chars :
       b.cells[x] = IF x < Len(b.content) THEN b.content[x + 1] ELSE Gap

-----------------------------------------------------------------------------
(* Pekzep *)

EmptyIME ==
  [solidified |-> <<>>, non_solidified |-> <<>>, candidate_index |-> 0, candidates |-> <<>>,
   wild |-> FALSE]   \* a candidate was read that is not there

\* startsWith, of every word, in the order of the dictionary.
ComputeCandidates(spelled) ==
  LET found[k \in 0..Len(Dict)] ==
        IF k = 0 THEN <<>>
        ELSE IF IsPrefix(spelled, Dict[k].praige) THEN Append(found[k - 1], Dict[k].hanzi)
        ELSE found[k - 1]
  IN IF spelled = <<>> THEN <<>> ELSE found[Len(Dict)]

\* Render, after non_solidified has changed.
Spelled(s, spelled) ==
  [s EXCEPT !.non_solidified = spelled, !.candidates = ComputeCandidates(spelled),
            !.candidate_index = IF spelled = <<>> THEN @ ELSE 0]

Right(s) ==
  IF s.candidates # <<>> /\ s.candidate_index # Len(s.candidates) - 1
  THEN [s EXCEPT !.candidate_index = @ + 1] ELSE s
Left(s) ==
  IF s.candidates # <<>> /\ s.candidate_index # 0
  THEN [s EXCEPT !.candidate_index = @ - 1] ELSE s

IMEBackspace(s) ==
  IF s.non_solidified # <<>> THEN Spelled(s, Front(s.non_solidified))
  ELSE IF s.solidified # <<>> THEN [s EXCEPT !.solidified = Front(@)]
  ELSE s

IMEType(s, c) == Spelled(s, Append(s.non_solidified, c))

\* The space takes the candidate that is chosen; when nothing in the dictionary
\* is spelled so, what it reads is not a candidate.
IMESpace(s) ==
  IF s.non_solidified = <<>> THEN [s EXCEPT !.solidified = Append(@, Space)]
  ELSE IF s.candidate_index >= Len(s.candidates) THEN [s EXCEPT !.wild = TRUE]
  ELSE [Spelled(s, <<>>) EXCEPT !.solidified = @ \o s.candidates[s.candidate_index + 1]]

\* The candidates shown are those of what is spelled, and one of them is chosen;
\* a candidate that is not there is taken only when there is none at all
\* (textwindowpekzep.cpp:35-45, 97-128).
IMEOK(s) ==
  /\ s.candidates = ComputeCandidates(s.non_solidified)
  /\ s.candidates # <<>> => s.candidate_index \in 0..(Len(s.candidates) - 1)
  /\ s.wild => s.candidates = <<>>
=============================================================================

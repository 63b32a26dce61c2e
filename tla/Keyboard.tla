------------------------------ MODULE Keyboard ------------------------------
(***************************************************************************)
(* Where text is typed: the case kKeyPush of the main task's loop           *)
(* (main.cpp) hands a key to the text box that is active, or to the task of *)
(* the active window, here a terminal.  Which of the four it is does not    *)
(* change: the fields share nothing.                                        *)
(***************************************************************************)
EXTENDS LineEditor, TextBox

CONSTANT MaxText   \* bound of what Pekzep has taken and of what is spelled

VARIABLES act, terminal, plain, bhat, pekzep

vars == <<act, terminal, plain, bhat, pekzep>>

Init ==
  /\ act \in {"terminal", "plain", "bhat", "pekzep"}
  /\ terminal = Start /\ plain = EmptyBox /\ bhat = EmptyBox /\ pekzep = EmptyIME

KeyToTerminal ==
  /\ act = "terminal" /\ terminal' \in Steps(terminal)
  /\ UNCHANGED <<act, plain, bhat, pekzep>>

BhatLetter == Consonant \cup {Vowel, Question, Quote}

InputTextWindow ==
  /\ act = "plain"
  /\ plain' \in {BoxBackspace(plain)} \cup {PlainType(plain, c) : c \in BhatLetter}
  /\ UNCHANGED <<act, terminal, bhat, pekzep>>

InputTextWindowBhat ==
  /\ act = "bhat"
  /\ bhat' \in {BoxBackspace(bhat)} \cup {BhatType(bhat, c) : c \in BhatLetter}
  /\ UNCHANGED <<act, terminal, plain, pekzep>>

InputTextWindowPekzep ==
  /\ act = "pekzep" /\ ~pekzep.wild
  /\ \/ pekzep' \in {IMEBackspace(pekzep), Left(pekzep), Right(pekzep)}
     \/ Len(pekzep.solidified) < MaxText /\ pekzep' = IMESpace(pekzep)
     \/ /\ Len(pekzep.non_solidified) < MaxText
        /\ pekzep' \in {IMEType(pekzep, c) : c \in Spelling}
  /\ UNCHANGED <<act, terminal, plain, bhat>>

Next == KeyToTerminal \/ InputTextWindow \/ InputTextWindowBhat \/ InputTextWindowPekzep

Spec == Init /\ [][Next]_vars

\* Whatever keys and output come in which order, the letters seen in the
\* cursor's row are those of the line that Enter would run, and no others, but
\* for one that was typed over the erased prompt and is left in the first
\* column by the history (LineOK; terminal.cpp:332-388, 747-842).
LineSound == LineOK(terminal)

\* The boxes show what has been entered (BoxOK), and Pekzep takes a candidate
\* that is one of those it shows, unless it shows none (IMEOK)
\* (textwindow.cpp:14-25, textwindowbhat.cpp:67-134, textwindowpekzep.cpp:97-128).
BoxesSound == BoxOK(plain) /\ BoxOK(bhat) /\ IMEOK(pekzep)
=============================================================================

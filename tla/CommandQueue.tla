---------------------------- MODULE CommandQueue ----------------------------
(***************************************************************************)
(* What the rings of usb/xhci/ring.cpp promise the code that uses them:    *)
(* each command that was pushed is answered once, in the order of pushing, *)
(* and the answer names the command.                                       *)
(***************************************************************************)
EXTENDS Sequences

CONSTANT Command

VARIABLES asked,    \* commands that wait for their answer
          answered  \* the commands that the last answer was about, at most one

vars == <<asked, answered>>

Init == asked = <<>> /\ answered = {}

Ask(c) == asked' = Append(asked, c) /\ UNCHANGED answered

Answer == asked # <<>> /\ answered' = {Head(asked)} /\ asked' = Tail(asked)

\* An event about something else, such as a port, is looked at.
Other == answered' = {} /\ UNCHANGED asked

Next == (\E c \in Command : Ask(c)) \/ Answer \/ Other

Spec == Init /\ [][Next]_vars
=============================================================================

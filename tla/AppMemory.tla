----------------------------- MODULE AppMemory -----------------------------
(***************************************************************************)
(* What paging.cpp and the loader of terminal.cpp promise to applications: *)
(* each one that runs sees a memory of its own, which starts with the      *)
(* image of its file, its arguments and an empty stack, and changes only   *)
(* by what it does itself.                                                 *)
(***************************************************************************)
EXTENDS Naturals

CONSTANTS Task,                       \* tasks that run applications
          NumPages,                   \* pages of an application's half
          ImagePages, StackPages, ArgsPage

VARIABLE mem    \* of each task: what the application sees in each page

Page == 0..(NumPages - 1)

\* No page is there while no application runs.
Nothing == [p \in Page |-> "none"]

Fresh ==
  [p \in Page |-> CASE p \in ImagePages -> "image"
                    [] p \in StackPages -> "zero"
                    [] p = ArgsPage     -> "args"
                    [] OTHER            -> "none"]

Init == mem = [t \in Task |-> Nothing]

Start(t) == mem[t] = Nothing /\ mem' = [mem EXCEPT ![t] = Fresh]

\* The application stores, or has a system call store, into one of its pages.
Store(t) ==
  \E p \in Page : mem[t][p] # "none" /\ mem' = [mem EXCEPT ![t][p] = "new"]

\* It asks for one more page, or for pages that show a file.
Grow(t) ==
  \E p \in Page, v \in {"zero", "file"} :
     mem[t] # Nothing /\ mem[t][p] = "none" /\ mem' = [mem EXCEPT ![t][p] = v]

Exit(t) == mem[t] # Nothing /\ mem' = [mem EXCEPT ![t] = Nothing]

Next == \E t \in Task : Start(t) \/ Store(t) \/ Grow(t) \/ Exit(t)

Spec == Init /\ [][Next]_mem
=============================================================================

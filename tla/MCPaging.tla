------------------------------ MODULE MCPaging ------------------------------
(* Paging with two entries to a table.  Two levels: the image, a page of     *)
(* heap, the stack and the arguments.  Three levels: an image of two pages   *)
(* with room for heap, and a page of stack and one of arguments below the    *)
(* top with room for files.                                                  *)
EXTENDS Paging, TLC

TwoLevels == <<2, 1>>
ThreeLevels == <<4, 2, 1>>
OnePage == {0}
OneStack == {2}
TwoPages == {0, 1}
HighStack == {6}
Symmetry == Permutations(Task)
=============================================================================

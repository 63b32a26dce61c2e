------------------------------ MODULE MCKernel ------------------------------
(* Kernel with a few tasks; no caller of Wakeup gives a level. *)
EXTENDS Kernel

OnlyDefault == {-1}
=============================================================================

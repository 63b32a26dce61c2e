------------------------------- MODULE MCXHCI -------------------------------
(* XHCI with a few ports and as many slots. *)
EXTENDS XHCI
=============================================================================

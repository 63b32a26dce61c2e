------------------------------- MODULE MCRing -------------------------------
(* Ring with two commands and rings of a few entries. *)
EXTENDS Ring
=============================================================================

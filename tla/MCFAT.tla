------------------------------- MODULE MCFAT -------------------------------
(* FAT with a few files on a volume of a few clusters of two bytes. *)
EXTENDS FAT, TLC

\* Files, descriptors and bytes differ in nothing but themselves.
Symmetric == Permutations(Name) \cup Permutations(FD) \cup Permutations(Byte)
=============================================================================

---------------------------- MODULE MCImageIndex ----------------------------
(* The pictures of the TLC runs of ImageIndex: they share a word, and a third *)
(* of their bits.  The second entry has the later date.                      *)
EXTENDS ImageIndex, TLC

CONSTANTS u1, u2

Pictures == (u1 :> {0}) @@ (u2 :> {0, 2, 3})
ByDate == [n \in 1 .. MaxEntry |-> MaxEntry + 1 - n]
=============================================================================

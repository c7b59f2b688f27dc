------------------------------ MODULE MCBuffers ---------------------------
(* Two buffers, three blocks, objects of up to four bytes.                 *)
EXTENDS Buffers, TLC

MCLengths == {0, 1, 3}
MCStrings == {<< >>, <<1>>, <<0, 1>>}
MCSymmetry == Permutations(Blocks) \cup Permutations(Names)
===========================================================================

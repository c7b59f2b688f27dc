------------------------------ MODULE ByteString --------------------------
(***************************************************************************)
(* What a buffer promises: a string of bytes, whose length may change      *)
(* unless it is a view, and which is lost when the memory for a longer one *)
(* cannot be had.  There is no capacity.                                   *)
(***************************************************************************)
EXTENDS Naturals, Sequences

CONSTANTS Byte, Nothing

VARIABLES
  bytes,       \* the string, or Nothing
  growable

stringVars == <<bytes, growable>>

AsLong(s, n) == [i \in 1 .. n |-> IF i <= Len(s) THEN s[i] ELSE 0]

Init == bytes = Nothing /\ growable = FALSE

Start == /\ bytes = Nothing
         /\ bytes' \in Seq(Byte)
         /\ growable' \in BOOLEAN

Exists == bytes # Nothing /\ UNCHANGED growable

(* Appending bytes, wherever they come from.                               *)
Lengthen(s) == Exists /\ growable /\ bytes' = bytes \o s

SetLength(n) == Exists /\ growable /\ bytes' = AsLong(bytes, n)

Fill(value) == Exists /\ bytes' = [i \in DOMAIN bytes |-> value]

End == /\ bytes # Nothing
       /\ bytes' = Nothing
       /\ growable' = FALSE

(* The parameters of an appending step are read off the step.              *)
Next ==
  \/ Start
  \/ /\ bytes # Nothing /\ bytes' # Nothing
     /\ \/ Lengthen(SubSeq(bytes', Len(bytes) + 1, Len(bytes')))
        \/ SetLength(Len(bytes'))
        \/ \E value \in Byte : Fill(value)
  \/ End

Spec == Init /\ [][Next]_stringVars
===========================================================================

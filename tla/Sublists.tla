------------------------------- MODULE Sublists -------------------------------
(*****************************************************************************)
(* A loop that goes over a list and keeps some of its elements.              *)
(*****************************************************************************)
EXTENDS Integers, Sequences

\* The elements of s that are in S, in the order of s.  (SelectSeq, as a
\* function on the prefixes of s and with a set for its test.)
Sublist(s, S) ==
  LET kept[i \in 0 .. Len(s)] ==
        IF i = 0 THEN <<>> ELSE IF s[i] \in S THEN Append(kept[i - 1], s[i]) ELSE kept[i - 1]
  IN kept[Len(s)]
===============================================================================

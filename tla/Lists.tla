-------------------------------- MODULE Lists --------------------------------
(***************************************************************************)
(* What the client's lists are built with.                                 *)
(***************************************************************************)
EXTENDS Naturals, Sequences

\* What of s is in S, in the order of s.
Among(s, S) ==
  LET kept[i \in 0 .. Len(s)] ==
        IF i = 0 THEN <<>>
        ELSE IF s[i] \in S THEN Append(kept[i - 1], s[i]) ELSE kept[i - 1]
  IN  kept[Len(s)]
=============================================================================

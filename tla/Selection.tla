------------------------------- MODULE Selection -------------------------------
(***************************************************************************)
(* The elements of a sequence that are in a set, in their order: what      *)
(* Array.prototype.filter leaves.  SelectSeq says the same, but with an    *)
(* operator as its argument, about which nothing can be proved; Selected   *)
(* takes a set, and its lemmas are in Selection_proofs.                    *)
(***************************************************************************)
EXTENDS Naturals, Sequences

Selected(s, T) ==
  LET f[n \in 0..Len(s)] == IF n = 0 THEN <<>>
                            ELSE IF s[n] \in T THEN Append(f[n - 1], s[n]) ELSE f[n - 1]
  IN  f[Len(s)]

================================================================================

---------------------------- MODULE Selection_proofs ----------------------------
(***************************************************************************)
(* Lemmas about Selected.  The library's induction theorems take the       *)
(* predicate as an operator, so the induction here is on the set of the    *)
(* numbers that have the property: a set of numbers that is not empty has  *)
(* a least one.                                                            *)
(***************************************************************************)
EXTENDS Selection, Integers, Functions, WellFoundedInduction, TLAPS

(* Induction, for sets of numbers. *)

LEMMA LeastNumber ==
  ASSUME NEW S \in SUBSET Nat, S # {}
  PROVE  \E n \in S : \A m \in S : n <= m
<1> DEFINE Less == OpToRel(<, Nat)
<1>1. \A m, n \in Nat : <<m, n>> \in Less <=> m < n BY DEF OpToRel
<1>2. IsWellFoundedOn(Less, Nat) BY NatLessThanWellFounded
<1> HIDE DEF Less
<1>3. PICK n \in S : \A m \in S : <<m, n>> \notin Less BY <1>2, WFMin
<1>4. ASSUME NEW m \in S PROVE n <= m
  <2>1. m \in Nat /\ n \in Nat OBVIOUS
  <2>2. ~(m < n) BY <1>1, <1>3, <2>1
  <2> QED BY <2>1, <2>2
<1> QED BY <1>4

LEMMA NumberInduction ==
  ASSUME NEW S, NEW k \in Nat, 0 \in S, \A n \in 1..k : n - 1 \in S => n \in S
  PROVE  \A n \in 0..k : n \in S
<1> DEFINE Bad == {n \in 0..k : n \notin S}
<1>1. CASE Bad = {} BY <1>1
<1>2. CASE Bad # {}
  <2>0. Bad \in SUBSET Nat OBVIOUS
  <2>1. PICK n \in Bad : \A m \in Bad : n <= m BY <1>2, <2>0, LeastNumber
  <2>2. n \in 1..k /\ n - 1 \in 0..k /\ n - 1 \notin Bad BY <2>1
  <2> QED BY <2>2
<1> QED BY <1>1, <1>2

(* A bounded set of numbers that is not empty has a greatest one. *)
LEMMA GreatestNumber ==
  ASSUME NEW k \in Nat, NEW S \in SUBSET (0..k), S # {}
  PROVE  \E n \in S : \A m \in S : m <= n
<1> DEFINE D == {k - n : n \in S}
<1>0. \A n \in S : n \in 0..k OBVIOUS
<1>1. D \in SUBSET Nat /\ D # {}
  <2>1. \A n \in S : k - n \in Nat BY <1>0
  <2>2. D # {} OBVIOUS
  <2> QED BY <2>1, <2>2
<1>2. PICK d \in D : \A e \in D : d <= e BY <1>1, LeastNumber
<1>3. PICK n \in S : d = k - n BY <1>2
<1>4. \A m \in S : k - m \in D OBVIOUS
<1>5. \A m \in S : k - n <= k - m BY <1>2, <1>3, <1>4
<1>6. \A m \in S : m <= n BY <1>0, <1>5
<1> QED BY <1>6

----------------------------------------------------------------------------
(* What Selected computes. *)

Selects(s, T, n, f) ==
  f = [i \in 0..n |-> IF i = 0 THEN <<>>
                      ELSE IF s[i] \in T THEN Append(f[i - 1], s[i]) ELSE f[i - 1]]

(* The recursion has a solution. *)
LEMMA SelectionExists ==
  ASSUME NEW s, NEW T, NEW k \in Nat
  PROVE  \E f : Selects(s, T, k, f)
<1> DEFINE Good == {n \in 0..k : \E f : Selects(s, T, n, f)}
<1>1. 0 \in Good
  <2>1. Selects(s, T, 0, [i \in 0..0 |-> <<>>]) BY DEF Selects
  <2> QED BY <2>1
<1>2. ASSUME NEW n \in 1..k, n - 1 \in Good PROVE n \in Good
  <2>1. PICK f : Selects(s, T, n - 1, f) BY <1>2
  <2> DEFINE g == [i \in 0..n |-> IF i \in 0..(n - 1) THEN f[i]
                                  ELSE IF s[n] \in T THEN Append(f[n - 1], s[n]) ELSE f[n - 1]]
  <2>2. \A i \in 0..(n - 1) : g[i] = f[i] OBVIOUS
  <2>3. g[n] = IF s[n] \in T THEN Append(f[n - 1], s[n]) ELSE f[n - 1] OBVIOUS
  <2>4. \A i \in 0..(n - 1) : f[i] = IF i = 0 THEN <<>>
                                     ELSE IF s[i] \in T THEN Append(f[i - 1], s[i]) ELSE f[i - 1]
    BY <2>1 DEF Selects
  <2>5. \A i \in 0..n : g[i] = IF i = 0 THEN <<>>
                               ELSE IF s[i] \in T THEN Append(g[i - 1], s[i]) ELSE g[i - 1]
    <3> TAKE i \in 0..n
    <3>1. CASE i = n
      <4>1. n - 1 \in 0..(n - 1) /\ g[n - 1] = f[n - 1] /\ n # 0 BY <2>2
      <4> HIDE DEF g
      <4> QED BY <2>3, <3>1, <4>1
    <3>2. CASE i = 0 BY <2>2, <2>4, <3>2
    <3>3. CASE i \in 1..(n - 1)
      <4>1. i \in 0..(n - 1) /\ i - 1 \in 0..(n - 1) /\ i # 0 BY <3>3
      <4>2. g[i] = f[i] /\ g[i - 1] = f[i - 1] BY <2>2, <4>1
      <4> HIDE DEF g
      <4> QED BY <2>4, <4>1, <4>2
    <3> QED BY <3>1, <3>2, <3>3
  <2>6. Selects(s, T, n, g)
    <3>1. g = [i \in 0..n |-> g[i]] OBVIOUS
    <3> HIDE DEF g
    <3> QED BY <2>5, <3>1 DEF Selects
  <2> QED BY <2>6
<1> HIDE DEF Good
<1>3. k \in Good BY <1>1, <1>2, NumberInduction
<1> QED BY <1>3 DEF Good

(* The recursion unfolded. *)
LEMMA SelectedUnfolds ==
  ASSUME NEW s, NEW T, Len(s) \in Nat
  PROVE  \E f : /\ Selected(s, T) = f[Len(s)] /\ f[0] = <<>>
                /\ \A i \in 1..Len(s) :
                     f[i] = IF s[i] \in T THEN Append(f[i - 1], s[i]) ELSE f[i - 1]
<1> DEFINE f == CHOOSE g : Selects(s, T, Len(s), g)
<1>1. Selects(s, T, Len(s), f) BY SelectionExists
<1>2. Selected(s, T) = f[Len(s)] BY DEF Selected, Selects
<1> HIDE DEF f
<1>3. \A i \in 0..Len(s) : f[i] = IF i = 0 THEN <<>>
                                  ELSE IF s[i] \in T THEN Append(f[i - 1], s[i]) ELSE f[i - 1]
  BY <1>1 DEF Selects
<1>4. f[0] = <<>> /\ \A i \in 1..Len(s) :
        f[i] = IF s[i] \in T THEN Append(f[i - 1], s[i]) ELSE f[i - 1]
  BY <1>3
<1> QED BY <1>2, <1>4

(* What is selected is a sequence of elements of s that are in T, not longer than s. *)
LEMMA SelectedType ==
  ASSUME NEW S, NEW T, NEW s \in Seq(S)
  PROVE  Selected(s, T) \in Seq(S \cap T) /\ Len(Selected(s, T)) <= Len(s)
<1>0. Len(s) \in Nat OBVIOUS
<1>1. PICK f : /\ Selected(s, T) = f[Len(s)] /\ f[0] = <<>>
               /\ \A i \in 1..Len(s) :
                    f[i] = IF s[i] \in T THEN Append(f[i - 1], s[i]) ELSE f[i - 1]
  BY <1>0, SelectedUnfolds
<1> DEFINE Good == {n \in 0..Len(s) : f[n] \in Seq(S \cap T) /\ Len(f[n]) <= n}
<1>2. 0 \in Good
  <2>1. <<>> \in Seq(S \cap T) /\ Len(<<>>) = 0 OBVIOUS
  <2>2. f[0] \in Seq(S \cap T) /\ Len(f[0]) <= 0 BY <1>1, <2>1
  <2>3. 0 \in 0..Len(s) BY <1>0
  <2> QED BY <2>2, <2>3
<1>3. ASSUME NEW n \in 1..Len(s), n - 1 \in Good PROVE n \in Good
  <2>1. f[n - 1] \in Seq(S \cap T) /\ Len(f[n - 1]) <= n - 1 BY <1>3
  <2>2. CASE s[n] \in T
    <3>0. s[n] \in S OBVIOUS
    <3>1. s[n] \in S \cap T /\ f[n] = Append(f[n - 1], s[n]) BY <1>1, <2>2, <3>0
    <3>2. f[n] \in Seq(S \cap T) /\ Len(f[n]) = Len(f[n - 1]) + 1 BY <2>1, <3>1
    <3> QED BY <2>1, <3>2
  <2>3. CASE s[n] \notin T
    <3>1. f[n] = f[n - 1] BY <1>1, <2>3
    <3>2. Len(f[n]) \in Nat BY <2>1, <3>1
    <3> QED BY <2>1, <3>1, <3>2
  <2> QED BY <2>2, <2>3
<1> HIDE DEF Good
<1>4. Len(s) \in Good
  <2>1. \A n \in 0..Len(s) : n \in Good BY <1>0, <1>2, <1>3, NumberInduction
  <2> QED BY <1>0, <2>1
<1> QED BY <1>1, <1>4 DEF Good

(* Where every element is in T, all of s is selected. *)
LEMMA SelectedAll ==
  ASSUME NEW S, NEW s \in Seq(S), NEW T, \A i \in DOMAIN s : s[i] \in T
  PROVE  Selected(s, T) = s
<1>0. Len(s) \in Nat /\ DOMAIN s = 1..Len(s) OBVIOUS
<1>1. PICK f : /\ Selected(s, T) = f[Len(s)] /\ f[0] = <<>>
               /\ \A i \in 1..Len(s) :
                    f[i] = IF s[i] \in T THEN Append(f[i - 1], s[i]) ELSE f[i - 1]
  BY <1>0, SelectedUnfolds
<1> DEFINE Good == {n \in 0..Len(s) : f[n] = SubSeq(s, 1, n)}
<1>2. 0 \in Good
  <2>1. SubSeq(s, 1, 0) = <<>> OBVIOUS
  <2>2. f[0] = SubSeq(s, 1, 0) BY <1>1, <2>1
  <2>3. 0 \in 0..Len(s) BY <1>0
  <2> QED BY <2>2, <2>3
<1>3. ASSUME NEW n \in 1..Len(s), n - 1 \in Good PROVE n \in Good
  <2>1. f[n] = Append(SubSeq(s, 1, n - 1), s[n]) BY <1>0, <1>1, <1>3
  <2>2. Append(SubSeq(s, 1, n - 1), s[n]) = SubSeq(s, 1, n) OBVIOUS
  <2> QED BY <2>1, <2>2
<1> HIDE DEF Good
<1>4. Len(s) \in Good
  <2>1. \A n \in 0..Len(s) : n \in Good BY <1>0, <1>2, <1>3, NumberInduction
  <2> QED BY <1>0, <2>1
<1>5. SubSeq(s, 1, Len(s)) = s OBVIOUS
<1> QED BY <1>1, <1>4, <1>5 DEF Good
================================================================================

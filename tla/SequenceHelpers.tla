-------------------------- MODULE SequenceHelpers --------------------------
(***************************************************************************)
(* What the code does to lists and the standard operators do only with an  *)
(* operator as a parameter: filter and sum, of first-order arguments.      *)
(***************************************************************************)
EXTENDS SequencesExt, FiniteSets, Integers

(* filter: the elements of s that are in S, in their order.                *)
Select(s, S) ==
  FlattenSeq([i \in DOMAIN s |-> IF s[i] \in S THEN <<s[i]>> ELSE <<>>])

(* sum                                                                     *)
Total(numbers) ==
  LET upTo[i \in 0 .. Len(numbers)] == IF i = 0 THEN 0 ELSE upTo[i - 1] + numbers[i]
  IN  upTo[Len(numbers)]

(* How many elements of s are in S.                                        *)
Count(s, S) == Cardinality({i \in DOMAIN s : s[i] \in S})
=============================================================================

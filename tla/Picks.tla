--------------------------------- MODULE Picks ---------------------------------
(***************************************************************************)
(* What a loop that copies the entries it wants from one array to another  *)
(* leaves there: SelectSeq without its recursion, so that it can be proved *)
(* about. MCSettings and MCShell compare the two.                          *)
(***************************************************************************)
EXTENDS Naturals, Sequences, FiniteSets

(* The places of s that hold a member of T, and how many of them there are *)
(* up to place i.                                                          *)
Places(s, T) == {i \in 1 .. Len(s) : s[i] \in T}
Upto(P, i)   == {j \in P : j <= i}
Rank(P, i)   == Cardinality(Upto(P, i))

(* The entries of s that are in T, in the order of s.                      *)
Picked(s, T) ==
  LET P == Places(s, T)
  IN [k \in 1 .. Cardinality(P) |-> s[CHOOSE i \in P : Rank(P, i) = k]]
=============================================================================

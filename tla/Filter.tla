-------------------------------- MODULE Filter --------------------------------
(***************************************************************************)
(* Array.prototype.filter: the elements a sequence has at some positions,  *)
(* in their order.                                                         *)
(***************************************************************************)
EXTENDS Naturals, Sequences, FiniteSets

(* Which of the positions a position is, and the position that is k-th.    *)
Rank(S, p) == Cardinality({q \in S : q <= p})
Nth(S, k) == CHOOSE p \in S : Rank(S, p) = k

Kept(s, S) == [k \in 1 .. Cardinality(S) |-> s[Nth(S, k)]]
===============================================================================

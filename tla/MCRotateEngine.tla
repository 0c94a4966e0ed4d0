---------------------------- MODULE MCRotateEngine ----------------------------
(* Instances of RotateEngine for TLC. *)
EXTENDS RotateEngine, TLC

CONSTANTS p1, p2, o1, o2, o3

\* Every call is about the same proxy.
OneProxy == [o \in Ops |-> p1]

\* Two calls about one proxy and, when there is a third, one about another.
TwoProxies == [o \in Ops |-> IF o = o2 THEN p2 ELSE p1]

Symmetric == Permutations(Ops)
===============================================================================

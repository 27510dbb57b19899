------------------------------ MODULE MCPages ------------------------------
(* Pages for TLC: programs of one page, at user page 0.  Pages and            *)
(* environments are interchangeable: only Init tells pages apart, by their     *)
(* order on the first free list.                                               *)
EXTENDS Pages, TLC

CONSTANTS p1, p2, p3, p4, p5, p6, e1, e2, c1

OnePage == <<0>>

SixPages == <<p6, p5, p4, p3, p2, p1>>

Symmetry == Permutations(Page) \cup Permutations(Env)
=============================================================================

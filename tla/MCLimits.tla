------------------------------- MODULE MCLimits -------------------------------
(* Limits with two managers: one with a watched device of two fields and one  *)
(* that is not watched, the other with a watched device of one field.         *)
EXTENDS Limits

CONSTANTS m1, m2, d1, d2, d3, f1, f2

Polled == [m \in {m1, m2} |-> IF m = m1 THEN {d1, d3} ELSE {d2}]
Names1 == [d \in {d1, d2, d3} |-> IF d = d1 THEN {f1, f2} ELSE {f1}]
First1 == [d \in {d1, d2, d3} |-> f1]
=============================================================================

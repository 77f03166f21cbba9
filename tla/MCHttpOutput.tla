---------------------------- MODULE MCHttpOutput ----------------------------
(* HttpOutput on small instances.                                             *)
EXTENDS HttpOutput, TLC

CONSTANTS c1, c2

Symmetry == Permutations(Clients)

Steps == {1, 3}             \* a clock that moves between any two readings
SteppedSteps == {-1, 1}     \* one that is set back
Broken == {2}               \* one reading that cannot be rendered
=============================================================================

------------------------- MODULE MCAccessRequests ---------------------------
(* A small instance of AccessRequests for TLC. *)
EXTENDS AccessRequests, TLC

CONSTANTS ann, bob, tasks, energy, p1, p2, r1, r2, g1, g2

\* Ann may be suspended or disabled, and her access to tasks is granted and
\* withdrawn from the console as well.
AnnOnTasks == {<<ann, tasks>>}

Interchangeable ==
    Permutations({p1, p2}) \cup Permutations({r1, r2}) \cup Permutations({g1, g2})
=============================================================================
